-------------------------- MODULE ErrandFlowProofs --------------------------
(***************************************************************************)
(* Proofs about the Order Service and the Credit Service together, for any *)
(* number of students, orders, periods and messages.                       *)
(*                                                                         *)
(* FlowInv, the inductive invariant, is a conjunction of per-order and     *)
(* per-message parts.  Every step of the Order Service moves each row in   *)
(* one of a few ways (RowMoves); the parts about rows are proved once      *)
(* against those, the parts about the ledger once per Credit handler.      *)
(***************************************************************************)
EXTENDS ErrandFlow, TLAPS

Released == {"RELEASE_PENDING_CREDIT", "CANCELLED", "EXPIRED"}
Completing == {"COMPLETION_PENDING_CREDIT", "COMPLETED"}
Assigned == {"ACCEPTED", "PICKED_UP", "DELIVERED", "DISPUTED"} \cup Completing
Undecided == {"ABSENT", "PENDING_CREDIT", "REJECTED", "OPEN", "ACCEPTED", "PICKED_UP",
              "DELIVERED", "DISPUTED"}

(* The types of Order's state, the clocks of handlers included.            *)
SideTypes ==
    /\ clock \in 0 .. MaxClock
    /\ answered \in [Orders -> {"FREE", "ACTIVE", "SUSPENDED"}]
    /\ checked \in [Orders -> {"NO", "ACTIVE", "SUSPENDED"}]
    /\ applied \subseteq suspended
    /\ admins \subseteq Users /\ listed \subseteq Users
    /\ handling \in [Users -> [phase : {"IDLE", "ASKING", "LOCKING"}, at : Int]]
    /\ \A u \in Users : handling[u].phase # "IDLE" => handling[u].at \in 0 .. clock
    /\ orderAlerts \subseteq Orders \X {"REFERRAL_UNASSIGNED"}

StateTypes == order \in [Orders -> Row] /\ SideTypes

LedgerTypes ==
    /\ requests \subseteq WellFormed /\ missed \subseteq requests
    /\ replies \subseteq Reply
    /\ funded \subseteq Users
    /\ available \in [Users -> Nat] /\ reserved \in [Users -> Nat]
    /\ reservation \in [Orders -> ReserveRow]
    /\ terminal \in [Orders -> TerminalRow]

(* What a status says of the columns of its row.                           *)
RowFits(row) ==
    /\ IF row.status = "ABSENT" THEN row = NoRow ELSE row.requester \in Users /\ row.reward \in Rewards
    /\ row.status \in Assigned => row.courier \notin {NoUser, row.requester}
    /\ row.status \in {"PENDING_CREDIT", "OPEN"} => row.courier = NoUser
    /\ row.status = "PENDING_CREDIT" => row.deadline = NoTime
    /\ row.status = "PICKED_UP" => row.reportAt # NoTime
    /\ row.status = "DELIVERED" => row.confirmAt # NoTime
    /\ row.status \in Released <=> row.releaseReason # "NONE"
    /\ row.status \in {"CANCELLED", "EXPIRED"} => row.status = row.releaseReason
    /\ row.status \in Undecided => row.decidedBy = NoUser
    /\ row.status \in Completing => row.confirmAt # NoTime \/ row.decidedBy # NoUser
    /\ row.decidedBy # NoUser => row.decidedBy \notin {row.requester} \cup row.couriers
    /\ row.status = "COMPLETED" => row.creditTransaction = "TRANSFER"
    /\ row.status \in {"CANCELLED", "EXPIRED"} => row.creditTransaction = "RELEASE"

(* When the times of a row can lie at time `now'.  A deadline ends at most *)
(* one acceptance window after the courier accepted, so what a suspended   *)
(* courier gives back never pushes it further than a window from now.      *)
TimesFit(row, now) ==
    /\ row.deadline <= now + AcceptanceWindow
    /\ row.acceptedAt <= now
    /\ row.reportAt <= now + DeliveryPeriod
    /\ row.confirmAt <= now + AutoConfirmPeriod
    /\ row.status = "OPEN" => row.deadline # NoTime
    /\ row.status = "ACCEPTED" =>
          /\ row.acceptedAt # NoTime /\ row.acceptedAt < row.deadline
          /\ row.deadline <= row.acceptedAt + AcceptanceWindow
    /\ row.releaseReason = "EXPIRED" => row.deadline <= now

(* A reservation reply holds the lock of an order that waits for it, and   *)
(* answers for a suspended requester as soon as the suspension is applied. *)
LockFits(o) ==
    answered[o] # "FREE" =>
        /\ order[o].status = "PENDING_CREDIT"
        /\ reservation[o].outcome = "SUCCEEDED"
        /\ order[o].requester \in applied => answered[o] = "SUSPENDED"

(* Credit's rows of an order, given its row in Order.                      *)
LedgerFits(o) ==
    LET row == order[o] IN
    /\ reservation[o].outcome # "ABSENT" =>
          /\ row.status # "ABSENT"
          /\ reservation[o].requester = row.requester
          /\ reservation[o].amount = row.reward
    /\ row.status \in AfterReservation => reservation[o].outcome = "SUCCEEDED"
    /\ row.status = "REJECTED" =>
          /\ reservation[o].outcome = "REJECTED"
          /\ row.rejection = reservation[o].reason
          /\ row.short = reservation[o].available
    /\ terminal[o].type = "TRANSFER" => row.status \in Completing /\ terminal[o].courier = row.courier
    /\ terminal[o].type = "RELEASE" => row.status \in Released
    /\ row.status = "COMPLETED" => terminal[o].type = "TRANSFER"
    /\ row.status \in {"CANCELLED", "EXPIRED"} => terminal[o].type = "RELEASE"

(* A request restates the row, and asks for what the row still waits for   *)
(* or was given.                                                           *)
RequestFits(m) ==
    LET row == order[m.order] IN
    /\ row.status # "ABSENT"
    /\ m.requester = row.requester /\ m.amount = row.reward
    /\ m.type = "COMPLETION_REQUESTED" => row.status \in Completing /\ m.courier = row.courier
    /\ m.type = "RELEASE_REQUESTED" => row.status \in Released

(* An open reservation is alone on its order.                              *)
MissFits(m) ==
    /\ m.type = "RESERVATION_REQUESTED"
    /\ reservation[m.order].outcome = "ABSENT"
    /\ \A x \in missed : x.order = m.order => x = m

(* A reply says what the ledger says.                                      *)
ReplyFits(r) ==
    LET row == reservation[r.order] IN
    /\ row.outcome = IF r.type = "RESERVATION_REJECTED" THEN "REJECTED" ELSE "SUCCEEDED"
    /\ row.requester = r.requester /\ row.amount = r.amount
    /\ r.type = "RESERVATION_REJECTED" => row.reason = r.reason /\ row.available = r.available
    /\ r.type = "CREDITS_TRANSFERRED" =>
          terminal[r.order].type = "TRANSFER" /\ terminal[r.order].courier = r.courier
    /\ r.type = "CREDITS_RELEASED" => terminal[r.order].type = "RELEASE"

Rows == \A o \in Orders : RowFits(order[o]) /\ TimesFit(order[o], clock) /\ LockFits(o)
Ledger == \A o \in Orders : LedgerFits(o)
Messages ==
    /\ \A m \in requests : RequestFits(m)
    /\ \A m \in missed : MissFits(m)
    /\ \A r \in replies : ReplyFits(r)
    /\ alerts = {}

(* The inductive invariant.                                                *)
FlowInv == StateTypes /\ LedgerTypes /\ Rows /\ Ledger /\ Messages /\ SuspendedHoldNothing

-----------------------------------------------------------------------------
(* The transition table.                                                   *)

(* What a rule of the table writes and emits, by the status it reaches.    *)
LEMMA RuleShape ==
    ASSUME NEW rule \in OrderTransitions
    PROVE  /\ rule.from \in Statuses /\ rule.to \in Statuses
           /\ rule.reason \in {"NONE", "CANCELLED", "EXPIRED"}
           /\ rule.emits \in {"STATUS", "NOTHING", "RELEASE", "COMPLETION"}
           /\ rule.emits = "RELEASE" <=> rule.to = "RELEASE_PENDING_CREDIT"
           /\ rule.emits = "COMPLETION" <=> rule.to = "COMPLETION_PENDING_CREDIT"
           /\ rule.reason # "NONE" <=> rule.to = "RELEASE_PENDING_CREDIT"
BY DEF OrderTransitions, Rule, Moves, Releases, Completes, Statuses

(* Which action reaches a status from which.                               *)
LEMMA RuleEdges ==
    ASSUME NEW rule \in OrderTransitions
    PROVE  /\ rule.to \notin {"PENDING_CREDIT"}
           /\ rule.to = "REJECTED" => rule.from = "PENDING_CREDIT" /\ rule.action = "CREDIT_REJECTED"
           /\ rule.to = "ACCEPTED" => rule.action = "ACCEPT"
           /\ rule.to = "OPEN" =>
                 \/ rule.from = "PENDING_CREDIT" /\ rule.action = "CREDIT_RESERVED"
                 \/ rule.from = "ACCEPTED" /\ rule.action = "COURIER_SUSPENDED"
                 \/ /\ rule.from = "ACCEPTED" /\ rule.action \in {"WITHDRAW", "PICKUP_TIMEOUT"}
                    /\ rule.guard = "BEFORE_DEADLINE"
           /\ rule.to = "PICKED_UP" => rule.from = "ACCEPTED" /\ rule.action = "RECORD_PICKUP"
           /\ rule.to = "DELIVERED" => rule.from = "PICKED_UP" /\ rule.action = "RECORD_DELIVERY"
           /\ rule.to = "DISPUTED" => rule.from \in {"PICKED_UP", "DELIVERED", "DISPUTED"}
           /\ rule.to = "COMPLETION_PENDING_CREDIT" =>
                 \/ rule.from = "DELIVERED"
                 \/ rule.from = "DISPUTED" /\ rule.action = "RESOLVE_FOR_COURIER"
           /\ rule.to = "COMPLETED" =>
                 rule.from = "COMPLETION_PENDING_CREDIT" /\ rule.action = "TRANSFER_CONFIRMED"
           /\ rule.to = "RELEASE_PENDING_CREDIT" =>
                 \/ rule.from \in {"OPEN", "ACCEPTED"}
                 \/ rule.from = "DISPUTED" /\ rule.action = "RESOLVE_FOR_REQUESTER"
                 \/ rule.from = "PENDING_CREDIT" /\ rule.action = "CREDIT_RESERVED"
           /\ rule.to = "CANCELLED" => /\ rule.from = "RELEASE_PENDING_CREDIT"
                                       /\ rule.action = "RELEASE_CONFIRMED"
                                       /\ rule.guard = "REASON_CANCELLED"
           /\ rule.to = "EXPIRED" => /\ rule.from = "RELEASE_PENDING_CREDIT"
                                     /\ rule.action = "RELEASE_CONFIRMED"
                                     /\ rule.guard = "REASON_EXPIRED"
           /\ rule.reason = "EXPIRED" =>
                 rule.guard = "AFTER_DEADLINE" \/ rule.action = "ACCEPTANCE_DEADLINE_PASSED"
           /\ rule.from \in Completing => rule.to = "COMPLETED"
           /\ rule.from \in Released => rule.to \in {"CANCELLED", "EXPIRED"}
           /\ rule.from \notin {"REJECTED", "ABSENT"}
           /\ rule.action \in {"WITHDRAW", "PICKUP_TIMEOUT"} => rule.from = "ACCEPTED"
           /\ rule.action = "RECORD_PICKUP" => rule.to = "PICKED_UP"
           /\ rule.action = "RECORD_DELIVERY" => rule.to = "DELIVERED"
           /\ rule.action \in {"RESOLVE_FOR_COURIER", "RESOLVE_FOR_REQUESTER"} =>
                 rule.from = "DISPUTED" /\ rule.to \notin Undecided
           /\ rule.action \in {"TRANSFER_CONFIRMED", "RELEASE_CONFIRMED"} =>
                 rule.to \in {"COMPLETED", "CANCELLED", "EXPIRED"}
           /\ rule.action = "CREDIT_REJECTED" => rule.to = "REJECTED"
BY DEF OrderTransitions, Rule, Moves, Releases, Completes, Released, Completing, Undecided

-----------------------------------------------------------------------------
(* The row a rule writes, column by column.                                *)

(* The courier loses the errand.                                           *)
Leaves(rule) ==
    \/ rule.action \in {"WITHDRAW", "PICKUP_TIMEOUT"}
    \/ rule.action = "COURIER_SUSPENDED" /\ rule.to = "OPEN"

DeadlineAfter(row, rule, at) ==
    IF rule.to = "OPEN" /\ rule.action = "COURIER_SUSPENDED"
    THEN row.deadline + (at - row.acceptedAt)
    ELSE IF rule.to = "OPEN" /\ rule.action = "CREDIT_RESERVED" THEN at + AcceptanceWindow
    ELSE row.deadline

(* The columns the transition itself decides, and those only a patch can.  *)
Written(row, rule, at, next) ==
    /\ next.status = rule.to
    /\ next.version = row.version + 1
    /\ next.requester = row.requester /\ next.reward = row.reward
    /\ next.courier = (IF Leaves(rule) THEN NoUser ELSE row.courier)
    /\ next.acceptedAt = (IF Leaves(rule) THEN NoTime ELSE row.acceptedAt)
    /\ next.deadline = DeadlineAfter(row, rule, at)
    /\ next.reportAt = (IF rule.action = "RECORD_PICKUP" THEN at + DeliveryPeriod ELSE row.reportAt)
    /\ next.confirmAt = (IF rule.action = "RECORD_DELIVERY" THEN at + AutoConfirmPeriod
                                                           ELSE row.confirmAt)
    /\ next.releaseReason = (IF rule.reason = "NONE" THEN row.releaseReason ELSE rule.reason)
    /\ next.noted = row.noted /\ next.couriers = row.couriers

Kept(row, next) ==
    /\ next.referred = row.referred /\ next.decidedBy = row.decidedBy
    /\ next.creditTransaction = row.creditTransaction
    /\ next.rejection = row.rejection /\ next.short = row.short

Columns == {"status", "version", "requester", "reward", "courier", "releaseReason", "deadline",
            "acceptedAt", "reportAt", "confirmAt", "noted", "referred", "creditTransaction",
            "rejection", "short", "couriers", "decidedBy"}

LEMMA RowColumns == ASSUME NEW row \in Row PROVE DOMAIN row = Columns
BY DEF Row, Columns

(* NextRow, column by column.                                              *)
LEMMA NextRowColumns ==
    ASSUME NEW row \in Row, NEW rule \in OrderTransitions, NEW at
    PROVE  LET next == NextRow(row, rule, at) IN
           /\ next = [c \in Columns |-> next[c]]
           /\ Written(row, rule, at, next) /\ Kept(row, next)
<1> DEFINE patched == TimestampPatch(row, rule.action, rule.to, at)
<1>0. row = [c \in Columns |-> row[c]] /\ DOMAIN row = Columns
  BY RowColumns DEF Row, Columns
<1>1. /\ patched = [c \in Columns |-> patched[c]]
      /\ \A c \in Columns \ {"courier", "acceptedAt", "deadline", "reportAt", "confirmAt"} :
            patched[c] = row[c]
      /\ patched.courier = (IF Leaves(rule) THEN NoUser ELSE row.courier)
      /\ patched.acceptedAt = (IF Leaves(rule) THEN NoTime ELSE row.acceptedAt)
      /\ patched.deadline = DeadlineAfter(row, rule, at)
      /\ patched.reportAt = (IF rule.action = "RECORD_PICKUP" THEN at + DeliveryPeriod ELSE row.reportAt)
      /\ patched.confirmAt = (IF rule.action = "RECORD_DELIVERY" THEN at + AutoConfirmPeriod
                                                                 ELSE row.confirmAt)
  <2>1. CASE rule.action = "COURIER_SUSPENDED" /\ rule.to = "OPEN"
    BY <1>0, <2>1 DEF TimestampPatch, WithoutCourier, Leaves, DeadlineAfter, Columns
  <2>2. CASE rule.action \in {"WITHDRAW", "PICKUP_TIMEOUT"}
    BY <1>0, <2>2 DEF TimestampPatch, WithoutCourier, Leaves, DeadlineAfter, Columns
  <2>3. CASE rule.action = "RECORD_PICKUP"
    BY <1>0, <2>3 DEF TimestampPatch, Leaves, DeadlineAfter, Columns
  <2>4. CASE rule.action = "CREDIT_RESERVED" /\ rule.to = "OPEN"
    BY <1>0, <2>4 DEF TimestampPatch, Leaves, DeadlineAfter, Columns
  <2>5. CASE rule.action = "RECORD_DELIVERY"
    BY <1>0, <2>5 DEF TimestampPatch, Leaves, DeadlineAfter, Columns
  <2>6. CASE /\ ~(rule.action = "COURIER_SUSPENDED" /\ rule.to = "OPEN")
             /\ rule.action \notin {"WITHDRAW", "PICKUP_TIMEOUT", "RECORD_PICKUP", "RECORD_DELIVERY"}
             /\ ~(rule.action = "CREDIT_RESERVED" /\ rule.to = "OPEN")
    BY <1>0, <2>6 DEF TimestampPatch, Leaves, DeadlineAfter, Columns
  <2> QED BY <2>1, <2>2, <2>3, <2>4, <2>5, <2>6
<1>2. NextRow(row, rule, at) =
         [patched EXCEPT !.status = rule.to, !.version = @ + 1,
                         !.releaseReason = IF rule.reason = "NONE" THEN @ ELSE rule.reason]
  BY DEF NextRow
<1> DEFINE next == NextRow(row, rule, at)
<1> HIDE DEF patched
<1>3. /\ DOMAIN patched = Columns
      /\ next = [c \in Columns |-> next[c]] /\ \A c \in Columns \ {"status", "version", "releaseReason"} : next[c] = patched[c]
      /\ next.status = rule.to /\ next.version = patched.version + 1
      /\ next.releaseReason = IF rule.reason = "NONE" THEN patched.releaseReason ELSE rule.reason
  <2>1. DOMAIN patched = Columns
    BY <1>1
  <2> QED BY <1>2, <2>1 DEF Columns
<1> HIDE DEF next
<1>4. Kept(row, next)
  BY <1>1, <1>3 DEF Kept, Columns
<1>5. Written(row, rule, at, next)
  BY <1>1, <1>3 DEF Written, Columns
<1> QED BY <1>3, <1>4, <1>5 DEF next

(* A patch replaces its own columns and no others.                         *)
LEMMA PatchedColumns ==
    ASSUME NEW row, DOMAIN row = Columns, NEW patch, DOMAIN patch \subseteq Columns
    PROVE  LET next == Patched(row, patch) IN
           /\ next = [c \in Columns |-> next[c]]
           /\ \A c \in Columns : next[c] = IF c \in DOMAIN patch THEN patch[c] ELSE row[c]
BY DEF Patched

LEMMA RowTyped ==
    ASSUME NEW next, next = [c \in Columns |-> next[c]],
           next.status \in Statuses \cup {"ABSENT"}, next.version \in Nat,
           next.requester \in Users \cup {NoUser}, next.reward \in Rewards \cup {0},
           next.courier \in Users \cup {NoUser},
           next.releaseReason \in {"NONE", "CANCELLED", "EXPIRED"},
           next.deadline \in Times, next.acceptedAt \in Times,
           next.reportAt \in Times, next.confirmAt \in Times,
           next.noted \in BOOLEAN, next.referred \in Users \cup {NoUser},
           next.creditTransaction \in {"NONE", "TRANSFER", "RELEASE"},
           next.rejection \in Rejections \cup {"NONE"}, next.short \in Nat,
           next.couriers \in SUBSET Users, next.decidedBy \in Users \cup {NoUser}
    PROVE  next \in Row
BY DEF Columns, Row

-----------------------------------------------------------------------------
(* How a step of the Order Service moves a row.                            *)

PatchOnly == {"referred", "decidedBy", "creditTransaction", "rejection", "short"}

(* What the guards of the rules say that the invariant needs.              *)
Guarded(row, rule, at) ==
    /\ rule.guard = "BEFORE_DEADLINE" => ~Passed(row.deadline, at)
    /\ rule.guard = "AFTER_DEADLINE" => Passed(row.deadline, at)
    /\ rule.guard = "REASON_CANCELLED" => row.releaseReason = "CANCELLED"
    /\ rule.guard = "REASON_EXPIRED" => row.releaseReason = "EXPIRED"

(* A rule is applied to the row of o, on a clock read at `at'.             *)
Fired(o, rule, at) ==
    LET row == order[o]
        next == order'[o]
    IN  /\ rule.from = row.status /\ rule.action # "ACCEPT"
        /\ Guarded(row, rule, at)
        /\ next = [c \in Columns |-> next[c]]
        /\ Written(row, rule, at, next)
        /\ answered'[o] = "FREE"

(* The step applies the suspension of u that a handler began at `at'.      *)
SuspendedAt(u, at) == at = handling[u].at /\ handling'[u] # handling[u]

(* What the caller of the rule knows and patches.                          *)
Backed(o, rule, at) ==
    LET row == order[o]
        next == order'[o]
    IN  /\ next.referred \in Users \cup {NoUser}
        /\ IF rule.action \in {"RESOLVE_FOR_COURIER", "RESOLVE_FOR_REQUESTER"}
           THEN next.decidedBy \in Users \ Participants(o) ELSE next.decidedBy = row.decidedBy
        /\ IF rule.action \in {"TRANSFER_CONFIRMED", "RELEASE_CONFIRMED"}
           THEN /\ next.creditTransaction = terminal[o].type
                /\ terminal[o].type = (IF rule.action = "TRANSFER_CONFIRMED" THEN "TRANSFER"
                                                                           ELSE "RELEASE")
           ELSE next.creditTransaction = row.creditTransaction
        /\ IF rule.action = "CREDIT_REJECTED"
           THEN /\ reservation[o].outcome = "REJECTED"
                /\ next.rejection = reservation[o].reason
                /\ next.short = reservation[o].available
           ELSE next.rejection = row.rejection /\ next.short = row.short
        /\ rule.action = "CREDIT_RESERVED" =>
              /\ reservation[o].outcome = "SUCCEEDED"
              /\ rule.to = "OPEN" => row.requester \notin applied
        /\ rule.action = "ACCEPTANCE_DEADLINE_PASSED" => Passed(row.deadline, at)
        /\ rule.action = "COURIER_SUSPENDED" => SuspendedAt(row.courier, at)

NewRow(u, n) ==
    [NoRow EXCEPT !.status = "PENDING_CREDIT", !.version = 1, !.requester = u, !.reward = n]

TakenRow(row, u, now) ==
    [row EXCEPT !.status = "ACCEPTED", !.courier = u, !.acceptedAt = now, !.version = @ + 1,
                !.couriers = @ \cup {u}]

Move(o) ==
    \/ order'[o] = order[o]
    \/ order[o].status = "PICKED_UP" /\ \E b \in BOOLEAN : order'[o] = [order[o] EXCEPT !.noted = b]
    \/ order[o].status = "ABSENT" /\ \E u \in Users, n \in Rewards : order'[o] = NewRow(u, n)
    \/ \E u \in Users : /\ MayAccept(o, u) /\ order'[o] = TakenRow(order[o], u, clock)
                        /\ answered'[o] = "FREE"
    \/ \E rule \in OrderTransitions, at \in 0 .. clock : Fired(o, rule, at) /\ Backed(o, rule, at)

(* A request written now restates the row it is written with.              *)
Fresh(m) ==
    /\ m.order \in Orders
    /\ m = Ask(m.type, m.order, order'[m.order])
    /\ \/ m.type = "RESERVATION_REQUESTED" /\ order'[m.order].status = "PENDING_CREDIT"
       \/ m.type = "COMPLETION_REQUESTED" /\ order'[m.order].status = "COMPLETION_PENDING_CREDIT"
       \/ m.type = "RELEASE_REQUESTED" /\ order'[m.order].status = "RELEASE_PENDING_CREDIT"

(* Every row moves in one of these ways, and every new request is fresh.   *)
RowsMove ==
    /\ order' = [o \in Orders |-> order'[o]]
    /\ \A o \in Orders : Move(o)
    /\ requests \subseteq requests' /\ \A m \in requests' \ requests : Fresh(m)

LEMMA DecidedGuard ==
    ASSUME NEW row \in Row, NEW action, NEW actor, NEW at, NEW s,
           NEW rule \in DecideTransition(row.status, action, actor, Context(row, at, s))
    PROVE  /\ rule \in OrderTransitions /\ rule.from = row.status
           /\ rule.action = action /\ rule.actor = actor
           /\ Guarded(row, rule, at)
<1>1. /\ rule \in OrderTransitions /\ rule.from = row.status
      /\ rule.action = action /\ rule.actor = actor
      /\ GuardHolds(rule.guard, Context(row, at, s))
  BY DEF DecideTransition
<1>2. Guarded(row, rule, at)
  BY <1>1 DEF GuardHolds, Context, Guarded
<1> QED BY <1>1, <1>2

(* What the row's own transaction emits is fresh.                          *)
LEMMA EmittedFresh ==
    ASSUME NEW o \in Orders, NEW rule \in OrderTransitions, order'[o].status = rule.to,
           NEW m \in Emitted(o, order'[o], rule)
    PROVE  Fresh(m)
<1>1. CASE rule.emits = "COMPLETION"
  BY <1>1, RuleShape DEF Emitted, Ask, Fresh
<1>2. CASE rule.emits = "RELEASE"
  BY <1>2, RuleShape DEF Emitted, Ask, Fresh
<1> QED BY <1>1, <1>2, RuleShape DEF Emitted

(* A transition fires one rule on one row, patches it, and writes no other *)
(* row.                                                                    *)
FiresOne(o, action, at, patch) ==
    /\ order' = [x \in Orders |-> order'[x]]
    /\ \A x \in Orders \ {o} : order'[x] = order[x]
    /\ requests \subseteq requests' /\ \A m \in requests' \ requests : Fresh(m)
    /\ \E rule \in OrderTransitions :
          /\ Fired(o, rule, at) /\ rule.action = action
          /\ \A c \in PatchOnly :
                order'[o][c] = IF c \in DOMAIN patch THEN patch[c] ELSE order[o][c]

LEMMA OneMoves ==
    ASSUME NEW o \in Orders, NEW action, NEW at, NEW patch, FiresOne(o, action, at, patch), Move(o)
    PROVE  RowsMove
<1>1. \A x \in Orders \ {o} : Move(x)
  BY DEF FiresOne, Move
<1>2. \A x \in Orders : Move(x)
  BY <1>1
<1> QED BY <1>2 DEF FiresOne, RowsMove

LEMMA TransitionFires ==
    ASSUME StateTypes, NEW o \in Orders, NEW action, action # "ACCEPT", NEW actor,
           NEW at \in 0 .. clock, NEW s, NEW patch, DOMAIN patch \subseteq PatchOnly,
           Transition(o, action, actor, at, s, patch), answered' = answered
    PROVE  FiresOne(o, action, at, patch)
<1>0. order[o] \in Row /\ order \in [Orders -> Row]
  BY DEF StateTypes, SideTypes
<1>1. PICK rule \in DecideTransition(order[o].status, action, actor, Context(order[o], at, s)) :
         /\ order' = [order EXCEPT ![o] = Patched(NextRow(order[o], rule, at), patch)]
         /\ requests' = requests \cup Emitted(o, Patched(NextRow(order[o], rule, at), patch), rule)
  BY DEF Transition
<1>2. /\ rule \in OrderTransitions /\ rule.from = order[o].status
      /\ rule.action = action /\ rule.actor = actor /\ Guarded(order[o], rule, at)
  BY <1>0, DecidedGuard
<1> DEFINE mid == NextRow(order[o], rule, at)
           next == Patched(mid, patch)
<1>3. /\ order'[o] = next /\ order' = [x \in Orders |-> order'[x]]
      /\ \A x \in Orders \ {o} : order'[x] = order[x]
  BY <1>0, <1>1
<1>4. /\ mid = [c \in Columns |-> mid[c]]
      /\ Written(order[o], rule, at, mid) /\ Kept(order[o], mid)
  BY <1>0, <1>2, NextRowColumns
<1>5. PatchOnly \subseteq Columns
  BY DEF PatchOnly, Columns
<1>6. DOMAIN mid = Columns
  BY <1>4
<1>7. /\ next = [c \in Columns |-> next[c]]
      /\ \A c \in Columns : next[c] = IF c \in DOMAIN patch THEN patch[c] ELSE mid[c]
  BY <1>5, <1>6, PatchedColumns
<1> HIDE DEF mid, next
<1>8. \A c \in Columns \ PatchOnly : next[c] = mid[c]
  BY <1>7
<1>9. Written(order[o], rule, at, next)
  BY <1>4, <1>8 DEF Written, Columns, PatchOnly
<1>10. \A c \in PatchOnly : next[c] = IF c \in DOMAIN patch THEN patch[c] ELSE order[o][c]
  BY <1>4, <1>5, <1>7 DEF Kept, PatchOnly
<1>11. answered'[o] = "FREE"
  BY DEF Transition, Unlocked
<1>12. Fired(o, rule, at)
  BY <1>2, <1>3, <1>7, <1>9, <1>11 DEF Fired
<1>13. \A m \in requests' \ requests : Fresh(m)
  <2>1. order'[o].status = rule.to
    BY <1>3, <1>9 DEF Written
  <2>2. requests' = requests \cup Emitted(o, order'[o], rule)
    BY <1>1, <1>3 DEF next, mid
  <2> QED BY <1>2, <2>1, <2>2, EmittedFresh
<1> QED BY <1>1, <1>2, <1>3, <1>10, <1>12, <1>13 DEF FiresOne

(* A row that stays needs no more than that it is there.                   *)
LEMMA RowsStay == ASSUME StateTypes, UNCHANGED rowVars PROVE RowsMove
BY DEF StateTypes, SideTypes, rowVars, RowsMove, Move

Special == {"ACCEPT", "RESOLVE_FOR_COURIER", "RESOLVE_FOR_REQUESTER", "TRANSFER_CONFIRMED",
            "RELEASE_CONFIRMED", "CREDIT_REJECTED", "CREDIT_RESERVED", "ACCEPTANCE_DEADLINE_PASSED",
            "COURIER_SUSPENDED"}

(* A transition whose caller patches nothing, or only the referral.        *)
LEMMA PlainMove ==
    ASSUME StateTypes, NEW o \in Orders, NEW action, action \notin Special, NEW actor,
           NEW at \in 0 .. clock, NEW s, NEW patch, DOMAIN patch \subseteq {"referred"},
           "referred" \in DOMAIN patch => patch.referred \in Users \cup {NoUser},
           Transition(o, action, actor, at, s, patch), answered' = answered
    PROVE  RowsMove
<1>1. DOMAIN patch \subseteq PatchOnly /\ action # "ACCEPT"
  BY DEF PatchOnly, Special
<1>a. FiresOne(o, action, at, patch)
  BY <1>1, TransitionFires
<1>2. PICK rule \in OrderTransitions :
         /\ Fired(o, rule, at) /\ rule.action = action
         /\ \A c \in PatchOnly : order'[o][c] = IF c \in DOMAIN patch THEN patch[c] ELSE order[o][c]
  BY <1>a DEF FiresOne
<1>3. order[o] \in Row
  BY DEF StateTypes, SideTypes
<1>4. /\ order'[o].referred \in Users \cup {NoUser} /\ order'[o].decidedBy = order[o].decidedBy
      /\ order'[o].creditTransaction = order[o].creditTransaction
      /\ order'[o].rejection = order[o].rejection /\ order'[o].short = order[o].short
  BY <1>2, <1>3 DEF PatchOnly, Row
<1>5. Backed(o, rule, at)
  BY <1>2, <1>4 DEF Backed, Special
<1>6. Move(o)
  BY <1>2, <1>5 DEF Move
<1>7. /\ order' = [x \in Orders |-> order'[x]]
      /\ \A x \in Orders \ {o} : order'[x] = order[x]
      /\ requests \subseteq requests' /\ \A m \in requests' \ requests : Fresh(m)
  BY <1>a DEF FiresOne
<1> QED BY <1>6, <1>7 DEF RowsMove, Move

LEMMA CreateMoves ==
    ASSUME StateTypes, NEW o \in Orders, NEW u \in Users, NEW n \in Rewards, Create(o, u, n)
    PROVE  RowsMove
<1>1. /\ order \in [Orders -> Row]
      /\ order' = [order EXCEPT ![o] = NewRow(u, n)]
      /\ order[o].status = "ABSENT"
  BY DEF Create, NewRow, Exists, StateTypes, SideTypes
<1>2. Move(o)
  BY <1>1 DEF Move
<1>3. order'[o] = NewRow(u, n) /\ order'[o].status = "PENDING_CREDIT"
  BY <1>1 DEF NewRow, NoRow
<1>4. requests' = requests \cup {Ask("RESERVATION_REQUESTED", o, order'[o])}
  BY DEF Create
<1>5. \A m \in requests' \ requests : Fresh(m)
  BY <1>3, <1>4 DEF Fresh, Ask
<1> QED BY <1>1, <1>2, <1>4, <1>5 DEF RowsMove, Move

LEMMA AcceptMoves ==
    ASSUME StateTypes, NEW o \in Orders, NEW u \in Users, Accept(o, u)
    PROVE  RowsMove
<1>1. /\ order \in [Orders -> Row] /\ order[o] \in Row
      /\ order' = [order EXCEPT ![o] = TakenRow(order[o], u, clock)]
  BY DEF Accept, TakenRow, StateTypes, SideTypes, Row
<1>2. Move(o)
  BY <1>1 DEF Move, Accept, Unlocked
<1>3. requests' = requests
  BY DEF Accept
<1> QED BY <1>1, <1>2, <1>3 DEF RowsMove, Move

LEMMA NoPatchColumns == DOMAIN NoPatch = {}
BY DEF NoPatch

LEMMA CommandMoves ==
    ASSUME StateTypes, NEW o \in Orders, NEW u \in Users, NEW action \in ParticipantActions,
           Command(o, u, action)
    PROVE  RowsMove
<1>1. action \notin Special
  BY DEF ParticipantActions, Special
<1>2. clock \in 0 .. clock
  BY DEF StateTypes, SideTypes
<1> QED BY <1>1, <1>2, PlainMove, NoPatchColumns DEF Command

LEMMA ResolveMoves ==
    ASSUME StateTypes, NEW o \in Orders, NEW u \in Users,
           NEW action \in {"RESOLVE_FOR_COURIER", "RESOLVE_FOR_REQUESTER"}, Resolve(o, u, action)
    PROVE  RowsMove
<1> DEFINE patch == [decidedBy |-> u]
<1>1. DOMAIN patch = {"decidedBy"} /\ DOMAIN patch \subseteq PatchOnly /\ action # "ACCEPT"
  BY DEF PatchOnly
<1>2. clock \in 0 .. clock
  BY DEF StateTypes, SideTypes
<1>3. /\ Transition(o, action, ResolveActor(order[o], u), clock, FALSE, patch)
      /\ answered' = answered /\ u \notin Participants(o)
  BY DEF Resolve
<1> HIDE DEF patch
<1>4. PICK rule \in OrderTransitions :
         /\ Fired(o, rule, clock) /\ rule.action = action
         /\ \A c \in PatchOnly : order'[o][c] = IF c \in DOMAIN patch THEN patch[c] ELSE order[o][c]
  BY <1>1, <1>2, <1>3, TransitionFires DEF FiresOne
<1>5. order[o] \in Row
  BY DEF StateTypes, SideTypes
<1>6. /\ order'[o].referred \in Users \cup {NoUser} /\ order'[o].decidedBy = u
      /\ order'[o].creditTransaction = order[o].creditTransaction
      /\ order'[o].rejection = order[o].rejection /\ order'[o].short = order[o].short
  BY <1>1, <1>4, <1>5 DEF PatchOnly, Row, patch
<1>7. Backed(o, rule, clock)
  BY <1>3, <1>4, <1>6 DEF Backed
<1>8. Move(o)
  BY <1>2, <1>4, <1>7 DEF Move
<1>9. /\ order' = [x \in Orders |-> order'[x]]
      /\ \A x \in Orders \ {o} : order'[x] = order[x]
      /\ requests \subseteq requests' /\ \A m \in requests' \ requests : Fresh(m)
  BY <1>1, <1>2, <1>3, TransitionFires DEF FiresOne
<1> QED BY <1>8, <1>9 DEF RowsMove, Move

LEMMA TimerMoves ==
    ASSUME StateTypes, NEW o \in Orders, NEW at \in SweepTimes,
           ExpireOpen(o, at) \/ TimeOutPickup(o, at) \/ AutoConfirm(o, at) \/ CheckUndelivered(o, at)
    PROVE  RowsMove
<1>0. at \in 0 .. clock
  BY DEF SweepTimes
<1>1. CASE ExpireOpen(o, at)
  <2>1. /\ Transition(o, "ACCEPTANCE_DEADLINE_PASSED", "SYSTEM", at, FALSE, NoPatch)
        /\ answered' = answered /\ Passed(order[o].deadline, at)
    BY <1>1 DEF ExpireOpen, Timer
  <2>2. FiresOne(o, "ACCEPTANCE_DEADLINE_PASSED", at, NoPatch)
    BY <1>0, <2>1, TransitionFires, NoPatchColumns
  <2>3. PICK rule \in OrderTransitions :
           /\ Fired(o, rule, at) /\ rule.action = "ACCEPTANCE_DEADLINE_PASSED"
           /\ \A c \in PatchOnly : order'[o][c] = order[o][c]
    BY <2>2, NoPatchColumns DEF FiresOne
  <2>4. order[o] \in Row
    BY DEF StateTypes, SideTypes
  <2>5. Backed(o, rule, at)
    BY <2>1, <2>3, <2>4 DEF Backed, PatchOnly, Row
  <2>6. Move(o)
    BY <1>0, <2>3, <2>5 DEF Move
  <2> QED BY <2>2, <2>6 DEF RowsMove, Move, FiresOne
<1>2. CASE TimeOutPickup(o, at)
  <2>1. /\ Transition(o, "PICKUP_TIMEOUT", "SYSTEM", at, FALSE, NoPatch)
        /\ answered' = answered /\ "PICKUP_TIMEOUT" \notin Special
    BY <1>2 DEF TimeOutPickup, Timer, Special
  <2> QED BY <1>0, <2>1, PlainMove, NoPatchColumns
<1>3. CASE AutoConfirm(o, at)
  <2>1. /\ Transition(o, "AUTO_CONFIRM", "SYSTEM", at, FALSE, NoPatch)
        /\ answered' = answered /\ "AUTO_CONFIRM" \notin Special
    BY <1>3 DEF AutoConfirm, Timer, Special
  <2> QED BY <1>0, <2>1, PlainMove, NoPatchColumns
<1>4. CASE CheckUndelivered(o, at)
  BY <1>4, RowsStay DEF CheckUndelivered
<1> QED BY <1>1, <1>2, <1>3, <1>4

LEMMA ReferUndeliveredMoves ==
    ASSUME StateTypes, NEW o \in Orders, ReferUndelivered(o)
    PROVE  RowsMove
<1>0. clock \in 0 .. clock /\ order \in [Orders -> Row]
  BY DEF StateTypes, SideTypes
<1>1. CASE checked[o] = "ACTIVE" /\ order[o].status = "PICKED_UP"
  <2>1. order' = [order EXCEPT ![o] = [order[o] EXCEPT !.noted = FALSE]] /\ requests' = requests
    BY <1>1 DEF ReferUndelivered
  <2>2. Move(o)
    BY <1>0, <1>1, <2>1 DEF Move
  <2> QED BY <1>0, <2>1, <2>2 DEF RowsMove, Move
<1>2. CASE checked[o] = "ACTIVE" /\ order[o].status # "PICKED_UP"
  BY <1>2, RowsStay DEF ReferUndelivered, rowVars
<1>3. CASE checked[o] # "ACTIVE" /\ UNCHANGED rowVars
  BY <1>3, RowsStay
<1>4. CASE Transition(o, "DELIVERY_PERIOD_PASSED", "SYSTEM", clock, TRUE, NoPatch)
  <2>1. answered' = answered /\ "DELIVERY_PERIOD_PASSED" \notin Special
    BY DEF ReferUndelivered, Special
  <2> QED BY <1>0, <1>4, <2>1, PlainMove, NoPatchColumns
<1> QED BY <1>1, <1>2, <1>3, <1>4 DEF ReferUndelivered

LEMMA ReferralMoves ==
    ASSUME StateTypes, NEW o \in Orders, ClearReferral(o) \/ AssignReferral(o)
    PROVE  RowsMove
<1>0. clock \in 0 .. clock
  BY DEF StateTypes, SideTypes
<1>1. CASE ClearReferral(o)
  <2> DEFINE patch == [referred |-> NoUser]
  <2>1. /\ Transition(o, "ADMIN_UNASSIGNED", "SYSTEM", clock, FALSE, patch)
        /\ answered' = answered /\ "ADMIN_UNASSIGNED" \notin Special
    BY <1>1 DEF ClearReferral, Special
  <2>2. DOMAIN patch \subseteq {"referred"} /\ patch.referred \in Users \cup {NoUser}
    OBVIOUS
  <2> HIDE DEF patch
  <2> QED BY <1>0, <2>1, <2>2, PlainMove
<1>2. CASE AssignReferral(o)
  <2>1. PICK a \in LeastReferred(Eligible(o)) :
           Transition(o, "ADMIN_ASSIGNED", "SYSTEM", clock, FALSE, [referred |-> a])
    BY <1>2 DEF AssignReferral
  <2>2. a \in Users
    BY DEF LeastReferred, Eligible, StateTypes, SideTypes
  <2> DEFINE patch == [referred |-> a]
  <2>3. answered' = answered /\ "ADMIN_ASSIGNED" \notin Special
    BY <1>2 DEF AssignReferral, Special
  <2>4. DOMAIN patch \subseteq {"referred"} /\ patch.referred \in Users \cup {NoUser}
    BY <2>2
  <2>5. Transition(o, "ADMIN_ASSIGNED", "SYSTEM", clock, FALSE, patch)
    BY <2>1
  <2> HIDE DEF patch
  <2> QED BY <1>0, <2>3, <2>4, <2>5, PlainMove
<1> QED BY <1>1, <1>2

(* The reservation's answer: a suspended requester's order is released,    *)
(* any other opens.                                                        *)
LEMMA ReservedMoves ==
    ASSUME StateTypes, Rows, NEW o \in Orders, Reserved(o)
    PROVE  RowsMove
<1>0. clock \in 0 .. clock /\ order \in [Orders -> Row] /\ order[o] \in Row /\ LockFits(o)
  BY DEF StateTypes, SideTypes, Rows
<1>1. PICK rule \in DecideTransition(order[o].status, "CREDIT_RESERVED", "CREDIT_SERVICE",
                       Context(order[o], clock, answered[o] = "SUSPENDED")) :
         /\ order' = [order EXCEPT ![o] = NextRow(@, rule, clock)]
         /\ requests' = requests \cup Emitted(o, order'[o], rule)
  BY DEF Reserved
<1>2. /\ rule \in OrderTransitions /\ rule.from = order[o].status
      /\ rule.action = "CREDIT_RESERVED" /\ Guarded(order[o], rule, clock)
  BY <1>0, DecidedGuard
<1>3. order'[o] = NextRow(order[o], rule, clock)
  BY <1>0, <1>1
<1>4. /\ order'[o] = [c \in Columns |-> order'[o][c]]
      /\ Written(order[o], rule, clock, order'[o]) /\ Kept(order[o], order'[o])
  BY <1>0, <1>2, <1>3, NextRowColumns
<1>5. answered'[o] = "FREE"
  BY DEF Reserved, StateTypes, SideTypes
<1>6. Fired(o, rule, clock)
  BY <1>2, <1>4, <1>5 DEF Fired
<1>7. rule.to = "OPEN" => order[o].requester \notin applied
  <2>1. rule.to = "OPEN" => rule.guard = "REQUESTER_ACTIVE"
    BY <1>2 DEF OrderTransitions, Rule, Moves, Releases, Completes
  <2>2. rule.guard = "REQUESTER_ACTIVE" => ~(answered[o] = "SUSPENDED")
    BY <1>1 DEF DecideTransition, GuardHolds, Context
  <2> QED BY <1>0, <2>1, <2>2 DEF LockFits, Reserved, Unlocked
<1>8. reservation[o].outcome = "SUCCEEDED"
  BY <1>0 DEF LockFits, Reserved, Unlocked
<1>9. Backed(o, rule, clock)
  BY <1>0, <1>2, <1>4, <1>7, <1>8 DEF Backed, Kept, Row
<1>10. Move(o)
  BY <1>0, <1>2, <1>6, <1>9 DEF Move
<1>11. \A m \in requests' \ requests : Fresh(m)
  BY <1>1, <1>2, <1>4, EmittedFresh DEF Written
<1> QED BY <1>0, <1>1, <1>10, <1>11 DEF RowsMove, Move

LEMMA RejectedMoves ==
    ASSUME StateTypes, LedgerTypes, Messages, NEW r \in replies, Rejected(r)
    PROVE  RowsMove
<1> DEFINE o == r.order
           patch == [rejection |-> r.reason, short |-> r.available]
<1>0. clock \in 0 .. clock /\ o \in Orders /\ order[o] \in Row
  BY DEF StateTypes, SideTypes, LedgerTypes, Reply
<1>1. DOMAIN patch = {"rejection", "short"} /\ patch.rejection = r.reason /\ patch.short = r.available
  OBVIOUS
<1>2. /\ Transition(o, "CREDIT_REJECTED", "CREDIT_SERVICE", clock, FALSE, patch)
      /\ answered' = answered /\ r.type = "RESERVATION_REJECTED"
  BY DEF Rejected
<1>3. /\ reservation[o].outcome = "REJECTED" /\ reservation[o].reason = r.reason
      /\ reservation[o].available = r.available
  BY <1>2 DEF Messages, ReplyFits
<1> HIDE DEF o, patch
<1>4. FiresOne(o, "CREDIT_REJECTED", clock, patch)
  BY <1>0, <1>1, <1>2, TransitionFires DEF PatchOnly
<1>5. PICK rule \in OrderTransitions :
         /\ Fired(o, rule, clock) /\ rule.action = "CREDIT_REJECTED"
         /\ \A c \in PatchOnly : order'[o][c] = IF c \in DOMAIN patch THEN patch[c] ELSE order[o][c]
  BY <1>4 DEF FiresOne
<1>6. /\ order'[o].referred = order[o].referred /\ order'[o].decidedBy = order[o].decidedBy
      /\ order'[o].creditTransaction = order[o].creditTransaction
      /\ order'[o].rejection = r.reason /\ order'[o].short = r.available
  BY <1>1, <1>5 DEF PatchOnly
<1>7. Backed(o, rule, clock)
  BY <1>0, <1>3, <1>5, <1>6 DEF Backed, Row
<1>8. Move(o)
  BY <1>0, <1>5, <1>7 DEF Move
<1> QED BY <1>0, <1>4, <1>8, OneMoves

LEMMA ConfirmedMoves ==
    ASSUME StateTypes, LedgerTypes, Messages, NEW r \in replies, Confirmed(r)
    PROVE  RowsMove
<1> DEFINE o == r.order
           type == ConfirmationOf(r)
           action == IF type = "TRANSFER" THEN "TRANSFER_CONFIRMED" ELSE "RELEASE_CONFIRMED"
           patch == [creditTransaction |-> type]
<1>0. clock \in 0 .. clock /\ o \in Orders /\ order[o] \in Row
  BY DEF StateTypes, SideTypes, LedgerTypes, Reply
<1>1. DOMAIN patch = {"creditTransaction"} /\ patch.creditTransaction = type
  OBVIOUS
<1>2. /\ Transition(o, action, "CREDIT_SERVICE", clock, FALSE, patch)
      /\ answered' = answered /\ r.type \in {"CREDITS_TRANSFERRED", "CREDITS_RELEASED"}
  BY DEF Confirmed, TerminalReplies
<1>3. terminal[o].type = type
  BY <1>2 DEF Messages, ReplyFits, ConfirmationOf
<1>4. /\ action \in {"TRANSFER_CONFIRMED", "RELEASE_CONFIRMED"}
      /\ type = (IF action = "TRANSFER_CONFIRMED" THEN "TRANSFER" ELSE "RELEASE")
  BY DEF ConfirmationOf
<1> HIDE DEF o, patch, action, type
<1>5. FiresOne(o, action, clock, patch)
  <2>1. action # "ACCEPT" /\ DOMAIN patch \subseteq PatchOnly
    BY <1>1, <1>4 DEF PatchOnly
  <2> QED BY <1>0, <1>2, <2>1, TransitionFires
<1>6. PICK rule \in OrderTransitions :
         /\ Fired(o, rule, clock) /\ rule.action = action
         /\ \A c \in PatchOnly : order'[o][c] = IF c \in DOMAIN patch THEN patch[c] ELSE order[o][c]
  BY <1>5 DEF FiresOne
<1>7. /\ order'[o].referred = order[o].referred /\ order'[o].decidedBy = order[o].decidedBy
      /\ order'[o].creditTransaction = type
      /\ order'[o].rejection = order[o].rejection /\ order'[o].short = order[o].short
  BY <1>1, <1>6 DEF PatchOnly
<1>8. Backed(o, rule, clock)
  BY <1>0, <1>3, <1>4, <1>6, <1>7 DEF Backed, Row
<1>9. Move(o)
  BY <1>0, <1>6, <1>8 DEF Move
<1> QED BY <1>0, <1>5, <1>9, OneMoves

(* A suspension fires at most one rule on an errand.                       *)
LEMMA SuspensionRule ==
    ASSUME StateTypes, NEW u, NEW o \in Orders, NEW at, NEW rule \in SuspensionRules(u, o, at)
    PROVE  /\ rule \in OrderTransitions /\ rule.from = order[o].status
           /\ rule.action \in {"REQUESTER_SUSPENDED", "DELIVERY_PERIOD_PASSED", "COURIER_SUSPENDED"}
           /\ Guarded(order[o], rule, at)
           /\ rule.action = SuspensionEffect(order[o].requester = u, order[o].status)
           /\ \A other \in SuspensionRules(u, o, at) : other = rule
<1>0. order[o] \in Row
  BY DEF StateTypes, SideTypes
<1> DEFINE effect == SuspensionEffect(order[o].requester = u, order[o].status)
<1>1. \A x \in SuspensionRules(u, o, at) :
         x \in OrderTransitions /\ x.from = order[o].status /\ x.action = effect
  BY DEF SuspensionRules, DecideTransition
<1>2. Guarded(order[o], rule, at)
  BY <1>0, DecidedGuard DEF SuspensionRules
<1>3. effect \in {"REQUESTER_SUSPENDED", "DELIVERY_PERIOD_PASSED", "COURIER_SUSPENDED", "NONE"}
  BY DEF SuspensionEffect
<1>4. \A x \in OrderTransitions : x.action # "NONE"
  BY DEF OrderTransitions, Rule, Moves, Releases, Completes
<1>5. \A x, y \in OrderTransitions :
         /\ x.action \in {"REQUESTER_SUSPENDED", "DELIVERY_PERIOD_PASSED", "COURIER_SUSPENDED"}
         /\ x.from = y.from /\ x.action = y.action
         => x = y
  BY DEF OrderTransitions, Rule, Moves, Releases, Completes
<1> HIDE DEF effect
<1>6. \A other \in SuspensionRules(u, o, at) : other = rule
  BY <1>1, <1>3, <1>4, <1>5
<1> QED BY <1>1, <1>2, <1>3, <1>4, <1>6 DEF effect

LEMMA ApplySuspensionMoves ==
    ASSUME StateTypes, NEW u \in Users, ApplySuspension(u)
    PROVE  RowsMove
<1> DEFINE at == handling[u].at
<1>0. at \in 0 .. clock
  BY DEF ApplySuspension, StateTypes, SideTypes
<1>1. order' = [o \in Orders |-> IF o \in ActiveErrands(u) THEN AfterSuspension(u, o, at)
                                 ELSE order[o]]
  BY DEF ApplySuspension
<1>2. requests' = requests \cup
         UNION {UNION {Emitted(o, order'[o], rule) : rule \in SuspensionRules(u, o, at)} :
                o \in ActiveErrands(u)}
  BY DEF ApplySuspension
<1>3. \A o \in ActiveErrands(u) : o \in Orders /\ answered'[o] = "FREE"
  BY DEF ApplySuspension, Unlocked, ActiveErrands
<1>a. SuspendedAt(u, at)
  BY DEF ApplySuspension, StateTypes, SideTypes, Idle, SuspendedAt
<1> HIDE DEF at
<1>4. ASSUME NEW o \in ActiveErrands(u), SuspensionRules(u, o, at) # {}
      PROVE  \E rule \in SuspensionRules(u, o, at) : Fired(o, rule, at) /\ Backed(o, rule, at)
  <2>0. o \in Orders /\ order[o] \in Row
    BY <1>3 DEF StateTypes, SideTypes
  <2> DEFINE rule == CHOOSE x \in SuspensionRules(u, o, at) : TRUE
  <2>1. rule \in SuspensionRules(u, o, at)
    BY <1>4
  <2>2. order'[o] = NextRow(order[o], rule, at)
    BY <1>1, <1>4, <2>0 DEF AfterSuspension
  <2> HIDE DEF rule
  <2>3. /\ rule \in OrderTransitions /\ rule.from = order[o].status
        /\ rule.action \in {"REQUESTER_SUSPENDED", "DELIVERY_PERIOD_PASSED", "COURIER_SUSPENDED"}
        /\ Guarded(order[o], rule, at)
        /\ rule.action = SuspensionEffect(order[o].requester = u, order[o].status)
    BY <2>0, <2>1, SuspensionRule
  <2>a. rule.action = "COURIER_SUSPENDED" => order[o].courier = u
    BY <2>3 DEF SuspensionEffect, ActiveErrands
  <2>4. /\ order'[o] = [c \in Columns |-> order'[o][c]]
        /\ Written(order[o], rule, at, order'[o]) /\ Kept(order[o], order'[o])
    BY <2>0, <2>2, <2>3, NextRowColumns
  <2>5. Fired(o, rule, at)
    BY <1>3, <2>3, <2>4 DEF Fired
  <2>6. Backed(o, rule, at)
    BY <1>a, <2>0, <2>3, <2>4, <2>a DEF Backed, Kept, Row
  <2> QED BY <2>1, <2>5, <2>6
<1>5. ASSUME NEW o \in Orders PROVE Move(o)
  <2>1. CASE o \notin ActiveErrands(u)
    BY <1>1, <2>1 DEF Move
  <2>2. CASE o \in ActiveErrands(u) /\ SuspensionRules(u, o, at) # {}
    <3>1. PICK rule \in SuspensionRules(u, o, at) : Fired(o, rule, at) /\ Backed(o, rule, at)
      BY <1>4, <2>2
    <3>2. rule \in OrderTransitions
      BY SuspensionRule
    <3> QED BY <1>0, <3>1, <3>2 DEF Move
  <2>3. CASE o \in ActiveErrands(u) /\ SuspensionRules(u, o, at) = {}
    BY <1>1, <2>3 DEF AfterSuspension, Move
  <2> QED BY <2>1, <2>2, <2>3
<1>6. ASSUME NEW m \in requests' \ requests PROVE Fresh(m)
  <2>1. PICK o \in ActiveErrands(u) :
           \E rule \in SuspensionRules(u, o, at) : m \in Emitted(o, order'[o], rule)
    BY <1>2
  <2>2. PICK rule \in SuspensionRules(u, o, at) : m \in Emitted(o, order'[o], rule)
    BY <2>1
  <2>3. o \in Orders
    BY <1>3
  <2>4. rule \in OrderTransitions /\ Fired(o, rule, at)
    BY <1>4, <2>2, <2>3, SuspensionRule
  <2> QED BY <2>2, <2>3, <2>4, EmittedFresh DEF Fired, Written
<1> QED BY <1>1, <1>2, <1>5, <1>6 DEF RowsMove

(* Every step of the Order Service moves every row in one of these ways.   *)
LEMMA RowMoves ==
    ASSUME StateTypes, LedgerTypes, Rows, Messages, OrderNext
    PROVE  RowsMove
<1>1. ASSUME NEW o \in Orders, NEW u \in Users,
             \/ \E n \in Rewards : Create(o, u, n)
             \/ Accept(o, u)
             \/ \E action \in ParticipantActions : Command(o, u, action)
             \/ \E action \in {"RESOLVE_FOR_COURIER", "RESOLVE_FOR_REQUESTER"} : Resolve(o, u, action)
      PROVE  RowsMove
  BY <1>1, CreateMoves, AcceptMoves, CommandMoves, ResolveMoves
<1>2. ASSUME NEW o \in Orders, NEW at \in SweepTimes,
             ExpireOpen(o, at) \/ TimeOutPickup(o, at) \/ AutoConfirm(o, at) \/ CheckUndelivered(o, at)
      PROVE  RowsMove
  BY <1>2, TimerMoves
<1>3. ASSUME NEW o \in Orders,
             \/ ReferUndelivered(o) \/ ClearReferral(o) \/ AssignReferral(o)
             \/ AlertUnassigned(o) \/ Reserved(o) \/ AbandonReply(o)
      PROVE  RowsMove
  <2>1. CASE AlertUnassigned(o) \/ AbandonReply(o)
    BY <2>1, RowsStay DEF AlertUnassigned, AbandonReply
  <2> QED BY <1>3, <2>1, ReferUndeliveredMoves, ReferralMoves, ReservedMoves
<1>4. CASE ListAdmins \/ EndReferrals \/ Tick
  BY <1>4, RowsStay DEF ListAdmins, EndReferrals, Tick
<1>5. ASSUME NEW r \in replies, AskRequester(r) \/ Rejected(r) \/ Confirmed(r)
      PROVE  RowsMove
  BY <1>5, RejectedMoves, ConfirmedMoves, RowsStay DEF AskRequester
<1>6. ASSUME NEW u \in Users,
             \/ ReceiveSuspension(u) \/ AskSuspension(u) \/ AbandonSuspension(u)
             \/ ApplySuspension(u) \/ Suspend(u) \/ Reinstate(u) \/ ChangeAdmin(u)
      PROVE  RowsMove
  <2>1. CASE ApplySuspension(u)
    BY <2>1, ApplySuspensionMoves
  <2>2. CASE ~ApplySuspension(u)
    BY <1>6, <2>2, RowsStay DEF ReceiveSuspension, AskSuspension, AbandonSuspension, Suspend,
       Reinstate, ChangeAdmin
  <2> QED BY <2>1, <2>2
<1> QED BY <1>1, <1>2, <1>3, <1>4, <1>5, <1>6 DEF OrderNext

-----------------------------------------------------------------------------
(* The rest of the Order Service's state.                                  *)

(* The locks a reservation reply holds and the suspensions that have been  *)
(* applied change in few steps.                                            *)
LocksMove ==
    \A o \in Orders :
        \/ answered'[o] \in {"FREE", answered[o]}
        \/ \E r \in replies : AskRequester(r) /\ r.order = o

AppliedMoves ==
    \/ applied' \subseteq applied
    \/ \E u \in Users : ApplySuspension(u) /\ applied' \subseteq applied \cup {u}

SideStep ==
    /\ SideTypes' /\ LocksMove /\ AppliedMoves
    /\ clock' \in {clock, clock + 1}

(* A step that leaves all of this alone.                                   *)
LEMMA SideStays ==
    ASSUME SideTypes,
           UNCHANGED <<clock, answered, checked, suspensionVars, outsideVars, listed, orderAlerts>>
    PROVE  SideStep
BY DEF SideTypes, SideStep, LocksMove, AppliedMoves, suspensionVars, outsideVars

LEMMA SideSteps ==
    ASSUME StateTypes, LedgerTypes, OrderNext
    PROVE  SideStep
<1> USE DEF StateTypes, SideStep, LocksMove, AppliedMoves, suspensionVars, outsideVars
<1>1. ASSUME NEW o \in Orders, NEW u \in Users,
             \/ \E n \in Rewards : Create(o, u, n)
             \/ Accept(o, u)
             \/ \E action \in ParticipantActions : Command(o, u, action)
             \/ \E action \in {"RESOLVE_FOR_COURIER", "RESOLVE_FOR_REQUESTER"} : Resolve(o, u, action)
      PROVE  SideStep
  BY <1>1, SideStays DEF Create, Accept, Command, Resolve
<1>2. ASSUME NEW o \in Orders, NEW at \in SweepTimes,
             ExpireOpen(o, at) \/ TimeOutPickup(o, at) \/ AutoConfirm(o, at) \/ CheckUndelivered(o, at)
      PROVE  SideStep
  <2>1. CASE CheckUndelivered(o, at)
    BY <2>1 DEF CheckUndelivered, SideTypes
  <2> QED BY <1>2, <2>1, SideStays DEF ExpireOpen, TimeOutPickup, AutoConfirm, Timer
<1>3. ASSUME NEW o \in Orders, ReferUndelivered(o) PROVE SideStep
  BY <1>3 DEF ReferUndelivered, SideTypes
<1>4. ASSUME NEW o \in Orders, ClearReferral(o) \/ AssignReferral(o) PROVE SideStep
  BY <1>4, SideStays DEF ClearReferral, AssignReferral
<1>5. ASSUME NEW o \in Orders, AlertUnassigned(o) PROVE SideStep
  BY <1>5 DEF AlertUnassigned, RaiseAlert, SideTypes
<1>6. ASSUME NEW o \in Orders, Reserved(o) \/ AbandonReply(o) PROVE SideStep
  BY <1>6 DEF Reserved, AbandonReply, SideTypes
<1>7. CASE ListAdmins \/ EndReferrals
  BY <1>7 DEF ListAdmins, EndReferrals, SideTypes
<1>8. CASE Tick
  BY <1>8, PeriodAssumption DEF Tick, SideTypes
<1>9. ASSUME NEW r \in replies, AskRequester(r) PROVE SideStep
  BY <1>9 DEF AskRequester, SideTypes
<1>10. ASSUME NEW r \in replies, Rejected(r) \/ Confirmed(r) PROVE SideStep
  BY <1>10, SideStays DEF Rejected, Confirmed
<1>11. ASSUME NEW u \in Users, ReceiveSuspension(u) PROVE SideStep
  BY <1>11 DEF ReceiveSuspension, SideTypes
<1>12. ASSUME NEW u \in Users, AskSuspension(u) PROVE SideStep
  BY <1>12 DEF AskSuspension, SideTypes, Idle, NoTime
<1>13. ASSUME NEW u \in Users, AbandonSuspension(u) PROVE SideStep
  BY <1>13 DEF AbandonSuspension, SideTypes, Idle, NoTime
<1>14. ASSUME NEW u \in Users, ApplySuspension(u) PROVE SideStep
  <2>1. /\ handling' = [handling EXCEPT ![u] = Idle]
        /\ applied' = applied \cup ({u} \cap suspended)
        /\ UNCHANGED <<clock, answered, checked, suspended, news, outsideVars, listed, orderAlerts>>
    BY <1>14 DEF ApplySuspension
  <2>2. SideTypes'
    BY <2>1 DEF SideTypes, Idle, NoTime
  <2> QED BY <1>14, <2>1, <2>2
<1>15. ASSUME NEW u \in Users, Suspend(u) \/ Reinstate(u) \/ ChangeAdmin(u) PROVE SideStep
  BY <1>15 DEF Suspend, Reinstate, ChangeAdmin, SideTypes
<1> QED BY <1>1, <1>2, <1>3, <1>4, <1>5, <1>6, <1>7, <1>8, <1>9, <1>10, <1>11, <1>12, <1>13,
           <1>14, <1>15 DEF OrderNext

-----------------------------------------------------------------------------
(* Rows stay well formed.                                                  *)

(* A fired rule leaves a row of the right type.                            *)
LEMMA FiredTyped ==
    ASSUME StateTypes, LedgerTypes, Rows, NEW o \in Orders, NEW rule \in OrderTransitions,
           NEW at \in 0 .. clock, Fired(o, rule, at), Backed(o, rule, at)
    PROVE  order'[o] \in Row
<1> DEFINE row == order[o]
           next == order'[o]
<1>0. row \in Row /\ TimesFit(row, clock) /\ reservation[o] \in ReserveRow /\ clock \in 0 .. MaxClock
  BY DEF StateTypes, SideTypes, Rows, LedgerTypes
<1>1. /\ rule.from = row.status /\ Written(row, rule, at, next) /\ next = [c \in Columns |-> next[c]]
  BY DEF Fired
<1> HIDE DEF row, next
<1>2. /\ AcceptanceWindow \in Nat /\ DeliveryPeriod \in Nat /\ AutoConfirmPeriod \in Nat
      /\ MaxClock \in Nat
  BY PeriodAssumption
<1>3. /\ row.deadline \in Times /\ row.acceptedAt \in Times
      /\ row.reportAt \in Times /\ row.confirmAt \in Times /\ row.version \in Nat
  BY <1>0 DEF Row
<1>4. next.deadline \in Times
  <2>1. CASE rule.to = "OPEN" /\ rule.action = "COURIER_SUSPENDED"
    <3>1. row.status = "ACCEPTED"
      BY <1>1, <2>1, RuleEdges
    <3> QED BY <1>0, <1>1, <1>2, <1>3, <2>1, <3>1 DEF Written, DeadlineAfter, TimesFit, Times, NoTime
  <2>2. CASE ~(rule.to = "OPEN" /\ rule.action = "COURIER_SUSPENDED")
    BY <1>0, <1>1, <1>2, <1>3, <2>2 DEF Written, DeadlineAfter, Times
  <2> QED BY <2>1, <2>2
<1>5. next.acceptedAt \in Times /\ next.reportAt \in Times /\ next.confirmAt \in Times
  BY <1>0, <1>1, <1>2, <1>3 DEF Written, Times, NoTime
<1>6. /\ next.status \in Statuses /\ next.version \in Nat
      /\ next.releaseReason \in {"NONE", "CANCELLED", "EXPIRED"}
  BY <1>0, <1>1, RuleShape DEF Written, Row
<1>7. /\ next.requester \in Users \cup {NoUser} /\ next.reward \in Rewards \cup {0}
      /\ next.courier \in Users \cup {NoUser} /\ next.noted \in BOOLEAN
      /\ next.couriers \in SUBSET Users
  BY <1>0, <1>1 DEF Written, Row
<1>8. /\ next.referred \in Users \cup {NoUser} /\ next.decidedBy \in Users \cup {NoUser}
      /\ next.rejection \in Rejections \cup {"NONE"} /\ next.short \in Nat
      /\ next.creditTransaction \in {"NONE", "TRANSFER", "RELEASE"}
  BY <1>0 DEF Backed, Row, ReserveRow, row, next
<1>9. next \in Row
  BY <1>1, <1>4, <1>5, <1>6, <1>7, <1>8, RowTyped
<1> QED BY <1>9 DEF next

(* ... and the columns its status needs.                                   *)
LEMMA FiredFits ==
    ASSUME StateTypes, LedgerTypes, Rows, NEW o \in Orders, NEW rule \in OrderTransitions,
           NEW at \in 0 .. clock, Fired(o, rule, at), Backed(o, rule, at)
    PROVE  RowFits(order'[o])
<1> DEFINE row == order[o]
           next == order'[o]
<1>0. row \in Row /\ RowFits(row)
  BY DEF StateTypes, Rows
<1>1. /\ rule.from = row.status /\ rule.action # "ACCEPT"
      /\ Written(row, rule, at, next) /\ Guarded(row, rule, at)
  BY DEF Fired
<1>2. /\ IF rule.action \in {"RESOLVE_FOR_COURIER", "RESOLVE_FOR_REQUESTER"}
         THEN /\ next.decidedBy \in Users
              /\ next.decidedBy \notin {row.requester} \cup row.couriers
         ELSE next.decidedBy = row.decidedBy
      /\ rule.action = "TRANSFER_CONFIRMED" => next.creditTransaction = "TRANSFER"
      /\ rule.action = "RELEASE_CONFIRMED" => next.creditTransaction = "RELEASE"
  BY MessageAssumption DEF Backed, Participants
<1>3. /\ DeliveryPeriod \in Nat /\ AutoConfirmPeriod \in Nat /\ at \in Nat
  BY PeriodAssumption DEF StateTypes, SideTypes
<1> HIDE DEF row, next
<1> USE RuleShape, RuleEdges
<1>4. next.status # "ABSENT" /\ next.requester \in Users /\ next.reward \in Rewards
  BY <1>0, <1>1 DEF Written, RowFits, Statuses
<1>5. next.status \in Assigned => next.courier \notin {NoUser, next.requester}
  <2>1. rule.to \in Assigned => rule.from \in Assigned /\ ~Leaves(rule)
    BY <1>1 DEF Assigned, Completing, Leaves
  <2> QED BY <1>0, <1>1, <2>1 DEF Written, RowFits
<1>6. next.status \in {"PENDING_CREDIT", "OPEN"} => next.courier = NoUser
  <2>1. rule.to = "OPEN" => Leaves(rule) \/ rule.from = "PENDING_CREDIT"
    BY DEF Leaves
  <2> QED BY <1>0, <1>1, <2>1 DEF Written, RowFits
<1>7. /\ next.status = "PICKED_UP" => next.reportAt # NoTime
      /\ next.status = "DELIVERED" => next.confirmAt # NoTime
  BY <1>1, <1>3 DEF Written, NoTime
<1>8. next.status \in Released <=> next.releaseReason # "NONE"
  <2>1. rule.to \in {"CANCELLED", "EXPIRED"} => rule.from \in Released
    BY DEF Released
  <2>2. rule.to \notin Released => rule.from \notin Released
    BY DEF Released
  <2>3. rule.reason # "NONE" <=> rule.to = "RELEASE_PENDING_CREDIT"
    OBVIOUS
  <2> QED BY <1>0, <1>1, <2>1, <2>2, <2>3 DEF Written, RowFits, Released
<1>9. next.status \in {"CANCELLED", "EXPIRED"} => next.status = next.releaseReason
  BY <1>1 DEF Written, Guarded
<1>10. next.status \in Undecided => next.decidedBy = NoUser
  <2>1. rule.to \in Undecided => rule.from \in Undecided
    BY <1>1 DEF Undecided, Statuses
  <2> QED BY <1>0, <1>1, <1>2, <2>1 DEF Written, RowFits
<1>11. next.status \in Completing => next.confirmAt # NoTime \/ next.decidedBy # NoUser
  <2>1. CASE rule.to = "COMPLETION_PENDING_CREDIT"
    BY <1>0, <1>1, <1>2, <1>3, <2>1, MessageAssumption DEF Written, RowFits, NoTime
  <2>2. CASE rule.to = "COMPLETED"
    BY <1>0, <1>1, <1>2, <1>3, <2>2 DEF Written, RowFits, Completing, NoTime
  <2> QED BY <1>1, <2>1, <2>2 DEF Completing, Written
<1>12. next.decidedBy # NoUser => next.decidedBy \notin {next.requester} \cup next.couriers
  BY <1>0, <1>1, <1>2 DEF Written, RowFits
<1>13. /\ next.status = "COMPLETED" => next.creditTransaction = "TRANSFER"
       /\ next.status \in {"CANCELLED", "EXPIRED"} => next.creditTransaction = "RELEASE"
  BY <1>1, <1>2 DEF Written
<1>14. next.status # "PENDING_CREDIT"
  BY <1>1 DEF Written
<1>15. RowFits(next)
  BY <1>4, <1>5, <1>6, <1>7, <1>8, <1>9, <1>10, <1>11, <1>12, <1>13, <1>14 DEF RowFits
<1> QED BY <1>15 DEF next

(* ... at times that fit.                                                  *)
LEMMA FiredTimes ==
    ASSUME StateTypes, LedgerTypes, Rows, NEW o \in Orders, NEW rule \in OrderTransitions,
           NEW at \in 0 .. clock, Fired(o, rule, at), Backed(o, rule, at)
    PROVE  TimesFit(order'[o], clock)
<1> DEFINE row == order[o]
           next == order'[o]
<1>0. /\ row \in Row /\ RowFits(row) /\ TimesFit(row, clock) /\ clock \in Nat /\ at \in Nat /\ at <= clock
  BY PeriodAssumption DEF StateTypes, SideTypes, Rows
<1>1. /\ rule.from = row.status /\ rule.action # "ACCEPT"
      /\ Written(row, rule, at, next) /\ Guarded(row, rule, at)
      /\ rule.action = "ACCEPTANCE_DEADLINE_PASSED" => Passed(row.deadline, at)
  BY DEF Fired, Backed
<1> HIDE DEF row, next
<1>2. /\ AcceptanceWindow \in Nat /\ DeliveryPeriod \in Nat /\ AutoConfirmPeriod \in Nat
      /\ row.deadline \in Int /\ row.acceptedAt \in Int /\ row.reportAt \in Int /\ row.confirmAt \in Int
      /\ row.acceptedAt >= NoTime /\ row.deadline >= NoTime
  BY <1>0, PeriodAssumption DEF Row, Times, NoTime
<1> USE RuleShape, RuleEdges
<1>3. next.deadline <= clock + AcceptanceWindow
  <2>1. CASE rule.to = "OPEN" /\ rule.action = "COURIER_SUSPENDED"
    <3>1. row.status = "ACCEPTED" /\ next.deadline = row.deadline + (at - row.acceptedAt)
      BY <1>1, <2>1 DEF Written, DeadlineAfter
    <3>2. row.deadline <= row.acceptedAt + AcceptanceWindow
      BY <1>0, <3>1 DEF TimesFit
    <3> QED BY <1>0, <1>2, <3>1, <3>2
  <2>2. CASE ~(rule.to = "OPEN" /\ rule.action = "COURIER_SUSPENDED")
    BY <1>0, <1>1, <1>2, <2>2 DEF Written, DeadlineAfter, TimesFit
  <2> QED BY <2>1, <2>2
<1>4. /\ next.acceptedAt <= clock /\ next.reportAt <= clock + DeliveryPeriod
      /\ next.confirmAt <= clock + AutoConfirmPeriod
  BY <1>0, <1>1, <1>2 DEF Written, TimesFit, NoTime
<1>5. next.status = "OPEN" => next.deadline # NoTime
  <2>1. CASE rule.to = "OPEN" /\ rule.action = "COURIER_SUSPENDED"
    <3>1. row.status = "ACCEPTED" /\ next.deadline = row.deadline + (at - row.acceptedAt)
      BY <1>1, <2>1 DEF Written, DeadlineAfter
    <3>2. row.acceptedAt < row.deadline
      BY <1>0, <3>1 DEF TimesFit
    <3> QED BY <1>0, <1>2, <3>1, <3>2 DEF NoTime
  <2>2. CASE rule.to = "OPEN" /\ rule.action = "CREDIT_RESERVED"
    BY <1>0, <1>1, <1>2, <2>2 DEF Written, DeadlineAfter, NoTime
  <2>3. CASE rule.to = "OPEN" /\ rule.action \in {"WITHDRAW", "PICKUP_TIMEOUT"}
    <3>1. row.status = "ACCEPTED" /\ next.deadline = row.deadline
      BY <1>1, <2>3 DEF Written, DeadlineAfter
    <3> QED BY <1>0, <1>2, <3>1 DEF TimesFit, NoTime
  <2> QED BY <1>1, <2>1, <2>2, <2>3 DEF Written
<1>6. next.status # "ACCEPTED"
  BY <1>1 DEF Written
<1>7. next.releaseReason = "EXPIRED" => next.deadline <= clock
  <2>1. CASE rule.reason = "EXPIRED"
    <3>1. Passed(row.deadline, at) /\ rule.to = "RELEASE_PENDING_CREDIT"
      BY <1>1, <2>1 DEF Guarded
    <3> QED BY <1>0, <1>1, <1>2, <3>1 DEF Written, DeadlineAfter, Passed
  <2>2. CASE rule.reason = "NONE"
    <3>1. row.releaseReason = "EXPIRED" => rule.to # "OPEN"
      BY <1>0, <1>1 DEF RowFits, Released
    <3> QED BY <1>0, <1>1, <2>2, <3>1 DEF Written, DeadlineAfter, TimesFit
  <2>3. CASE rule.reason = "CANCELLED"
    BY <1>1, <2>3 DEF Written
  <2> QED BY <2>1, <2>2, <2>3
<1>8. TimesFit(next, clock)
  BY <1>3, <1>4, <1>5, <1>6, <1>7 DEF TimesFit
<1> QED BY <1>8 DEF next

(* Time passes over a row that does not move.                              *)
LEMMA TimesLater ==
    ASSUME NEW row \in Row, NEW now \in Int, NEW later \in Int, now <= later, TimesFit(row, now)
    PROVE  TimesFit(row, later)
BY PeriodAssumption DEF TimesFit, Row, Times

(* A new row, and a row taken by a courier.                                *)
LEMMA NewRowFits ==
    ASSUME StateTypes, NEW u \in Users, NEW n \in Rewards
    PROVE  /\ NewRow(u, n) \in Row /\ RowFits(NewRow(u, n)) /\ TimesFit(NewRow(u, n), clock)
           /\ NewRow(u, n).status = "PENDING_CREDIT" /\ NewRow(u, n).version = 1
           /\ NewRow(u, n).requester = u /\ NewRow(u, n).reward = n
<1> USE PeriodAssumption, MessageAssumption
<1>0. NoTime \in Times
  BY DEF Times, NoTime
<1>1. NewRow(u, n) \in Row
  <2>1. NoRow \in Row
    BY <1>0 DEF NoRow, Row
  <2> QED BY <2>1 DEF NewRow, Row, Statuses
<1>2. RowFits(NewRow(u, n))
  BY DEF NewRow, NoRow, RowFits, Assigned, Completing, Released, Undecided
<1>3. TimesFit(NewRow(u, n), clock)
  BY DEF NewRow, NoRow, TimesFit, NoTime, StateTypes, SideTypes
<1>4. /\ NewRow(u, n).status = "PENDING_CREDIT" /\ NewRow(u, n).version = 1
      /\ NewRow(u, n).requester = u /\ NewRow(u, n).reward = n
  BY DEF NewRow, NoRow
<1> QED BY <1>1, <1>2, <1>3, <1>4

LEMMA TakenRowFits ==
    ASSUME StateTypes, Rows, NEW o \in Orders, NEW u \in Users, MayAccept(o, u),
           order'[o] = TakenRow(order[o], u, clock)
    PROVE  /\ order'[o] \in Row /\ RowFits(order'[o]) /\ TimesFit(order'[o], clock)
           /\ order'[o].status = "ACCEPTED" /\ order'[o].version = order[o].version + 1
           /\ order'[o].requester = order[o].requester /\ order'[o].reward = order[o].reward
<1> DEFINE row == order[o]
           next == order'[o]
<1>0. /\ row \in Row /\ RowFits(row) /\ TimesFit(row, clock) /\ clock \in 0 .. MaxClock
      /\ row.status = "OPEN" /\ row.requester # u /\ row.deadline > clock
      /\ next = TakenRow(row, u, clock)
  BY DEF StateTypes, SideTypes, Rows, MayAccept
<1> HIDE DEF row, next
<1>1. /\ next = [c \in Columns |-> next[c]]
      /\ \A c \in Columns \ {"status", "courier", "acceptedAt", "version", "couriers"} : next[c] = row[c]
      /\ next.status = "ACCEPTED" /\ next.courier = u /\ next.acceptedAt = clock
      /\ next.version = row.version + 1 /\ next.couriers = row.couriers \cup {u}
  BY <1>0 DEF TakenRow, Row, Columns
<1>2. /\ next.requester = row.requester /\ next.reward = row.reward /\ next.deadline = row.deadline
      /\ next.reportAt = row.reportAt /\ next.confirmAt = row.confirmAt
      /\ next.releaseReason = row.releaseReason /\ next.decidedBy = row.decidedBy
      /\ next.noted = row.noted /\ next.referred = row.referred /\ next.short = row.short
      /\ next.rejection = row.rejection /\ next.creditTransaction = row.creditTransaction
  BY <1>1 DEF Columns
<1> USE PeriodAssumption, MessageAssumption
<1>3. next \in Row
  <2>1. next.acceptedAt \in Times
    BY <1>0, <1>1 DEF Times
  <2>2. next.status \in Statuses /\ next.version \in Nat /\ next.couriers \in SUBSET Users
    BY <1>0, <1>1 DEF Statuses, Row
  <2> QED BY <1>0, <1>1, <1>2, <2>1, <2>2, RowTyped DEF Row
<1>4. RowFits(next)
  BY <1>0, <1>1, <1>2 DEF RowFits, Assigned, Completing, Released, Undecided
<1>5. TimesFit(next, clock)
  BY <1>0, <1>1, <1>2 DEF TimesFit, Row, Times, NoTime
<1> QED BY <1>1, <1>2, <1>3, <1>4, <1>5 DEF row, next

(* A mark changes nothing else.                                            *)
LEMMA NotedFits ==
    ASSUME NEW row \in Row, NEW b \in BOOLEAN, NEW now, row.status = "PICKED_UP",
           RowFits(row), TimesFit(row, now)
    PROVE  LET next == [row EXCEPT !.noted = b] IN
           /\ next \in Row /\ RowFits(next) /\ TimesFit(next, now)
           /\ next.status = row.status /\ next.version = row.version
           /\ next.requester = row.requester /\ next.reward = row.reward
<1> DEFINE next == [row EXCEPT !.noted = b]
<1>1. next \in Row
  BY DEF Row
<1>2. /\ next.status = row.status /\ next.version = row.version
      /\ next.requester = row.requester /\ next.reward = row.reward /\ next.deadline = row.deadline
      /\ next.reportAt = row.reportAt /\ next.confirmAt = row.confirmAt
      /\ next.releaseReason = row.releaseReason /\ next.decidedBy = row.decidedBy
      /\ next.courier = row.courier /\ next.couriers = row.couriers
      /\ next.acceptedAt = row.acceptedAt /\ next.creditTransaction = row.creditTransaction
  BY DEF Row
<1> HIDE DEF next
<1>3. RowFits(next)
  BY <1>2 DEF RowFits
<1>4. TimesFit(next, now)
  BY <1>2 DEF TimesFit
<1> QED BY <1>1, <1>2, <1>3, <1>4 DEF next

(* A row that moves stays a row that fits, keeps its requester and reward, *)
(* and raises its version whenever its status changes.                     *)
LEMMA RowKept ==
    ASSUME StateTypes, LedgerTypes, Rows, NEW o \in Orders, Move(o)
    PROVE  /\ order'[o] \in Row /\ RowFits(order'[o]) /\ TimesFit(order'[o], clock)
           /\ order[o].status # "ABSENT" =>
                 /\ order'[o].status # "ABSENT"
                 /\ order'[o].requester = order[o].requester /\ order'[o].reward = order[o].reward
           /\ order'[o].version >= order[o].version
           /\ order'[o].version = order[o].version => order'[o].status = order[o].status
<1>0. order[o] \in Row /\ RowFits(order[o]) /\ TimesFit(order[o], clock) /\ order[o].version \in Nat
  BY DEF StateTypes, Rows, Row
<1>1. CASE order'[o] = order[o]
  BY <1>0, <1>1
<1>2. CASE order[o].status = "PICKED_UP" /\ \E b \in BOOLEAN : order'[o] = [order[o] EXCEPT !.noted = b]
  BY <1>0, <1>2, NotedFits
<1>3. CASE order[o].status = "ABSENT" /\ \E u \in Users, n \in Rewards : order'[o] = NewRow(u, n)
  <2>1. order[o].version = 0
    BY <1>0, <1>3 DEF RowFits, NoRow
  <2> QED BY <1>3, <2>1, NewRowFits
<1>4. CASE \E u \in Users : MayAccept(o, u) /\ order'[o] = TakenRow(order[o], u, clock)
  BY <1>0, <1>4, TakenRowFits
<1>5. ASSUME NEW rule \in OrderTransitions, NEW at \in 0 .. clock,
             Fired(o, rule, at), Backed(o, rule, at)
      PROVE  /\ order'[o] \in Row /\ RowFits(order'[o]) /\ TimesFit(order'[o], clock)
             /\ order'[o].status # "ABSENT"
             /\ order'[o].requester = order[o].requester /\ order'[o].reward = order[o].reward
             /\ order'[o].version = order[o].version + 1
  BY <1>5, FiredTyped, FiredFits, FiredTimes, RuleShape DEF Fired, Written, Statuses
<1>6. CASE \E rule \in OrderTransitions, at \in 0 .. clock : Fired(o, rule, at) /\ Backed(o, rule, at)
  BY <1>0, <1>5, <1>6
<1> QED BY <1>1, <1>2, <1>3, <1>4, <1>6 DEF Move

(* A row that a rule left behind, as its Credit rows and requests see it.  *)
LEMMA FiredOnward ==
    ASSUME StateTypes, LedgerTypes, Rows, NEW o \in Orders, NEW rule \in OrderTransitions,
           NEW at \in 0 .. clock, Fired(o, rule, at), Backed(o, rule, at)
    PROVE  /\ order'[o].status = rule.to /\ rule.from = order[o].status
           /\ order[o].status \in Completing =>
                 order'[o].status \in Completing /\ order'[o].courier = order[o].courier
           /\ order[o].status \in Released => order'[o].status \in Released
           /\ order'[o].status = "COMPLETED" => terminal[o].type = "TRANSFER"
           /\ order'[o].status \in {"CANCELLED", "EXPIRED"} => terminal[o].type = "RELEASE"
           /\ order'[o].status = "REJECTED" =>
                 /\ reservation[o].outcome = "REJECTED"
                 /\ order'[o].rejection = reservation[o].reason
                 /\ order'[o].short = reservation[o].available
           /\ order'[o].status \in AfterReservation =>
                 order[o].status \in AfterReservation \/ reservation[o].outcome = "SUCCEEDED"
<1>1. /\ order'[o].status = rule.to /\ rule.from = order[o].status /\ rule.action # "ACCEPT"
      /\ order'[o].courier = (IF Leaves(rule) THEN NoUser ELSE order[o].courier)
  BY DEF Fired, Written
<1> USE RuleShape, RuleEdges
<1>2. order[o].status \in Completing =>
         order'[o].status \in Completing /\ order'[o].courier = order[o].courier
  BY <1>1 DEF Completing, Leaves
<1>3. order[o].status \in Released => order'[o].status \in Released
  BY <1>1 DEF Released
<1>4. /\ order'[o].status = "COMPLETED" => terminal[o].type = "TRANSFER"
      /\ order'[o].status \in {"CANCELLED", "EXPIRED"} => terminal[o].type = "RELEASE"
      /\ order'[o].status = "REJECTED" =>
            /\ reservation[o].outcome = "REJECTED"
            /\ order'[o].rejection = reservation[o].reason
            /\ order'[o].short = reservation[o].available
  BY <1>1 DEF Backed
<1>5. order'[o].status \in AfterReservation =>
         order[o].status \in AfterReservation \/ reservation[o].outcome = "SUCCEEDED"
  <2>1. rule.from \in AfterReservation \/ rule.from = "PENDING_CREDIT"
    BY DEF AfterReservation
  <2>2. rule.from = "PENDING_CREDIT" => rule.action \in {"CREDIT_RESERVED", "CREDIT_REJECTED"}
    BY DEF OrderTransitions, Rule, Moves, Releases, Completes
  <2> QED BY <1>1, <2>1, <2>2 DEF Backed, AfterReservation
<1> QED BY <1>1, <1>2, <1>3, <1>4, <1>5

(* Credit's rows keep fitting an order that moves.                         *)
LEMMA LedgerKept ==
    ASSUME StateTypes, LedgerTypes, Rows, Ledger, NEW o \in Orders, Move(o),
           UNCHANGED <<reservation, terminal>>
    PROVE  LedgerFits(o)'
<1>0. LedgerFits(o) /\ order[o] \in Row
  BY DEF Ledger, StateTypes
<1>1. CASE order'[o] = order[o]
  BY <1>0, <1>1 DEF LedgerFits
<1>2. CASE order[o].status = "PICKED_UP" /\ \E b \in BOOLEAN : order'[o] = [order[o] EXCEPT !.noted = b]
  <2>1. /\ order'[o].status = "PICKED_UP" /\ order'[o].requester = order[o].requester
        /\ order'[o].reward = order[o].reward /\ order'[o].courier = order[o].courier
    BY <1>0, <1>2 DEF Row
  <2> QED BY <1>0, <1>2, <2>1 DEF LedgerFits
<1>3. CASE order[o].status = "ABSENT" /\ \E u \in Users, n \in Rewards : order'[o] = NewRow(u, n)
  <2>1. order'[o].status = "PENDING_CREDIT"
    BY <1>3, NewRowFits
  <2> QED BY <1>0, <1>3, <2>1 DEF LedgerFits, AfterReservation, Completing, Released
<1>4. CASE \E u \in Users : MayAccept(o, u) /\ order'[o] = TakenRow(order[o], u, clock)
  <2>1. /\ order[o].status = "OPEN" /\ order'[o].status = "ACCEPTED"
        /\ order'[o].requester = order[o].requester /\ order'[o].reward = order[o].reward
    BY <1>4, TakenRowFits DEF MayAccept
  <2> QED BY <1>0, <2>1 DEF LedgerFits, AfterReservation, Completing, Released, Statuses
<1>5. ASSUME NEW rule \in OrderTransitions, NEW at \in 0 .. clock,
             Fired(o, rule, at), Backed(o, rule, at)
      PROVE  LedgerFits(o)'
  <2>1. /\ order'[o].status # "ABSENT"
        /\ order'[o].requester = order[o].requester /\ order'[o].reward = order[o].reward
    BY <1>5, FiredTyped, RuleShape DEF Fired, Written, Statuses
  <2>2. /\ order[o].status \in Completing =>
              order'[o].status \in Completing /\ order'[o].courier = order[o].courier
        /\ order[o].status \in Released => order'[o].status \in Released
        /\ order'[o].status = "COMPLETED" => terminal[o].type = "TRANSFER"
        /\ order'[o].status \in {"CANCELLED", "EXPIRED"} => terminal[o].type = "RELEASE"
        /\ order'[o].status = "REJECTED" =>
              /\ reservation[o].outcome = "REJECTED"
              /\ order'[o].rejection = reservation[o].reason
              /\ order'[o].short = reservation[o].available
        /\ order'[o].status \in AfterReservation =>
              order[o].status \in AfterReservation \/ reservation[o].outcome = "SUCCEEDED"
    BY <1>5, FiredOnward
  <2> QED BY <1>0, <2>1, <2>2 DEF LedgerFits
<1>6. CASE \E rule \in OrderTransitions, at \in 0 .. clock : Fired(o, rule, at) /\ Backed(o, rule, at)
  BY <1>5, <1>6
<1> QED BY <1>1, <1>2, <1>3, <1>4, <1>6 DEF Move

(* A request keeps fitting the order it was written for.                   *)
LEMMA RequestKept ==
    ASSUME StateTypes, LedgerTypes, Rows, NEW m \in requests, RequestFits(m), Move(m.order)
    PROVE  RequestFits(m)'
<1> DEFINE o == m.order
<1>0. o \in Orders /\ order[o] \in Row
  BY DEF StateTypes, LedgerTypes, WellFormed, Request
<1>1. /\ order'[o].status # "ABSENT"
      /\ order'[o].requester = order[o].requester /\ order'[o].reward = order[o].reward
  BY <1>0, RowKept DEF RequestFits
<1>2. /\ order[o].status \in Completing =>
            order'[o].status \in Completing /\ order'[o].courier = order[o].courier
      /\ order[o].status \in Released => order'[o].status \in Released
  <2>1. CASE order'[o] = order[o]
    BY <2>1
  <2>2. CASE order[o].status \in {"PICKED_UP", "ABSENT", "OPEN"}
    BY <2>2 DEF Completing, Released
  <2>3. CASE \E rule \in OrderTransitions, at \in 0 .. clock : Fired(o, rule, at) /\ Backed(o, rule, at)
    BY <1>0, <2>3, FiredOnward
  <2> QED BY <2>1, <2>2, <2>3 DEF Move, MayAccept
<1> QED BY <1>1, <1>2 DEF RequestFits

(* A new request is well formed and fits.                                  *)
LEMMA FreshFits ==
    ASSUME NEW m, Fresh(m), order'[m.order] \in Row, RowFits(order'[m.order])
    PROVE  m \in WellFormed /\ RequestFits(m)'
<1> DEFINE row == order'[m.order]
<1>0. m.order \in Orders /\ m = Ask(m.type, m.order, row)
  BY DEF Fresh
<1>1. row.status # "ABSENT" /\ row.requester \in Users /\ row.reward \in Rewards
  BY DEF Fresh, RowFits
<1>2. row.courier \in Users \cup {NoUser}
  BY DEF Row
<1>3. m.requester = row.requester /\ m.amount = row.reward
  BY <1>0 DEF Ask
<1>4. CASE m.type = "COMPLETION_REQUESTED"
  <2>1. row.status = "COMPLETION_PENDING_CREDIT" /\ row.courier # NoUser
    BY <1>4 DEF Fresh, RowFits, Assigned, Completing
  <2>2. m.courier = row.courier
    BY <1>0, <1>4 DEF Ask
  <2>3. m \in WellFormed
    BY <1>0, <1>1, <1>2, <1>4, <2>1 DEF Ask, WellFormed, Request, RequestTypes
  <2> QED BY <1>1, <1>3, <1>4, <2>1, <2>2, <2>3 DEF RequestFits, Completing
<1>5. CASE m.type \in {"RESERVATION_REQUESTED", "RELEASE_REQUESTED"}
  <2>1. m \in WellFormed
    BY <1>0, <1>1, <1>5 DEF Ask, WellFormed, Request, RequestTypes
  <2>2. m.type = "RELEASE_REQUESTED" => row.status \in Released
    BY <1>5 DEF Fresh, Released
  <2> QED BY <1>1, <1>3, <1>5, <2>1, <2>2 DEF RequestFits
<1> QED BY <1>4, <1>5 DEF Fresh

-----------------------------------------------------------------------------
(* Suspensions.                                                            *)

(* An errand of the suspended requester is closed to couriers.             *)
LEMMA SuspensionCloses ==
    ASSUME StateTypes, NEW u \in Users, ApplySuspension(u), NEW o \in Orders,
           order[o].requester = u
    PROVE  order'[o].status \notin {"OPEN", "ACCEPTED"}
<1> DEFINE at == handling[u].at
<1>0. order[o] \in Row
  BY DEF StateTypes
<1>1. order'[o] = IF o \in ActiveErrands(u) THEN AfterSuspension(u, o, at) ELSE order[o]
  BY DEF ApplySuspension
<1> HIDE DEF at
<1>2. ASSUME NEW rule \in SuspensionRules(u, o, at)
      PROVE  NextRow(order[o], rule, at).status \notin {"OPEN", "ACCEPTED"}
  <2>1. rule \in OrderTransitions /\ rule.action = SuspensionEffect(TRUE, order[o].status)
    <3>1. (order[o].requester = u) = TRUE
      OBVIOUS
    <3>2. /\ rule \in OrderTransitions
          /\ rule.action = SuspensionEffect(order[o].requester = u, order[o].status)
      BY SuspensionRule
    <3> QED BY <3>1, <3>2
  <2>2. rule.action \in {"REQUESTER_SUSPENDED", "DELIVERY_PERIOD_PASSED", "NONE"}
    BY <2>1 DEF SuspensionEffect
  <2>3. rule.to \notin {"OPEN", "ACCEPTED"}
    <3>1. \A x \in OrderTransitions :
             x.action \in {"REQUESTER_SUSPENDED", "DELIVERY_PERIOD_PASSED", "NONE"} =>
                x.to \notin {"OPEN", "ACCEPTED"}
      BY DEF OrderTransitions, Rule, Moves, Releases, Completes
    <3> QED BY <2>1, <2>2, <3>1
  <2>4. NextRow(order[o], rule, at).status = rule.to
    BY <1>0, <2>1, NextRowColumns DEF Written
  <2> QED BY <2>3, <2>4
<1>3. CASE order[o].status \in {"OPEN", "ACCEPTED"}
  <2>1. o \in ActiveErrands(u)
    BY <1>3 DEF ActiveErrands
  <2>2. SuspensionRules(u, o, at) # {}
    <3>1. SuspensionEffect(TRUE, order[o].status) = "REQUESTER_SUSPENDED"
      BY <1>3 DEF SuspensionEffect
    <3>2. PICK rule \in OrderTransitions :
             /\ rule.from = order[o].status /\ rule.action = "REQUESTER_SUSPENDED"
             /\ rule.actor = "SYSTEM" /\ rule.guard = "NONE"
      BY <1>3 DEF OrderTransitions, Rule, Moves, Releases, Completes
    <3>3. GuardHolds(rule.guard, Context(order[o], at, TRUE))
      BY <3>2 DEF GuardHolds
    <3> QED BY <3>1, <3>2, <3>3 DEF SuspensionRules, DecideTransition
  <2> QED BY <1>1, <1>2, <2>1, <2>2 DEF AfterSuspension
<1>4. CASE order[o].status \notin {"OPEN", "ACCEPTED"}
  <2>1. CASE o \in ActiveErrands(u) /\ SuspensionRules(u, o, at) # {}
    BY <1>1, <1>2, <2>1 DEF AfterSuspension
  <2>2. CASE ~(o \in ActiveErrands(u) /\ SuspensionRules(u, o, at) # {})
    <3>1. order'[o] = order[o] \/ order'[o] = [order[o] EXCEPT !.noted = TRUE]
      BY <1>1, <2>2 DEF AfterSuspension
    <3> QED BY <1>0, <1>4, <3>1 DEF Row
  <2> QED BY <2>1, <2>2
<1> QED BY <1>3, <1>4

(* Nothing opens an errand of a student whose suspension has been applied. *)
LEMMA SuspensionKept ==
    ASSUME FlowInv, OrderNext, NEW u \in applied', NEW o \in Orders, order'[o].requester = u
    PROVE  order'[o].status \notin {"OPEN", "ACCEPTED"}
<1>0. /\ StateTypes /\ LedgerTypes /\ Rows /\ Messages /\ order[o] \in Row
      /\ RowsMove /\ SideStep /\ Move(o)
  BY RowMoves, SideSteps DEF FlowInv, StateTypes, RowsMove
<1>1. order[o].status # "ABSENT" => order'[o].requester = order[o].requester
  BY <1>0, RowKept
<1>2. CASE u \in applied
  <2>1. order[o].requester = u => order[o].status \notin {"OPEN", "ACCEPTED"}
    BY <1>2 DEF FlowInv, SuspendedHoldNothing
  <2>2. CASE order'[o] = order[o]
    BY <2>1, <2>2
  <2>3. CASE order[o].status = "PICKED_UP" /\ \E b \in BOOLEAN : order'[o] = [order[o] EXCEPT !.noted = b]
    BY <1>0, <2>3 DEF Row
  <2>4. CASE order[o].status = "ABSENT" /\ \E v \in Users, n \in Rewards : order'[o] = NewRow(v, n)
    BY <1>0, <2>4, NewRowFits
  <2>5. CASE \E v \in Users : MayAccept(o, v) /\ order'[o] = TakenRow(order[o], v, clock)
    BY <1>1, <2>1, <2>5 DEF MayAccept
  <2>6. ASSUME NEW rule \in OrderTransitions, NEW at \in 0 .. clock,
               Fired(o, rule, at), Backed(o, rule, at)
        PROVE  order'[o].status \notin {"OPEN", "ACCEPTED"}
    <3>1. /\ order'[o].status = rule.to /\ rule.from = order[o].status /\ rule.action # "ACCEPT"
          /\ order'[o].requester = order[o].requester
      BY <2>6 DEF Fired, Written
    <3> QED BY <1>2, <2>1, <2>6, <3>1, RuleEdges DEF Backed
  <2>7. CASE \E rule \in OrderTransitions, at \in 0 .. clock : Fired(o, rule, at) /\ Backed(o, rule, at)
    BY <2>6, <2>7
  <2> QED BY <1>0, <2>2, <2>3, <2>4, <2>5, <2>7 DEF Move
<1>3. CASE u \notin applied
  <2>1. u \in Users /\ ApplySuspension(u)
    BY <1>0, <1>3 DEF SideStep, AppliedMoves
  <2>2. order' = [x \in Orders |-> IF x \in ActiveErrands(u) THEN AfterSuspension(u, x, handling[u].at)
                                   ELSE order[x]]
    BY <2>1 DEF ApplySuspension
  <2>3. order[o].status # "ABSENT"
    <3>1. ASSUME order[o].status = "ABSENT" PROVE FALSE
      <4>1. order[o].requester = NoUser /\ order[o].courier = NoUser
        BY <1>0, <3>1 DEF Rows, RowFits, NoRow
      <4>2. o \notin ActiveErrands(u)
        BY <2>1, <4>1, MessageAssumption DEF ActiveErrands
      <4> QED BY <2>1, <2>2, <4>1, <4>2, MessageAssumption
    <3> QED BY <3>1
  <2> QED BY <1>0, <1>1, <2>1, <2>3, SuspensionCloses
<1> QED BY <1>2, <1>3

(* A lock is held only on a row that has not moved.                        *)
LEMMA LockKept ==
    ASSUME FlowInv, OrderNext, UNCHANGED <<reservation, replies>>, NEW o \in Orders
    PROVE  LockFits(o)'
<1>0. /\ StateTypes /\ LedgerTypes /\ Rows /\ Messages /\ order[o] \in Row /\ LockFits(o)
      /\ RowsMove /\ SideStep /\ Move(o)
  BY RowMoves, SideSteps DEF FlowInv, StateTypes, Rows, RowsMove
<1> SUFFICES ASSUME answered'[o] # "FREE"
             PROVE  /\ order'[o].status = "PENDING_CREDIT"
                    /\ reservation[o].outcome = "SUCCEEDED"
                    /\ order'[o].requester \in applied' => answered'[o] = "SUSPENDED"
  BY DEF LockFits
<1>1. CASE answered'[o] = answered[o]
  <2>1. order[o].status = "PENDING_CREDIT"
    BY <1>0, <1>1 DEF LockFits
  <2>2. order'[o] = order[o]
    BY <1>0, <2>1 DEF Move, Fired
  <2>3. ASSUME order[o].requester \in applied', order[o].requester \notin applied PROVE FALSE
    <3>1. ApplySuspension(order[o].requester)
      BY <1>0, <2>3 DEF SideStep, AppliedMoves
    <3>2. o \in ActiveErrands(order[o].requester)
      BY <2>1 DEF ActiveErrands
    <3> QED BY <1>1, <3>1, <3>2 DEF ApplySuspension, Unlocked
  <2> QED BY <1>0, <1>1, <2>1, <2>2, <2>3 DEF LockFits
<1>2. ASSUME NEW r \in replies, AskRequester(r), r.order = o
      PROVE  /\ order'[o].status = "PENDING_CREDIT"
             /\ reservation[o].outcome = "SUCCEEDED"
             /\ order'[o].requester \in applied' => answered'[o] = "SUSPENDED"
  <2>1. /\ order' = order /\ applied' = applied
        /\ order[o].status = "PENDING_CREDIT" /\ order[o].requester = r.requester
        /\ r.type = "CREDITS_RESERVED"
    BY <1>2 DEF AskRequester, rowVars, suspensionVars, Restates
  <2>2. answered'[o] = IF r.requester \in suspended THEN "SUSPENDED" ELSE "ACTIVE"
    BY <1>0, <1>2 DEF AskRequester, StateTypes, SideTypes
  <2>3. reservation[o].outcome = "SUCCEEDED"
    BY <1>0, <1>2, <2>1 DEF Messages, ReplyFits
  <2>4. applied \subseteq suspended
    BY <1>0 DEF StateTypes, SideTypes
  <2> QED BY <2>1, <2>2, <2>3, <2>4
<1> QED BY <1>0, <1>1, <1>2 DEF SideStep, LocksMove

-----------------------------------------------------------------------------
(* A step of the Order Service keeps the invariant.                        *)
LEMMA OrderStepKeeps == ASSUME FlowInv, OrderStep PROVE FlowInv'
<1>0. /\ StateTypes /\ LedgerTypes /\ Rows /\ Ledger /\ Messages /\ SuspendedHoldNothing
      /\ OrderNext /\ UNCHANGED <<ledgerVars, replies>>
  BY DEF FlowInv, OrderStep
<1>1. RowsMove /\ SideStep
  BY <1>0, RowMoves, SideSteps
<1>2. \A o \in Orders : order'[o] \in Row /\ RowFits(order'[o]) /\ TimesFit(order'[o], clock)
  BY <1>0, <1>1, RowKept DEF RowsMove
<1>3. StateTypes'
  BY <1>1, <1>2 DEF StateTypes, SideStep, RowsMove
<1>4. \A m \in requests' : m \in WellFormed /\ RequestFits(m)'
  <2>1. ASSUME NEW m \in requests PROVE m \in WellFormed /\ RequestFits(m)'
    <3>1. m \in WellFormed /\ m.order \in Orders /\ RequestFits(m)
      BY <1>0 DEF LedgerTypes, WellFormed, Request, Messages
    <3> QED BY <1>0, <1>1, <3>1, RequestKept DEF RowsMove
  <2>2. ASSUME NEW m \in requests' \ requests PROVE m \in WellFormed /\ RequestFits(m)'
    <3>1. Fresh(m) /\ m.order \in Orders
      BY <1>1 DEF RowsMove, Fresh
    <3> QED BY <1>2, <3>1, FreshFits
  <2> QED BY <2>1, <2>2
<1>5. LedgerTypes'
  BY <1>0, <1>1, <1>4 DEF LedgerTypes, ledgerVars, RowsMove
<1>6. Rows'
  <2>1. ASSUME NEW o \in Orders PROVE TimesFit(order'[o], clock')
    <3>1. clock \in Int /\ clock' \in Int /\ clock <= clock'
      BY <1>0, <1>1, PeriodAssumption DEF SideStep, StateTypes, SideTypes
    <3> QED BY <1>2, <3>1, TimesLater
  <2>2. ASSUME NEW o \in Orders PROVE LockFits(o)'
    BY <1>0, LockKept DEF ledgerVars
  <2> QED BY <1>2, <2>1, <2>2 DEF Rows
<1>7. Ledger'
  BY <1>0, <1>1, LedgerKept DEF Ledger, RowsMove, ledgerVars
<1>8. Messages'
  BY <1>0, <1>4 DEF Messages, MissFits, ReplyFits, ledgerVars
<1>9. SuspendedHoldNothing'
  BY <1>0, SuspensionKept DEF SuspendedHoldNothing
<1> QED BY <1>3, <1>5, <1>6, <1>7, <1>8, <1>9 DEF FlowInv

-----------------------------------------------------------------------------
(* Steps of the Credit Service.                                            *)

(* What a delivered request is, with the rows of its order.                *)
LEMMA RequestFacts ==
    ASSUME FlowInv, NEW m \in requests
    PROVE  /\ m \in WellFormed /\ m.order \in Orders /\ m.requester \in Users /\ m.amount \in Rewards
           /\ m.amount \in Nat /\ m.courier \in Users \cup {NoUser}
           /\ m.type = "COMPLETION_REQUESTED" => m.courier \in Users
           /\ reservation[m.order] \in ReserveRow /\ terminal[m.order] \in TerminalRow
           /\ order[m.order] \in Row
           /\ RequestFits(m) /\ LedgerFits(m.order) /\ RowFits(order[m.order])
BY MessageAssumption DEF FlowInv, StateTypes, LedgerTypes, WellFormed, Request, Messages, Ledger, Rows

(* A settlement Order asks for is never refused: its reservation           *)
(* succeeded, nobody pays themselves, and no other settlement was made.    *)
LEMMA NoRefusal ==
    ASSUME FlowInv, NEW m \in requests, m.type # "RESERVATION_REQUESTED"
    PROVE  /\ TerminalRefusal(m) = "NONE"
           /\ reservation[m.order].outcome = "SUCCEEDED"
           /\ terminal[m.order].type = "TRANSFER" => terminal[m.order].courier = m.courier
           /\ terminal[m.order].type \in {"ABSENT", OperationOf(m)}
<1>0. /\ m.type \in RequestTypes /\ RequestFits(m) /\ LedgerFits(m.order) /\ RowFits(order[m.order])
      /\ terminal[m.order] \in TerminalRow
  BY RequestFacts DEF WellFormed, Request
<1>1. CASE m.type = "COMPLETION_REQUESTED"
  <2>1. /\ order[m.order].status \in Completing /\ m.courier = order[m.order].courier
        /\ m.requester = order[m.order].requester /\ m.amount = order[m.order].reward
    BY <1>0, <1>1 DEF RequestFits
  <2>2. m.courier # m.requester
    BY <1>0, <2>1 DEF RowFits, Assigned
  <2>3. /\ reservation[m.order].outcome = "SUCCEEDED"
        /\ reservation[m.order].requester = m.requester /\ reservation[m.order].amount = m.amount
        /\ terminal[m.order].type # "RELEASE"
        /\ terminal[m.order].type = "TRANSFER" => terminal[m.order].courier = m.courier
    BY <1>0, <2>1 DEF LedgerFits, Completing, Released, AfterReservation, Statuses
  <2>4. terminal[m.order].type \in {"ABSENT", "TRANSFER"}
    BY <1>0, <2>3 DEF TerminalRow
  <2> QED BY <1>1, <2>2, <2>3, <2>4 DEF TerminalRefusal, ValidateReservation, ReplayRefusal, OperationOf
<1>2. CASE m.type = "RELEASE_REQUESTED"
  <2>1. /\ order[m.order].status \in Released
        /\ m.requester = order[m.order].requester /\ m.amount = order[m.order].reward
    BY <1>0, <1>2 DEF RequestFits
  <2>2. /\ reservation[m.order].outcome = "SUCCEEDED"
        /\ reservation[m.order].requester = m.requester /\ reservation[m.order].amount = m.amount
        /\ terminal[m.order].type # "TRANSFER"
    BY <1>0, <2>1 DEF LedgerFits, Completing, Released, AfterReservation, Statuses
  <2>3. terminal[m.order].type \in {"ABSENT", "RELEASE"}
    BY <1>0, <2>2 DEF TerminalRow
  <2> QED BY <1>2, <2>2, <2>3 DEF TerminalRefusal, ValidateReservation, ReplayRefusal, OperationOf
<1> QED BY <1>0, <1>1, <1>2 DEF RequestTypes

(* What every step of Credit leaves true.  Decided rows are final, so old  *)
(* replies, locks and open reservations stand.                             *)
RowsFinal ==
    \A o \in Orders :
        /\ reservation[o].outcome # "ABSENT" => reservation'[o] = reservation[o]
        /\ terminal[o].type # "ABSENT" => terminal'[o] = terminal[o]

LedgerStep ==
    /\ LedgerTypes' /\ Ledger' /\ RowsFinal
    /\ alerts' = alerts /\ requests' = requests
    /\ \A r \in replies' \ replies : ReplyFits(r)'
    /\ \A x \in missed' : MissFits(x)'

LEMMA IssueKeeps ==
    ASSUME FlowInv, order' = order, NEW u \in Users, IssueInitial(u)
    PROVE  LedgerStep
<1>1. LedgerTypes'
  BY CreditAssumption DEF FlowInv, LedgerTypes, IssueInitial
<1> QED BY <1>1 DEF FlowInv, IssueInitial, LedgerStep, Ledger, LedgerFits, RowsFinal, Messages, MissFits

LEMMA RejectionKeeps ==
    ASSUME FlowInv, order' = order, NEW m \in requests, m.type = "RESERVATION_REQUESTED",
           reservation[m.order].outcome = "ABSENT",
           NEW reason \in Rejections, NEW balance \in Nat, RecordRejection(m, reason, balance),
           missed' \subseteq missed, \A x \in missed' : x.order # m.order,
           UNCHANGED <<funded, available, reserved, terminal, requests, alerts>>
    PROVE  LedgerStep
<1> USE MessageAssumption
<1>0. /\ LedgerTypes /\ Messages /\ m.order \in Orders /\ m.requester \in Users /\ m.amount \in Rewards
      /\ m.amount \in Nat /\ RequestFits(m) /\ LedgerFits(m.order)
  BY RequestFacts DEF FlowInv
<1> DEFINE row == [outcome |-> "REJECTED", requester |-> m.requester, amount |-> m.amount,
                   reason |-> reason, available |-> balance]
           reply == ReplyTo(m, "RESERVATION_REJECTED", NoUser, reason, balance)
<1>1. /\ reservation' = [reservation EXCEPT ![m.order] = row]
      /\ replies' = replies \cup {reply}
  BY DEF RecordRejection, Answer
<1>2. reservation'[m.order] = row /\ \A o \in Orders \ {m.order} : reservation'[o] = reservation[o]
  BY <1>0, <1>1 DEF LedgerTypes
<1>3. row \in ReserveRow
  BY <1>0 DEF ReserveRow
<1>4. reply \in Reply
  BY <1>0 DEF ReplyTo, Reply, ReplyTypes
<1>5. LedgerTypes'
  BY <1>0, <1>1, <1>3, <1>4 DEF LedgerTypes
<1>6. LedgerFits(m.order)'
  <2>1. order[m.order].status \notin AfterReservation \cup {"REJECTED", "ABSENT"}
    BY <1>0 DEF LedgerFits, RequestFits
  <2>2. /\ terminal[m.order].type # "TRANSFER" /\ terminal[m.order].type # "RELEASE"
        /\ order[m.order].status \notin {"COMPLETED", "CANCELLED", "EXPIRED"}
    BY <1>0, <2>1 DEF LedgerFits, Completing, Released, AfterReservation, Statuses
  <2> QED BY <1>0, <1>2, <2>1, <2>2 DEF LedgerFits, RequestFits
<1>7. Ledger'
  BY <1>2, <1>6 DEF Ledger, FlowInv, LedgerFits
<1>8. ReplyFits(reply)'
  BY <1>2 DEF ReplyFits, ReplyTo
<1>9. \A x \in missed' : MissFits(x)'
  <2>1. \A x \in missed' : x \in missed /\ x.order \in Orders
    BY <1>0 DEF LedgerTypes, WellFormed, Request
  <2> QED BY <1>0, <1>2, <2>1 DEF Messages, MissFits
<1>10. RowsFinal
  BY <1>2 DEF RowsFinal
<1> QED BY <1>1, <1>5, <1>7, <1>8, <1>9, <1>10 DEF LedgerStep

LEMMA OutOfRangeKeeps ==
    ASSUME FlowInv, order' = order, NEW m \in requests, ReserveOutOfRange(m)
    PROVE  LedgerStep
<1>1. /\ m.type = "RESERVATION_REQUESTED" /\ reservation[m.order].outcome = "ABSENT"
      /\ RecordRejection(m, "AMOUNT_OUT_OF_RANGE", 0)
      /\ missed' = missed /\ \A x \in missed : x.order # m.order
      /\ UNCHANGED <<funded, available, reserved, terminal, requests, alerts>>
  BY DEF ReserveOutOfRange, ReservationRequest, Claimable
<1>2. "AMOUNT_OUT_OF_RANGE" \in Rejections /\ 0 \in Nat
  BY DEF Rejections
<1> QED BY <1>1, <1>2, RejectionKeeps

LEMMA RefuseKeeps ==
    ASSUME FlowInv, order' = order, NEW m \in missed, ReserveRefuse(m)
    PROVE  LedgerStep
<1>0. m \in requests /\ MissFits(m) /\ m.requester \in Users
  BY RequestFacts DEF FlowInv, LedgerTypes, Messages
<1>1. /\ m.type = "RESERVATION_REQUESTED" /\ reservation[m.order].outcome = "ABSENT"
      /\ RecordRejection(m, "INSUFFICIENT_CREDITS", available[m.requester])
      /\ missed' \subseteq missed /\ \A x \in missed' : x.order # m.order
      /\ UNCHANGED <<funded, available, reserved, terminal, requests, alerts>>
  BY <1>0 DEF ReserveRefuse, MissFits
<1>2. "INSUFFICIENT_CREDITS" \in Rejections /\ available[m.requester] \in Nat
  BY <1>0 DEF Rejections, FlowInv, LedgerTypes
<1> QED BY <1>0, <1>1, <1>2, RejectionKeeps

LEMMA MissKeeps ==
    ASSUME FlowInv, order' = order, NEW m \in requests, ReserveMiss(m)
    PROVE  LedgerStep
<1>1. LedgerTypes'
  BY DEF FlowInv, LedgerTypes, ReserveMiss
<1>2. \A x \in missed' : MissFits(x)'
  BY DEF FlowInv, Messages, MissFits, ReserveMiss, ReservationRequest, Claimable
<1> QED BY <1>1, <1>2 DEF FlowInv, ReserveMiss, LedgerStep, Ledger, LedgerFits, RowsFinal

LEMMA AbortKeeps ==
    ASSUME FlowInv, order' = order, NEW m \in missed, ReserveAbort(m)
    PROVE  LedgerStep
<1>1. LedgerTypes'
  BY DEF FlowInv, LedgerTypes, ReserveAbort
<1>2. \A x \in missed' : MissFits(x)'
  BY DEF FlowInv, Messages, MissFits, ReserveAbort
<1> QED BY <1>1, <1>2 DEF FlowInv, ReserveAbort, LedgerStep, Ledger, LedgerFits, RowsFinal

LEMMA HoldKeeps ==
    ASSUME FlowInv, order' = order, NEW m \in requests, ReserveHold(m)
    PROVE  LedgerStep
<1> USE MessageAssumption
<1>0. /\ LedgerTypes /\ Messages /\ m.order \in Orders /\ m.requester \in Users /\ m.amount \in Rewards
      /\ m.amount \in Nat /\ RequestFits(m) /\ LedgerFits(m.order)
  BY RequestFacts DEF FlowInv
<1> DEFINE row == [outcome |-> "SUCCEEDED", requester |-> m.requester, amount |-> m.amount,
                   reason |-> "NONE", available |-> 0]
           reply == ReplyTo(m, "CREDITS_RESERVED", NoUser, "NONE", 0)
<1>1. /\ reservation' = [reservation EXCEPT ![m.order] = row]
      /\ replies' = replies \cup {reply}
      /\ reservation[m.order].outcome = "ABSENT" /\ \A x \in missed : x.order # m.order
      /\ UNCHANGED <<funded, terminal, missed, requests, alerts>>
  BY DEF ReserveHold, Answer, Claimable
<1>2. reservation'[m.order] = row /\ \A o \in Orders \ {m.order} : reservation'[o] = reservation[o]
  BY <1>0, <1>1 DEF LedgerTypes
<1>3. available' \in [Users -> Nat] /\ reserved' \in [Users -> Nat]
  BY <1>0 DEF ReserveHold, Debitable, LedgerTypes
<1>4. row \in ReserveRow /\ reply \in Reply
  BY <1>0 DEF ReserveRow, ReplyTo, Reply, ReplyTypes
<1>5. LedgerTypes'
  BY <1>0, <1>1, <1>3, <1>4 DEF LedgerTypes
<1>6. LedgerFits(m.order)'
  <2>1. order[m.order].status \notin AfterReservation \cup {"REJECTED", "ABSENT"}
    BY <1>0, <1>1 DEF LedgerFits, RequestFits
  <2>2. /\ terminal[m.order].type # "TRANSFER" /\ terminal[m.order].type # "RELEASE"
        /\ order[m.order].status \notin {"COMPLETED", "CANCELLED", "EXPIRED"}
    BY <1>0, <2>1 DEF LedgerFits, Completing, Released, AfterReservation, Statuses
  <2> QED BY <1>0, <1>1, <1>2, <2>1, <2>2 DEF LedgerFits, RequestFits
<1>7. Ledger'
  BY <1>1, <1>2, <1>6 DEF Ledger, FlowInv, LedgerFits
<1>8. ReplyFits(reply)'
  BY <1>2 DEF ReplyFits, ReplyTo
<1>9. \A x \in missed' : MissFits(x)'
  <2>1. \A x \in missed : x.order \in Orders
    BY <1>0 DEF LedgerTypes, WellFormed, Request
  <2> QED BY <1>0, <1>1, <1>2, <2>1 DEF Messages, MissFits
<1>10. RowsFinal
  BY <1>1, <1>2 DEF RowsFinal
<1> QED BY <1>1, <1>5, <1>7, <1>8, <1>9, <1>10 DEF LedgerStep

(* A repeat of a reservation request is told what was recorded: it always  *)
(* restates the row.                                                       *)
LEMMA ReplayKeeps ==
    ASSUME FlowInv, order' = order, NEW m \in requests, ReserveReplay(m)
    PROVE  LedgerStep
<1> USE MessageAssumption
<1> DEFINE row == reservation[m.order]
<1>0. /\ LedgerTypes /\ m.order \in Orders /\ m.requester \in Users /\ m.amount \in Rewards
      /\ row \in ReserveRow /\ RequestFits(m) /\ LedgerFits(m.order)
  BY RequestFacts DEF FlowInv
<1>1. row.outcome \in {"SUCCEEDED", "REJECTED"} /\ row.requester = m.requester /\ row.amount = m.amount
  BY <1>0 DEF ReserveReplay, ReserveRow, LedgerFits, RequestFits
<1>2. /\ replies' = replies \cup {RecordedReply(m, row)}
      /\ alerts' = alerts
      /\ UNCHANGED <<funded, available, reserved, reservation, terminal, missed, requests>>
  BY <1>1 DEF ReserveReplay, Answer
<1>3. RecordedReply(m, row) \in Reply
  BY <1>0 DEF RecordedReply, ReplyTo, Reply, ReplyTypes, ReserveRow
<1>4. ReplyFits(RecordedReply(m, row))'
  BY <1>1, <1>2 DEF RecordedReply, ReplyTo, ReplyFits
<1>5. LedgerTypes'
  BY <1>0, <1>2, <1>3 DEF LedgerTypes
<1> QED BY <1>2, <1>4, <1>5 DEF FlowInv, LedgerStep, Ledger, LedgerFits, RowsFinal, Messages, MissFits

LEMMA TerminalReplyTyped ==
    ASSUME FlowInv, NEW m \in requests, m.type # "RESERVATION_REQUESTED"
    PROVE  TerminalReply(m) \in Reply
<1>1. /\ m.order \in Orders /\ m.requester \in Users /\ m.amount \in Rewards
      /\ m.courier \in Users \cup {NoUser}
  BY RequestFacts
<1>2. CASE OperationOf(m) = "TRANSFER"
  BY <1>1, <1>2 DEF TerminalReply, ReplyTo, Reply, ReplyTypes
<1>3. CASE OperationOf(m) # "TRANSFER"
  BY <1>1, <1>3 DEF TerminalReply, ReplyTo, Reply, ReplyTypes
<1> QED BY <1>2, <1>3

(* The reply to a settlement request, once the settlement is recorded.     *)
LEMMA TerminalReplyFits ==
    ASSUME FlowInv, NEW m \in requests, m.type # "RESERVATION_REQUESTED",
           reservation' = reservation, terminal'[m.order].type = OperationOf(m),
           OperationOf(m) = "TRANSFER" => terminal'[m.order].courier = m.courier
    PROVE  ReplyFits(TerminalReply(m))'
<1>1. /\ reservation[m.order].outcome = "SUCCEEDED"
      /\ reservation[m.order].requester = m.requester /\ reservation[m.order].amount = m.amount
  BY NoRefusal, RequestFacts DEF RequestFits, LedgerFits
<1>2. CASE OperationOf(m) = "TRANSFER"
  BY <1>1, <1>2 DEF TerminalReply, ReplyTo, ReplyFits
<1>3. CASE OperationOf(m) = "RELEASE"
  BY <1>1, <1>3 DEF TerminalReply, ReplyTo, ReplyFits
<1> QED BY <1>2, <1>3 DEF OperationOf

LEMMA TerminalReplayKeeps ==
    ASSUME FlowInv, order' = order, NEW m \in requests, TerminalReplay(m)
    PROVE  LedgerStep
<1>1. /\ m.type # "RESERVATION_REQUESTED" /\ terminal[m.order].type # "ABSENT"
      /\ replies' = replies \cup {TerminalReply(m)}
      /\ UNCHANGED <<funded, available, reserved, reservation, terminal, missed, alerts, requests>>
  BY DEF TerminalReplay, TerminalRequest, Answer, ledgerVars
<1>2. /\ terminal[m.order].type = OperationOf(m)
      /\ OperationOf(m) = "TRANSFER" => terminal[m.order].courier = m.courier
  BY <1>1, NoRefusal
<1>3. ReplyFits(TerminalReply(m))'
  BY <1>1, <1>2, TerminalReplyFits
<1>4. LedgerTypes'
  BY <1>1, TerminalReplyTyped DEF LedgerTypes, FlowInv
<1> QED BY <1>1, <1>3, <1>4 DEF FlowInv, LedgerStep, Ledger, LedgerFits, RowsFinal, Messages, MissFits

(* A settlement writes the one terminal row of its order.                  *)
LEMMA SettlementKeeps ==
    ASSUME FlowInv, order' = order, NEW m \in requests, m.type # "RESERVATION_REQUESTED",
           terminal[m.order].type = "ABSENT", NEW row \in TerminalRow, row.type = OperationOf(m),
           OperationOf(m) = "TRANSFER" => row.courier = m.courier,
           terminal' = [terminal EXCEPT ![m.order] = row],
           replies' = replies \cup {TerminalReply(m)},
           available' \in [Users -> Nat], reserved' \in [Users -> Nat],
           UNCHANGED <<funded, reservation, missed, requests, alerts>>
    PROVE  LedgerStep
<1>0. m.order \in Orders /\ LedgerTypes /\ RequestFits(m) /\ LedgerFits(m.order)
  BY RequestFacts DEF FlowInv
<1>1. terminal'[m.order] = row /\ \A o \in Orders \ {m.order} : terminal'[o] = terminal[o]
  BY <1>0 DEF LedgerTypes
<1>2. LedgerTypes'
  BY <1>0, TerminalReplyTyped DEF LedgerTypes
<1>3. LedgerFits(m.order)'
  <2>1. CASE m.type = "COMPLETION_REQUESTED"
    <3>1. /\ row.type = "TRANSFER" /\ row.courier = order[m.order].courier
          /\ order[m.order].status \in Completing
      BY <1>0, <2>1 DEF OperationOf, RequestFits
    <3>2. order[m.order].status \notin {"CANCELLED", "EXPIRED"}
      BY <3>1 DEF Completing
    <3> QED BY <1>0, <1>1, <3>1, <3>2 DEF LedgerFits
  <2>2. CASE m.type # "COMPLETION_REQUESTED"
    <3>1. row.type = "RELEASE" /\ m.type = "RELEASE_REQUESTED" /\ order[m.order].status \in Released
      BY <1>0, <2>2, RequestFacts DEF OperationOf, RequestFits, WellFormed, Request, RequestTypes
    <3>2. order[m.order].status # "COMPLETED"
      BY <3>1 DEF Released
    <3> QED BY <1>0, <1>1, <3>1, <3>2 DEF LedgerFits
  <2> QED BY <2>1, <2>2
<1>4. Ledger'
  BY <1>1, <1>3 DEF Ledger, FlowInv, LedgerFits
<1>5. ReplyFits(TerminalReply(m))'
  BY <1>1, TerminalReplyFits
<1>6. RowsFinal
  BY <1>1 DEF RowsFinal
<1> QED BY <1>2, <1>4, <1>5, <1>6 DEF LedgerStep, FlowInv, Messages, MissFits

LEMMA TransferKeeps ==
    ASSUME FlowInv, order' = order, NEW m \in requests, Transfer(m)
    PROVE  LedgerStep
<1>0. LedgerTypes /\ m.requester \in Users /\ m.amount \in Nat
  BY RequestFacts DEF FlowInv
<1>1. /\ m.type # "RESERVATION_REQUESTED" /\ terminal[m.order].type = "ABSENT"
      /\ OperationOf(m) = "TRANSFER" /\ m.courier \in Users
      /\ terminal' = [terminal EXCEPT ![m.order] = [type |-> "TRANSFER", courier |-> m.courier]]
      /\ replies' = replies \cup {TerminalReply(m)}
      /\ UNCHANGED <<funded, reservation, missed, requests, alerts>>
  BY <1>0 DEF Transfer, TerminalRequest, Answer, LedgerTypes
<1>2. available' \in [Users -> Nat] /\ reserved' \in [Users -> Nat]
  BY <1>0, <1>1 DEF Transfer, LedgerTypes
<1>3. [type |-> "TRANSFER", courier |-> m.courier] \in TerminalRow
  BY <1>1 DEF TerminalRow
<1> QED BY <1>1, <1>2, <1>3, SettlementKeeps

LEMMA ReleaseKeeps ==
    ASSUME FlowInv, order' = order, NEW m \in requests, Release(m)
    PROVE  LedgerStep
<1>0. LedgerTypes /\ m.requester \in Users /\ m.amount \in Nat
  BY RequestFacts DEF FlowInv
<1>1. /\ m.type # "RESERVATION_REQUESTED" /\ terminal[m.order].type = "ABSENT"
      /\ OperationOf(m) = "RELEASE"
      /\ terminal' = [terminal EXCEPT ![m.order] = [type |-> "RELEASE", courier |-> NoUser]]
      /\ replies' = replies \cup {TerminalReply(m)}
      /\ UNCHANGED <<funded, reservation, missed, requests, alerts>>
  BY <1>0 DEF Release, TerminalRequest, Answer
<1>2. available' \in [Users -> Nat] /\ reserved' \in [Users -> Nat]
  BY <1>0, <1>1 DEF Release, LedgerTypes
<1>3. [type |-> "RELEASE", courier |-> NoUser] \in TerminalRow
  BY DEF TerminalRow
<1> QED BY <1>1, <1>2, <1>3, SettlementKeeps

(* Every step of Credit.                                                   *)
LEMMA CreditSteps ==
    ASSUME FlowInv, CreditNext, order' = order
    PROVE  LedgerStep
<1>1. ASSUME NEW m \in requests, TerminalReject(m) PROVE FALSE
  BY <1>1, NoRefusal DEF TerminalReject, TerminalRequest
<1>2. ASSUME NEW m \in requests,
             \/ ReserveOutOfRange(m) \/ ReserveHold(m) \/ ReserveMiss(m) \/ ReserveReplay(m)
             \/ TerminalReplay(m) \/ Transfer(m) \/ Release(m)
      PROVE  LedgerStep
  BY <1>2, OutOfRangeKeeps, HoldKeeps, MissKeeps, ReplayKeeps, TerminalReplayKeeps, TransferKeeps,
     ReleaseKeeps
<1>3. ASSUME NEW m \in missed, ReserveRefuse(m) \/ ReserveAbort(m) PROVE LedgerStep
  BY <1>3, RefuseKeeps, AbortKeeps
<1> QED BY <1>1, <1>2, <1>3, IssueKeeps DEF CreditNext

LEMMA CreditStepKeeps == ASSUME FlowInv, CreditStep PROVE FlowInv'
<1>0. /\ StateTypes /\ LedgerTypes /\ Rows /\ Ledger /\ Messages /\ SuspendedHoldNothing
      /\ CreditNext /\ UNCHANGED orderVars
  BY DEF FlowInv, CreditStep
<1>1. LedgerStep
  BY <1>0, CreditSteps DEF orderVars
<1>2. StateTypes' /\ SuspendedHoldNothing'
  BY <1>0 DEF StateTypes, SideTypes, SuspendedHoldNothing, orderVars, suspensionVars, outsideVars
<1>3. Rows'
  BY <1>0, <1>1 DEF Rows, LockFits, orderVars, suspensionVars, LedgerStep, RowsFinal
<1>4. \A m \in requests : RequestFits(m)'
  BY <1>0 DEF Messages, RequestFits, orderVars
<1>5. ASSUME NEW r \in replies PROVE ReplyFits(r)'
  <2>1. ReplyFits(r) /\ r.order \in Orders
    BY <1>0 DEF Messages, LedgerTypes, Reply
  <2>2. reservation'[r.order] = reservation[r.order]
    BY <1>1, <2>1 DEF ReplyFits, LedgerStep, RowsFinal
  <2>3. r.type \in {"CREDITS_TRANSFERRED", "CREDITS_RELEASED"} => terminal'[r.order] = terminal[r.order]
    BY <1>1, <2>1 DEF ReplyFits, LedgerStep, RowsFinal
  <2> QED BY <2>1, <2>2, <2>3 DEF ReplyFits
<1>6. Messages'
  BY <1>0, <1>1, <1>4, <1>5 DEF Messages, LedgerStep
<1> QED BY <1>1, <1>2, <1>3, <1>6 DEF FlowInv, LedgerStep

-----------------------------------------------------------------------------
LEMMA FlowInvInit == FlowInit => FlowInv
<1> SUFFICES ASSUME FlowInit PROVE FlowInv
  OBVIOUS
<1> USE PeriodAssumption, MessageAssumption DEF FlowInit, OrderInit, CreditInit
<1>0. NoRow \in Row
  <2>1. NoTime \in Times
    BY DEF Times, NoTime
  <2> QED BY <2>1 DEF NoRow, Row
<1>1. StateTypes
  BY <1>0 DEF StateTypes, SideTypes, NoTime
<1>2. LedgerTypes
  BY DEF LedgerTypes, ReserveRow, TerminalRow, NoReservation, NoTerminal
<1>3. RowFits(NoRow) /\ TimesFit(NoRow, 0)
  BY DEF NoRow, RowFits, TimesFit, NoTime, Assigned, Completing, Released, Undecided
<1>4. Rows
  BY <1>3 DEF Rows, LockFits
<1>5. NoRow.status = "ABSENT" /\ NoReservation.outcome = "ABSENT" /\ NoTerminal.type = "ABSENT"
  BY DEF NoRow, NoReservation, NoTerminal
<1>6. Ledger
  BY <1>5 DEF Ledger, LedgerFits, AfterReservation, Statuses
<1>7. Messages /\ SuspendedHoldNothing
  BY DEF Messages, SuspendedHoldNothing
<1> QED BY <1>1, <1>2, <1>4, <1>6, <1>7 DEF FlowInv

LEMMA FlowStepKeeps == ASSUME FlowInv, [FlowNext]_flowVars PROVE FlowInv'
<1>1. CASE FlowNext
  BY <1>1, OrderStepKeeps, CreditStepKeeps DEF FlowNext
<1>2. CASE UNCHANGED flowVars
  BY <1>2 DEF flowVars, orderVars, suspensionVars, outsideVars, ledgerVars, FlowInv, StateTypes,
     SideTypes, LedgerTypes, Rows, LockFits, Ledger, LedgerFits, Messages, RequestFits, MissFits,
     ReplyFits, SuspendedHoldNothing
<1> QED BY <1>1, <1>2

(* Order's optimistic concurrency: a row never loses a version, and its    *)
(* status never changes under the same version.                            *)
Versioned ==
    \A o \in Orders :
        /\ order'[o].version >= order[o].version
        /\ order'[o].version = order[o].version => order'[o].status = order[o].status

(* A closed order stays as it is.                                          *)
ClosedFinal ==
    \A o \in Orders :
        order[o].status \in {"REJECTED", "COMPLETED", "CANCELLED", "EXPIRED"} => order'[o] = order[o]

LEMMA FlowStepVersioned ==
    ASSUME FlowInv, [FlowNext]_flowVars PROVE Versioned /\ ClosedFinal
<1>0. /\ StateTypes /\ LedgerTypes /\ Rows /\ Messages /\ \A o \in Orders : order[o].version \in Nat
  BY DEF FlowInv, StateTypes, Row
<1>1. CASE order' = order
  BY <1>0, <1>1 DEF Versioned, ClosedFinal
<1>2. CASE OrderNext
  <2>1. RowsMove
    BY <1>0, <1>2, RowMoves
  <2>2. Versioned
    BY <1>0, <2>1, RowKept DEF Versioned, RowsMove
  <2>3. \A rule \in OrderTransitions :
           rule.from \notin {"REJECTED", "COMPLETED", "CANCELLED", "EXPIRED"}
    BY DEF OrderTransitions, Rule, Moves, Releases, Completes
  <2>4. ClosedFinal
    BY <2>1, <2>3 DEF ClosedFinal, RowsMove, Move, MayAccept, Fired
  <2> QED BY <2>2, <2>4
<1> QED BY <1>1, <1>2 DEF FlowNext, OrderStep, CreditStep, orderVars, flowVars

(* A rule moves a deadline that is set only for a suspended courier, from  *)
(* the time that handler began.                                            *)
LEMMA FiredDeadline ==
    ASSUME StateTypes, Rows, NEW o \in Orders, NEW rule \in OrderTransitions,
           NEW at \in 0 .. clock, Fired(o, rule, at), Backed(o, rule, at),
           order[o].deadline # NoTime, order'[o].deadline # order[o].deadline
    PROVE  GivesTimeBack(o)
<1> DEFINE row == order[o]
           next == order'[o]
<1>0. /\ row \in Row /\ RowFits(row) /\ clock \in Int /\ at \in Int /\ at <= clock
      /\ row.deadline \in Int /\ row.acceptedAt \in Int
  BY DEF StateTypes, SideTypes, Rows, Row, Times
<1>1. /\ rule.from = row.status /\ next.status = rule.to
      /\ next.deadline = DeadlineAfter(row, rule, at)
  BY DEF Fired, Written
<1>2. ~(rule.to = "OPEN" /\ rule.action = "CREDIT_RESERVED")
  BY <1>0, <1>1, RuleEdges DEF RowFits
<1>3. /\ rule.to = "OPEN" /\ rule.action = "COURIER_SUSPENDED"
      /\ next.deadline = row.deadline + (at - row.acceptedAt)
  BY <1>1, <1>2 DEF DeadlineAfter
<1>4. row.status = "ACCEPTED"
  BY <1>1, <1>3, RuleEdges
<1>5. SuspendedAt(row.courier, at)
  BY <1>3 DEF Backed
<1> HIDE DEF row, next
<1>6. /\ next.deadline <= row.deadline + (clock - row.acceptedAt)
      /\ next.deadline < row.deadline => at < row.acceptedAt
  BY <1>0, <1>3
<1> QED BY <1>1, <1>3, <1>4, <1>5, <1>6 DEF GivesTimeBack, SuspendedAt, row, next

(* A rule that expires an errand finds its deadline passed.                *)
LEMMA FiredExpiry ==
    ASSUME StateTypes, Rows, NEW o \in Orders, NEW rule \in OrderTransitions,
           NEW at \in 0 .. clock, Fired(o, rule, at), Backed(o, rule, at),
           order[o].releaseReason # "EXPIRED", order'[o].releaseReason = "EXPIRED"
    PROVE  order[o].deadline <= clock
<1>1. rule.reason = "EXPIRED"
  BY DEF Fired, Written
<1>2. Passed(order[o].deadline, at)
  BY <1>1, RuleEdges DEF Fired, Guarded, Backed
<1>3. order[o].deadline \in Int /\ clock \in Int
  BY DEF StateTypes, SideTypes, Row, Times
<1> QED BY <1>2, <1>3 DEF Passed

LEMMA FlowStepDeadlines ==
    ASSUME FlowInv, [FlowNext]_flowVars PROVE DeadlinesHold
<1>0. StateTypes /\ LedgerTypes /\ Rows /\ Messages
  BY DEF FlowInv
<1>1. CASE order' = order
  BY <1>1 DEF DeadlinesHold
<1>2. CASE OrderNext
  <2> SUFFICES ASSUME NEW o \in Orders
               PROVE  /\ order[o].deadline \notin {NoTime, order'[o].deadline} => GivesTimeBack(o)
                      /\ order[o].releaseReason # "EXPIRED" /\ order'[o].releaseReason = "EXPIRED"
                            => order[o].deadline <= clock
    BY DEF DeadlinesHold
  <2>0. order[o] \in Row /\ RowFits(order[o])
    BY <1>0 DEF StateTypes, Rows
  <2>1. Move(o)
    BY <1>0, <1>2, RowMoves DEF RowsMove
  <2>2. CASE order'[o] = order[o]
    BY <2>2
  <2>3. CASE \E b \in BOOLEAN : order'[o] = [order[o] EXCEPT !.noted = b]
    BY <2>0, <2>3 DEF Row
  <2>4. CASE order[o].status = "ABSENT" /\ \E u \in Users, n \in Rewards : order'[o] = NewRow(u, n)
    BY <2>0, <2>4 DEF RowFits, NewRow, NoRow
  <2>5. CASE \E u \in Users : order'[o] = TakenRow(order[o], u, clock)
    BY <2>0, <2>5 DEF TakenRow, Row
  <2>6. CASE \E rule \in OrderTransitions, at \in 0 .. clock :
                Fired(o, rule, at) /\ Backed(o, rule, at)
    BY <1>0, <2>6, FiredDeadline, FiredExpiry
  <2> QED BY <2>1, <2>2, <2>3, <2>4, <2>5, <2>6 DEF Move
<1> QED BY <1>1, <1>2 DEF FlowNext, OrderStep, CreditStep, orderVars, flowVars

(* What the inductive invariant gives the runs.                            *)
LEMMA FlowInvGives ==
    FlowInv => /\ TypeOK /\ MoneyFollowsErrand /\ PaidForReason
               /\ SuspendedHoldNothing
<1> SUFFICES ASSUME FlowInv
             PROVE  /\ TypeOK /\ MoneyFollowsErrand /\ PaidForReason
                    /\ SuspendedHoldNothing
  OBVIOUS
<1>0. ASSUME NEW o \in Orders
      PROVE  /\ order[o] \in Row /\ RowFits(order[o]) /\ TimesFit(order[o], clock) /\ LedgerFits(o)
  BY DEF FlowInv, StateTypes, Rows, Ledger
<1>1. RowShape
  BY <1>0 DEF RowShape, RowFits, TimesFit, Assigned, Completing, Released
<1>2. TypeOK
  BY <1>1 DEF TypeOK, FlowInv, StateTypes, SideTypes, LedgerTypes
<1>3. MoneyFollowsErrand
  BY <1>0 DEF MoneyFollowsErrand, LedgerFits, Completing, Released
<1>4. PaidForReason
  BY <1>0 DEF PaidForReason, RowFits, Completing
<1> QED BY <1>2, <1>3, <1>4 DEF FlowInv

(* The inductive invariant holds of every reachable state.                 *)
THEOREM FlowInvHolds == FlowSpec => []FlowInv
BY FlowInvInit, FlowStepKeeps, PTL DEF FlowSpec

(* Every row keeps its type and the shape the checks of order-service/src/ *)
(* db/schema.ts demand, and Order sends Credit only well-formed requests,  *)
(* for any number of orders, students and sweeps.                          *)
THEOREM FlowTyped == FlowSpec => []TypeOK
BY FlowInvHolds, FlowInvGives, PTL

(* Order and Credit agree about the money at every moment (orders.         *)
(* repository.ts, credit.repository.ts).                                   *)
THEOREM FlowMoney == FlowSpec => []MoneyFollowsErrand
BY FlowInvHolds, FlowInvGives, PTL

(* A courier is paid for a delivery or by the decision of an administrator *)
(* who took no part (resolveDispute).                                      *)
THEOREM FlowPaidForReason == FlowSpec => []PaidForReason
BY FlowInvHolds, FlowInvGives, PTL

(* Nothing but a courier's suspension moves a deadline (timestampPatch),   *)
(* by no more than the time held, and back only when its handler began     *)
(* before the acceptance; and nothing expires early (lifecycle scheduler). *)
THEOREM FlowDeadlines == FlowSpec => DeadlinesKept
BY FlowInvHolds, FlowStepDeadlines, PTL DEF FlowSpec, DeadlinesKept

(* A student whose suspension has been applied has no open or accepted     *)
(* errand (UserSuspensionsConsumer, ReservationResultsConsumer).           *)
THEOREM FlowSuspended == FlowSpec => []SuspendedHoldNothing
BY FlowInvHolds, FlowInvGives, PTL

(* A command that was checked against a version was checked against its    *)
(* status (the expectedVersion of orders.repository.ts).                   *)
THEOREM FlowVersioned == FlowSpec => [][Versioned]_flowVars
BY FlowInvHolds, FlowStepVersioned, PTL DEF FlowSpec

(* Late replies, sweeps and suspensions never reopen or rewrite a closed   *)
(* order.                                                                  *)
THEOREM FlowClosedFinal == FlowSpec => [][ClosedFinal]_flowVars
BY FlowInvHolds, FlowStepVersioned, PTL DEF FlowSpec
=============================================================================
