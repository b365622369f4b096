--------------------------- MODULE Administration ---------------------------
(***************************************************************************)
(* admin.service.ts and admin.repository.ts: suspensions and role changes, *)
(* under the two-person rule, password re-entry and the limits of ADR      *)
(* 0008.  The runs stay within one hour, the window of the limits.         *)
(***************************************************************************)
EXTENDS Sessions

CONSTANTS
    SuspensionsAlert,   \* suspensions in an hour that raise an alert
    ReadsAlert          \* reads in an hour that do

ASSUME AlertAssumption == SuspensionsAlert \in Nat /\ ReadsAlert \in Nat

VARIABLES
    roleRequest,    \* role_change_requests, in the order of creation
    suspensions,    \* per administrator: accounts suspended in this hour
    reads,          \* per administrator: accounts read in this hour
    alerts,         \* admin_alerts of this hour: kind and administrator
    audit           \* audit_records, without repetitions

adminVars == <<roleRequest, suspensions, reads, alerts, audit>>

AdminInit ==
    /\ roleRequest = <<>> /\ alerts = {} /\ audit = {}
    /\ suspensions = [u \in Users |-> 0] /\ reads = [u \in Users |-> 0]

Holders == {u \in Users : account[u].admin}

ActiveAdmin(u) == account[u].admin /\ account[u].status = "ACTIVE"

Record(action, actor, target, approval) ==
    audit' = audit \cup {[action |-> action, actor |-> actor, target |-> target,
                          approval |-> approval]}

(* The guards of every administrative request: the session, then the role. *)
Guard(c, kind, i) ==
    /\ request[c] = Idle /\ Spend(kind)
    /\ Authenticated(i) /\ account[session[i].user].admin
    /\ UNCHANGED <<accountVars, sessionVars, astray, adminVars>>

AdminRequest(c, kind, i, u, role) ==
    /\ Guard(c, kind, i)
    /\ account[u].status # "ABSENT"
    /\ Enter(c, [Idle EXCEPT !.kind = kind, !.phase = "GUARDED", !.row = i,
                             !.actor = session[i].user, !.user = u, !.role = role])

DecisionRequest(c, kind, i, q) ==
    /\ Guard(c, kind, i)
    /\ Enter(c, [Idle EXCEPT !.kind = kind, !.phase = "GUARDED", !.row = i,
                             !.actor = session[i].user, !.link = q])

(* The first locking statement, lockAdminIds or lockUsers, takes its       *)
(* snapshot.  Once it has the locks it has looked again at the rows it     *)
(* locks, and neither for other holders nor, if it locks accounts, at the  *)
(* roles it read beside them.                                              *)
TakeSnapshot(c) ==
    /\ request[c].kind \in {"SUSPEND", "REACTIVATE", "ROLE", "APPROVE", "REJECT"}
    /\ request[c].phase = "GUARDED"
    /\ Enter(c, [request[c] EXCEPT !.phase = "WAITING", !.holders = Holders])
    /\ UNCHANGED <<accountVars, sessionVars, astray, budget, adminVars>>

Waits(c, kind) == request[c].kind = kind /\ request[c].phase = "WAITING"

(* Mutant: only the target is locked.                                      *)
MutantLockUsers(c, users) == {request[c].user}

(* lockUsers: the rows, once no other transaction holds one of them.       *)
LockUsers(c, users) == users

Lockable(c, users) == \A u \in LockUsers(c, users) : RowFree(u, c)

(* activeAdmin, of the caller: the role as the snapshot held it.           *)
StillActs(c) ==
    request[c].actor \in request[c].holders /\ account[request[c].actor].status = "ACTIVE"

(* guardAdminTarget                                                        *)
MayTouch(c) ==
    request[c].user \in request[c].holders =>
        account[request[c].actor].seeded /\ SteppedUpWithin(request[c].row)

(* What suspend checks before it counts.                                   *)
Suspendable(c) ==
    LET r == request[c]
    IN  /\ StillActs(c) /\ r.actor # r.user /\ MayTouch(c)
        /\ account[r.user].status = "ACTIVE"

(* An alert raised once per hour is a transaction of its own.              *)
ToRaise(kind, actor) ==
    [Idle EXCEPT !.kind = "ALERT", !.phase = "COUNTED", !.actor = actor, !.role = kind]

SetStatus(u, status) == account' = [account EXCEPT ![u].status = status]

(* suspend: locks, checks, and the statement that revokes the sessions.    *)
Suspend(c) ==
    LET r     == request[c]
        spent == suspensions[r.actor] >= SuspensionsLimit
    IN  /\ Waits(c, "SUSPEND") /\ Lockable(c, {r.actor, r.user})
        /\ CASE Suspendable(c) /\ ~spent ->
                  Enter(c, RevokeUser(r, LockUsers(c, {r.actor, r.user}), TRUE))
             [] Suspendable(c) /\ spent -> Enter(c, ToRaise("SUSPENSION_LIMIT_REACHED", r.actor))
             [] OTHER -> Done(c)
        /\ UNCHANGED <<accountVars, sessionVars, astray, budget, adminVars>>

(* The commit of a suspension.                                             *)
SuspendCommits(c) ==
    LET r == request[c]
    IN  /\ r.kind = "SUSPEND" /\ Revoking(c) /\ Revocable(c)
        /\ SetStatus(r.user, "SUSPENDED")
        /\ session' = Revoked(ToRevoke(c))
        /\ escaped' = Escaped(c)
        /\ suspensions' = [suspensions EXCEPT ![r.actor] = @ + 1]
        /\ alerts' = IF r.user \in r.holders
                     THEN alerts \cup {<<"ADMIN_SUSPENDED", r.actor>>} ELSE alerts
        /\ Record("SUSPEND", r.actor, r.user, "NONE")
        /\ IF suspensions[r.actor] + 1 >= SuspensionsAlert
           THEN Enter(c, ToRaise("BULK_SUSPENSIONS", r.actor))
           ELSE Done(c)
        /\ UNCHANGED <<links, issued, activations, over, dead, reusedBy, astray, budget,
                       roleRequest, reads>>

RaiseOncePerHour(c) ==
    /\ request[c].kind = "ALERT"
    /\ alerts' = alerts \cup {<<request[c].role, request[c].actor>>}
    /\ Done(c)
    /\ UNCHANGED <<accountVars, sessionVars, astray, budget, roleRequest, suspensions, reads, audit>>

Reactivate(c) ==
    LET r == request[c]
        ok == StillActs(c) /\ MayTouch(c) /\ account[r.user].status = "SUSPENDED"
    IN  /\ Waits(c, "REACTIVATE") /\ Lockable(c, {r.actor, r.user})
        /\ IF ok THEN SetStatus(r.user, "ACTIVE") /\ Record("REACTIVATE", r.actor, r.user, "NONE")
           ELSE UNCHANGED <<account, audit>>
        /\ alerts' = IF ok /\ r.user \in r.holders
                     THEN alerts \cup {<<"ADMIN_REACTIVATED", r.actor>>} ELSE alerts
        /\ Done(c)
        /\ UNCHANGED <<links, issued, activations, sessionVars, astray, budget,
                       roleRequest, suspensions, reads>>

CountReads(actor) == reads[actor] + 1

(* readUser, and listUsers for each account it shows.                      *)
ReadUser(c) ==
    LET r == request[c]
        n == CountReads(r.actor)
    IN  /\ r.kind = "READ"
        /\ Done(c)
        /\ IF r.actor = r.user
           THEN UNCHANGED <<reads, alerts>>
           ELSE /\ reads' = [reads EXCEPT ![r.actor] = n]
                /\ alerts' = IF n >= ReadsAlert
                             THEN alerts \cup {<<"BULK_READS", r.actor>>} ELSE alerts
        /\ UNCHANGED <<accountVars, sessionVars, astray, budget, roleRequest, suspensions, audit>>

-----------------------------------------------------------------------------
(* roleRulesAllow for actor a changing u to role: "NOTHING" if it would    *)
(* change nothing.                                                         *)
RoleRules(a, u, role, holders) ==
    LET refused == \/ role = "ADMIN" /\ account[u].status # "ACTIVE"
                   \/ role = "STUDENT" /\ (a = u \/ ~account[a].seeded \/ Cardinality(holders) <= 1)
    IN  IF (role = "ADMIN") = account[u].admin THEN "NOTHING"
        ELSE IF refused THEN "REFUSED" ELSE "ALLOWED"

(* grantAdmin, revokeAdmin                                                 *)
WithRole(row, role) == [row EXCEPT !.admin = (role = "ADMIN")]

(* applyRoleChange: the role, its record and its alert.                    *)
ApplyRoleChange(approver, u, role, approval) ==
    /\ account' = [account EXCEPT ![u] = WithRole(@, role)]
    /\ Record(IF role = "ADMIN" THEN "ROLE_GRANT" ELSE "ROLE_REVOKE", approver, u, approval)
    /\ alerts' = alerts \cup {<<"ROLE_CHANGE", approver>>}

(* What lockAdminIds returns.                                              *)
Listed(c) == request[c].holders \cap Holders

PendingFor(u) ==
    {q \in DOMAIN roleRequest : roleRequest[q].target = u /\ roleRequest[q].status = "PENDING"
                                  /\ ~roleRequest[q].lapsed}

(* Requests past their deadline are marked when a new one is made.         *)
Swept(u) ==
    [q \in DOMAIN roleRequest |->
        IF roleRequest[q].target = u /\ roleRequest[q].status = "PENDING" /\ roleRequest[q].lapsed
        THEN [roleRequest[q] EXCEPT !.status = "EXPIRED"] ELSE roleRequest[q]]

Others(c) == Listed(c) \ {request[c].actor, request[c].user}

NewRoleRequest(r) ==
    [target |-> r.user, role |-> r.role, by |-> r.actor, status |-> "PENDING", lapsed |-> FALSE]

(* requestRoleChange: alone only if nobody else holds the role.            *)
RequestRoleChange(c) ==
    LET r  == request[c]
        ok == /\ ActiveAdmin(r.actor)
              /\ RoleRules(r.actor, r.user, r.role, Listed(c)) = "ALLOWED"
              /\ SteppedUpWithin(r.row) /\ PendingFor(r.user) = {}
    IN  /\ Waits(c, "ROLE") /\ Lockable(c, {r.actor, r.user})
        /\ Done(c)
        /\ CASE ok /\ Others(c) = {} ->
                  /\ ApplyRoleChange(r.actor, r.user, r.role, "NO_APPROVER")
                  /\ roleRequest' = Swept(r.user)
             [] ok /\ Others(c) # {} ->
                  /\ roleRequest' = Append(Swept(r.user), NewRoleRequest(r))
                  /\ Record("ROLE_CHANGE_REQUESTED", r.actor, r.user, "NONE")
                  /\ UNCHANGED <<account, alerts>>
             [] OTHER -> UNCHANGED <<account, roleRequest, audit, alerts>>
        /\ UNCHANGED <<links, issued, activations, sessionVars, astray, budget, suspensions, reads>>

Open(q) == roleRequest[q].status = "PENDING" /\ ~roleRequest[q].lapsed

(* Mutant: whoever asked is not looked at again.                           *)
MutantStillAsks(q) == TRUE

StillAsks(q) == ActiveAdmin(roleRequest[q].by)

Decided(q, status) == roleRequest' = [roleRequest EXCEPT ![q].status = status]

(* approveRoleRequest: every rule again, with all three accounts locked.   *)
ApproveRoleRequest(c) ==
    LET r  == request[c]
        q  == r.link
        o  == roleRequest[q]
        ok == /\ Open(q) /\ r.actor \notin {o.by, o.target}
              /\ ActiveAdmin(r.actor) /\ StillAsks(q)
              /\ RoleRules(o.by, o.target, o.role, Listed(c)) = "ALLOWED"
              /\ SteppedUpWithin(r.row)
    IN  /\ Waits(c, "APPROVE")
        /\ Lockable(c, {r.actor, o.by, o.target})
        /\ Done(c)
        /\ IF ok THEN Decided(q, "APPROVED")
                        /\ ApplyRoleChange(r.actor, o.target, o.role, "SECOND_ADMIN")
                 ELSE UNCHANGED <<account, roleRequest, audit, alerts>>
        /\ UNCHANGED <<links, issued, activations, sessionVars, astray, budget, suspensions, reads>>

(* rejectRoleRequest: a refusal, or the requester's withdrawal.            *)
RejectRoleRequest(c) ==
    LET r  == request[c]
        q  == r.link
        o  == roleRequest[q]
        ok == /\ Open(q) /\ r.actor # o.target /\ StillActs(c)
              /\ r.actor # o.by => SteppedUpWithin(r.row)
    IN  /\ Waits(c, "REJECT") /\ Lockable(c, {r.actor})
        /\ Done(c)
        /\ IF ok THEN Decided(q, "REJECTED")
                        /\ Record("ROLE_CHANGE_REJECTED", r.actor, o.target, "NONE")
                 ELSE UNCHANGED <<roleRequest, audit>>
        /\ UNCHANGED <<accountVars, sessionVars, astray, budget, suspensions, reads, alerts>>

(* The deadline of a role request passes.                                  *)
RoleRequestLapses(q) ==
    /\ Spend("EXPIRE") /\ Open(q)
    /\ roleRequest' = [roleRequest EXCEPT ![q].lapsed = TRUE]
    /\ UNCHANGED <<accountVars, sessionVars, request, astray, suspensions, reads, alerts, audit>>

AdminNext ==
    \/ \E c \in Clients :
          \/ \E i \in DOMAIN session :
                \/ \E u \in Users :
                      \/ \E k \in {"SUSPEND", "REACTIVATE", "READ"} : AdminRequest(c, k, i, u, "NONE")
                      \/ \E role \in {"ADMIN", "STUDENT"} : AdminRequest(c, "ROLE", i, u, role)
                \/ \E q \in DOMAIN roleRequest, k \in {"APPROVE", "REJECT"} :
                      DecisionRequest(c, k, i, q)
          \/ Suspend(c) \/ SuspendCommits(c) \/ RaiseOncePerHour(c) \/ Reactivate(c)
          \/ ReadUser(c) \/ TakeSnapshot(c) \/ RequestRoleChange(c)
          \/ ApproveRoleRequest(c) \/ RejectRoleRequest(c)
    \/ \E q \in DOMAIN roleRequest : RoleRequestLapses(q)
=============================================================================
