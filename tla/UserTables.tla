----------------------------- MODULE UserTables -----------------------------
(***************************************************************************)
(* The tables of the User Service and the locks its transactions hold.     *)
(* Requests run concurrently, and a password is hashed or verified, which  *)
(* takes long, between two reads or writes of one request: every request   *)
(* is kept with what it has read.                                          *)
(*                                                                         *)
(* A stored password is a version: each hash is salted, so no two are      *)
(* equal, and every change stores one that was never stored before.        *)
(***************************************************************************)
EXTENDS Integers, Sequences, FiniteSets

CONSTANTS
    Users,              \* accounts, by the address they belong to
    NoUser,
    Clients,            \* concurrent callers of the service's API
    Tabs,               \* tabs of one browser, which call it too
    Scenarios,          \* initial tables, with the requests callers will make
    SuspensionsLimit    \* suspensions one administrator may make in an hour

ASSUME UserAssumption ==
    /\ SuspensionsLimit \in Nat
    /\ Clients \cap (Tabs \X {"REFRESH", "FORM"}) = {}

(* The rows of users with user_roles, and of refresh_sessions.             *)
AccountRows == [status : {"ABSENT", "PENDING_ACTIVATION", "ACTIVE", "SUSPENDED"}, password : Nat,
                mustChange : BOOLEAN, admin : BOOLEAN, seeded : BOOLEAN]

SessionRows == [user : Users, family : Nat, expires : Nat, under : Nat, rotated : BOOLEAN,
                revoked : BOOLEAN, stepped : Nat]

VARIABLES
    account,        \* users and user_roles
    links,          \* unconsumed activation and password reset tokens
    issued,         \* links issued so far
    session,        \* refresh_sessions, in the order of insertion
    over,           \* sign-ins whose seven days have passed
    request,        \* per caller: the request it is making
    activations,    \* per account: user.activated events written
    dead,           \* families a finished sign-out or reuse detection ended
    escaped,        \* families with a row that a revocation's snapshot missed
    reusedBy,       \* callers told REFRESH_TOKEN_REUSED
    astray,         \* rotated tokens whose successor the browser never received
    budget          \* bound: requests and faults left, by kind

(* A tab refreshes on one connection and signs in or out on another.       *)
Callers == Clients \cup (Tabs \X {"REFRESH", "FORM"})

accountVars == <<account, links, issued, activations>>
sessionVars == <<session, over, dead, escaped, reusedBy>>

(* A request: the account it is about (user), the caller's own (actor),    *)
(* the password version and session row it read, the link or the role      *)
(* request it names, and, for an open transaction, its locks and what its  *)
(* last statement's snapshot held.                                         *)
Idle == [kind |-> "IDLE", phase |-> "IDLE", user |-> NoUser, actor |-> NoUser, hash |-> 0,
         row |-> 0, link |-> 0, role |-> "NONE", locks |-> {}, keyLock |-> FALSE, family |-> 0,
         rows |-> {}, holders |-> {}]

Absent == [status |-> "ABSENT", password |-> 0, mustChange |-> FALSE,
           admin |-> FALSE, seeded |-> FALSE]

(* Initial tables: accounts that were activated or are not there yet, and  *)
(* one row for each sign-in; a sign-in that is in force was made with the  *)
(* present password of an account that may be used.                        *)
ASSUME ScenarioAssumption ==
    \A s \in Scenarios :
        /\ s.accounts \in [Users -> AccountRows] /\ s.sessions \in Seq(SessionRows)
        /\ \A u \in Users :
              \/ s.accounts[u] = Absent
              \/ s.accounts[u].status \in {"ACTIVE", "SUSPENDED"} /\ s.accounts[u].password # 0
        /\ \A i \in DOMAIN s.sessions :
              LET row == s.sessions[i]
                  own == s.accounts[row.user]
              IN  /\ row.family = i /\ row.expires = i /\ ~row.rotated
                  /\ ~row.revoked =>
                        /\ own.status = "ACTIVE" /\ ~own.mustChange
                        /\ row.under = own.password /\ row.stepped \in {0, own.password}

(* One request or fault of kind k is used up.                              *)
Spend(k) == budget[k] > 0 /\ budget' = [budget EXCEPT ![k] = @ - 1]

TablesInit ==
    \E s \in Scenarios :
        /\ account = s.accounts /\ session = s.sessions /\ budget = s.budget
        /\ links = {} /\ issued = 0 /\ over = {}
        /\ request = [c \in Callers |-> Idle]
        /\ activations = [u \in Users |-> IF s.accounts[u] = Absent THEN 0 ELSE 1]
        /\ dead = {} /\ escaped = {} /\ reusedBy = {} /\ astray = 0

-----------------------------------------------------------------------------
(* Row locks.  A transaction that revokes sessions has locked the account  *)
(* rows named by its request, FOR UPDATE or, for a plain UPDATE of the     *)
(* password, FOR NO KEY UPDATE, and waits until it can lock the sessions.  *)
Revoking(c) == request[c].phase = "REVOKING"

(* No other transaction holds the account row.                             *)
RowFree(u, c) == \A d \in Callers \ {c} : Revoking(d) => u \notin request[d].locks

(* An insert that refers to the account takes FOR KEY SHARE, which only    *)
(* FOR UPDATE keeps out.                                                   *)
KeyShareFree(u, c) ==
    \A d \in Callers \ {c} : Revoking(d) /\ request[d].keyLock => u \notin request[d].locks

(* Session rows a refresh has locked (lockByHash).                         *)
LockedSession(c) ==
    IF request[c].kind = "REFRESH" THEN {request[c].row} ELSE {}

(* Mutant: the read by token hash takes no lock.                           *)
MutantSessionFree(i, c) == TRUE

SessionFree(i, c) == \A d \in Callers \ {c} : i \notin LockedSession(d)

-----------------------------------------------------------------------------
OfFamily(f) == {i \in DOMAIN session : session[i].family = f /\ ~session[i].revoked}

OfUser(u) == {i \in DOMAIN session : session[i].user = u /\ ~session[i].revoked}

(* The rows in force that a request that revokes is about; one that names  *)
(* no family revokes all sessions of its account.                          *)
InForce(c) ==
    LET r == request[c] IN IF r.family = 0 THEN OfUser(r.user) ELSE OfFamily(r.family)

(* The UPDATE that revokes writes the rows its snapshot held.  A statement *)
(* that has waited for a lock looks at those rows again, but not for rows  *)
(* inserted meanwhile.                                                     *)
ToRevoke(c) == request[c].rows \cap InForce(c)

Escaped(c) == escaped \cup {session[i].family : i \in InForce(c) \ request[c].rows}

Revocable(c) == \A i \in ToRevoke(c) : SessionFree(i, c)

Revoked(rows) ==
    [i \in DOMAIN session |-> IF i \in rows THEN [session[i] EXCEPT !.revoked = TRUE]
                                            ELSE session[i]]

(* liveness, as the access-token guard and introspection use it.           *)
Live(i) ==
    /\ i \in DOMAIN session
    /\ ~session[i].revoked
    /\ session[i].expires \notin over
    /\ ~account[session[i].user].mustChange

(* The access-token guard: a live session of an active account.            *)
Authenticated(i) == Live(i) /\ account[session[i].user].status = "ACTIVE"

SteppedUpWithin(i) == session[i].stepped # 0 /\ ~session[i].revoked

Done(c) == request' = [request EXCEPT ![c] = Idle]

Enter(c, r) == request' = [request EXCEPT ![c] = r]

(* r has locked these account rows and begins to revoke all sessions of    *)
(* its account, or those of family f.                                      *)
RevokeUser(r, locked, forUpdate) ==
    [r EXCEPT !.phase = "REVOKING", !.locks = locked, !.keyLock = forUpdate,
              !.rows = OfUser(r.user)]

RevokeFamily(r, f) ==
    [r EXCEPT !.phase = "REVOKING", !.family = f, !.rows = OfFamily(f)]

UnconsumedOf(u, kinds) == {l \in links : l.user = u /\ l.kind \in kinds}
=============================================================================
