---------------------------- MODULE UserService -----------------------------
(***************************************************************************)
(* The User Service: accounts, sessions and administration, called by      *)
(* concurrent clients and by the tabs of one browser.                      *)
(***************************************************************************)
EXTENDS Administration, BrowserSession

userVars == <<accountVars, sessionVars, request, astray, budget, adminVars, browserVars>>

UserInit == TablesInit /\ AdminInit /\ BrowserInit

(* A request waits for a lock that a second request holds while that one   *)
(* waits for it.                                                           *)
Entangled(c, d) ==
    /\ request[c].kind = "REFRESH" /\ request[c].phase = "ROTATING"
    /\ ~KeyShareFree(request[c].user, c)
    /\ Revoking(d) /\ request[d].keyLock /\ request[c].row \in ToRevoke(d)

(* The database fails one of the two.                                      *)
DeadlockVictim(c, d) ==
    /\ Entangled(c, d) \/ Entangled(d, c)
    /\ Done(c)
    /\ IF c \in Tabs \X {"REFRESH"} /\ Waiting(c[1])
       THEN /\ tab' = [tab EXCEPT ![c[1]].doing = "NOTHING"]
            /\ lock' = NoTab
       ELSE UNCHANGED <<tab, lock>>
    /\ UNCHANGED <<accountVars, sessionVars, astray, budget, adminVars,
                   jar, pending, answer, told, left>>

(* A request is cut off: the process or its connection to the database     *)
(* ends, and an open transaction rolls back.                               *)
RequestFails(c) ==
    /\ c \in Clients /\ request[c] # Idle /\ Spend("FAIL")
    /\ Done(c)
    /\ UNCHANGED <<accountVars, sessionVars, astray, adminVars, browserVars>>

UserNext ==
    \/ (AccountsNext \/ SessionsNext) /\ UNCHANGED <<adminVars, browserVars>>
    \/ AdminNext /\ UNCHANGED browserVars
    \/ BrowserNext /\ UNCHANGED adminVars
    \/ \E c, d \in Callers : DeadlockVictim(c, d)
    \/ \E c \in Clients : RequestFails(c)

UserSpec == UserInit /\ [][UserNext]_userVars

-----------------------------------------------------------------------------
(* Type invariant of the tables; an account that has ever been active has  *)
(* a password and exactly one user.activated event, however often links    *)
(* are used and whichever of them comes first.                             *)
AccountsTypeOK ==
    /\ account \in [Users -> AccountRows]
    /\ \A i \in DOMAIN session : session[i].user \in Users /\ session[i].family \in 1 .. i
    /\ \A u \in Users :
          LET been == account[u].status \in {"ACTIVE", "SUSPENDED"}
          IN  (account[u].password # 0) = been /\ activations[u] = IF been THEN 1 ELSE 0

UnderPassword(i) ==
    /\ session[i].under = account[session[i].user].password
    /\ session[i].stepped \in {0, account[session[i].user].password}

(* A password change, by whatever way, ends what was built on the old one: *)
(* every session in force was signed in, and if it counts as re-verified   *)
(* was re-verified, with the account's present password.  Excepted is the  *)
(* row of a refresh that overlapped a revocation (see EverySessionEnds).   *)
PasswordEndsSessions ==
    \A i \in DOMAIN session :
        ~session[i].revoked /\ session[i].family \notin escaped => UnderPassword(i)

(* What changePassword's comment says: every session of the account is     *)
(* revoked in the same transaction.                                        *)
EverySessionEnds == \A i \in DOMAIN session : ~session[i].revoked => UnderPassword(i)

(* Once a suspension has committed no session of the account is in force,  *)
(* although sign-ins and refreshes that had read it as active were under   *)
(* way; the same for an account that must replace its password.            *)
BarredHaveNoSession ==
    \A i \in DOMAIN session :
        ~session[i].revoked =>
            /\ account[session[i].user].status = "ACTIVE"
            /\ ~account[session[i].user].mustChange

(* A sign-in has one token that can be used next, whoever refreshes at the *)
(* same time; and its seven days are not prolonged by refreshing.          *)
OneCurrentToken ==
    /\ \A i, j \in DOMAIN session :
          /\ session[i].family = session[j].family
          /\ ~session[i].rotated /\ ~session[j].rotated
          => i = j
    /\ \A i \in DOMAIN session : session[i].family \in over => ~Live(i)

(* A sign-out, or a rotated token presented again, ends the whole family   *)
(* for good, a refresh that has locked its row by then included; excepted  *)
(* is the row of a refresh that ends between the revocation's snapshot and *)
(* its commit.                                                             *)
DeadFamilies ==
    \A i \in DOMAIN session : session[i].family \in dead \ escaped => session[i].revoked

(* Only the newest link of a kind works; a reset link works only while the *)
(* password it was asked under is still the password, and an activation    *)
(* link only for an account that waits for it.                             *)
LinksCurrent ==
    \A l \in links :
        /\ \A m \in links : m.user = l.user /\ m.kind = l.kind => m = l
        /\ l.kind = "RESET" => l.under = account[l.user].password
        /\ l.kind = "ACTIVATION" => account[l.user].status = "PENDING_ACTIVATION"

(* No administrator suspends more accounts in an hour than the limit, with *)
(* any number of requests at once, and no account is suspended by one who  *)
(* is suspended by then.                                                   *)
SuspensionsLimited ==
    /\ \A u \in Users : suspensions[u] <= SuspensionsLimit
    /\ \A c \in Clients :
          request[c].kind = "SUSPEND" /\ Revoking(c) => account[request[c].actor].status = "ACTIVE"

(* Whose wish a role change is, and the audit record of a role request.    *)
Author(c) ==
    IF request[c].kind = "APPROVE" THEN roleRequest[request[c].link].by ELSE request[c].actor

AskedFor(q) ==
    [action |-> "ROLE_CHANGE_REQUESTED", actor |-> roleRequest[q].by,
     target |-> roleRequest[q].target, approval |-> "NONE"]

(* Another active administrator approves an open request, which its author *)
(* made by name and which is spent with it.                                *)
SecondWord(c, u) ==
    LET r == request[c]
        q == r.link
    IN  /\ r.kind = "APPROVE"
        /\ roleRequest[q].target = u /\ Open(q) /\ AskedFor(q) \in audit
        /\ r.actor \notin {Author(c), u} /\ ActiveAdmin(r.actor)
        /\ account'[u].admin = (roleRequest[q].role = "ADMIN")
        /\ roleRequest'[q].status = "APPROVED"

(* The author alone: of those who held the role when the request looked,   *)
(* suspended ones included, nobody else still does, and no open request    *)
(* about the account is bypassed.                                          *)
LoneWord(c, u) ==
    LET r == request[c]
    IN  /\ r.kind = "ROLE" /\ r.user = u
        /\ Holders \cap r.holders \subseteq {r.actor, u}
        /\ PendingFor(u) = {}
        /\ account'[u].admin = (r.role = "ADMIN")

(* Who is left: the one who gains the role is active; when someone loses   *)
(* it, the author, a seeded administrator, stays active in it.             *)
RightlyHeld(c, u) ==
    IF account'[u].admin THEN account'[u].status = "ACTIVE"
    ELSE /\ account[Author(c)].seeded
         /\ account'[Author(c)].admin /\ account'[Author(c)].status = "ACTIVE"

Wished(c, u) == Author(c) # u /\ ActiveAdmin(Author(c)) /\ RightlyHeld(c, u)

RolesAgreed ==
    \A u \in Users :
        account[u].status # "ABSENT" /\ account'[u].admin # account[u].admin =>
            \E c \in Clients : (SecondWord(c, u) \/ LoneWord(c, u)) /\ Wished(c, u)

(* The two-person rule (admin.service.ts), whatever became of the author,  *)
(* the account and the decider since the request: a role changes only by   *)
(* the wish of an active administrator who is not the account's owner, and *)
(* with the approval of a second one who is neither, or alone as LoneWord  *)
(* says.  Who gains the role is active; when someone loses it, a seeded    *)
(* administrator stays active in it.                                       *)
TwoPersonRule == [][RolesAgreed]_userVars

(* A browser is told that its token was reused only if a token that was    *)
(* issued never reached it: tabs that refresh, sign in and sign out at     *)
(* once never present a rotated cookie by themselves.                      *)
NoFalseReuse ==
    (\E t \in Tabs : Wire(t) \in reusedBy) => astray > 0

(* After a sign-out during no refresh the cookie left in a shared          *)
(* computer's browser opens no session, unless the browser still knows     *)
(* that it must finish the sign-out.                                       *)
SignOutSticks == left = "OUT" /\ ~pending => ~Live(jar)

(* Once every tab has heard of a sign-out none shows the account, until    *)
(* someone signs in, or a tab presents the cookie that a refresh under way *)
(* at the sign-out brought: the late answer itself signs no tab in again.  *)
SignedOutStays ==
    \A t \in Tabs : left # "IN" /\ told = {} /\ tab[t].user # NoUser =>
        \E s \in Tabs : tab[s].form = "SIGNING_OUT"

(* What rested on an old password, or on an account since suspended, works *)
(* no more: no session, no re-verification and no link, whatever was under *)
(* way when the password or the account changed.                           *)
OldCredentialsEnd == PasswordEndsSessions /\ BarredHaveNoSession /\ LinksCurrent

(* A sign-in's tokens form one chain with at most one usable end, and a    *)
(* sign-out or a reuse ends the chain for good.                            *)
FamiliesSound == OneCurrentToken /\ DeadFamilies

(* The tabs of a browser are signed out when they should be, and only      *)
(* then, however their refreshes, sign-ins and sign-outs interleave.       *)
BrowserSound == NoFalseReuse /\ SignOutSticks /\ SignedOutStays
=============================================================================
