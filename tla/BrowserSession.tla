--------------------------- MODULE BrowserSession ---------------------------
(***************************************************************************)
(* web-app/src/lib/session.ts and auth.tsx: the tabs of one browser share  *)
(* a cookie, a "logout pending" flag, a lock around the refresh and a      *)
(* channel, and each keeps the access token it was given last.             *)
(***************************************************************************)
EXTENDS Sessions

CONSTANT NoTab

ASSUME BrowserAssumption == NoTab \notin Tabs

VARIABLES
    jar,        \* the refresh cookie: a session row, or 0
    pending,    \* the "logout pending" flag
    lock,       \* the tab that holds the refresh lock
    tab,        \* per tab: the account it shows, its epoch, what it is doing
    answer,     \* per connection: the answer on its way
    told,       \* tabs that a sign-out message is on its way to
    left        \* whether the student signed out last, and if a refresh was under way

browserVars == <<jar, pending, lock, tab, answer, told, left>>

NoAnswer == [kind |-> "NONE", row |-> 0]
Answer(kind, i) == [kind |-> kind, row |-> i]
Wire(t) == <<t, "REFRESH">>
Form(t) == <<t, "FORM">>

BrowserInit ==
    /\ jar = 0 /\ pending = FALSE /\ lock = NoTab /\ told = {} /\ left = "IN"
    /\ tab = [t \in Tabs |-> [user |-> NoUser, epoch |-> 0, doing |-> "NOTHING",
                              since |-> 0, form |-> "NOTHING"]]
    /\ answer = [k \in Callers |-> NoAnswer]

Reply(k, a) == answer' = [answer EXCEPT ![k] = a]

-----------------------------------------------------------------------------
(* refresh: on a cold load, a retry, or a 401.  One per tab is in flight.  *)
TabRefresh(t) ==
    /\ tab[t].doing = "NOTHING" /\ request[Wire(t)] = Idle /\ answer[Wire(t)] = NoAnswer
    /\ Spend("TAB_REFRESH")
    /\ tab' = [tab EXCEPT ![t].doing = "QUEUED", ![t].since = tab[t].epoch]
    /\ UNCHANGED <<accountVars, sessionVars, request, astray, jar, pending, lock, answer, told, left>>

(* Mutant: refreshes of different tabs are not serialised.                 *)
MutantMayLock(t) == TRUE

MayLock(t) == lock = NoTab

(* rotate, with the lock: a sign-out that never arrived is finished first; *)
(* otherwise the cookie is presented.                                      *)
Rotates(t) ==
    /\ tab[t].doing = "QUEUED" /\ MayLock(t)
    /\ lock' = t
    /\ tab' = [tab EXCEPT ![t].doing = IF pending THEN "REVOKING" ELSE "ROTATING"]
    /\ IF jar = 0
       THEN Reply(Wire(t), Answer(IF pending THEN "DONE" ELSE "REFUSED", 0)) /\ UNCHANGED request
       ELSE IF pending
            THEN /\ Enter(Wire(t), RevokeFamily([Idle EXCEPT !.kind = "LOGOUT", !.row = jar,
                                                     !.user = session[jar].user],
                                                session[jar].family))
                 /\ UNCHANGED answer
            ELSE /\ LockByHash(Wire(t), jar)
                 /\ IF RefreshOutcome(jar) = "INVALID"
                    THEN Reply(Wire(t), Answer("REFUSED", 0)) ELSE UNCHANGED answer
    /\ left' = IF left = "OVERLAPPED" /\ ~pending /\ Live(jar) THEN "IN" ELSE left
    /\ UNCHANGED <<accountVars, sessionVars, astray, budget, jar, pending, told>>

(* The service finishes a tab's request.  Nobody waits any more for the    *)
(* answer to a request the tab has given up.                               *)
Waiting(t) == tab[t].doing \in {"ROTATING", "REVOKING"}

ServeRotation(t) ==
    /\ Rotate(Wire(t))
    /\ Done(Wire(t))
    /\ IF Waiting(t) THEN Reply(Wire(t), Answer("OK", Len(session) + 1)) /\ UNCHANGED astray
                     ELSE UNCHANGED answer /\ astray' = astray + 1
    /\ UNCHANGED <<accountVars, over, dead, escaped, reusedBy, budget, jar, pending, lock, tab, told, left>>

ServeRevocation(t) ==
    /\ FamilyRevoked(Wire(t))
    /\ Done(Wire(t))
    /\ IF Waiting(t)
       THEN Reply(Wire(t), Answer(IF request[Wire(t)].kind = "LOGOUT" THEN "DONE" ELSE "REFUSED", 0))
       ELSE UNCHANGED answer
    /\ UNCHANGED <<accountVars, over, astray, budget, jar, pending, lock, tab, told, left>>

Signed(t, u) == [tab[t] EXCEPT !.user = u, !.doing = "NOTHING"]
Ended(t) == [tab[t] EXCEPT !.user = NoUser, !.epoch = @ + 1, !.doing = "NOTHING"]

(* What the tab makes of the answer.  A sign-in or sign-out since the      *)
(* refresh began is the newer truth.                                       *)
AfterRefresh(t, a) ==
    IF tab[t].epoch # tab[t].since THEN Signed(t, tab[t].user)
    ELSE IF a.kind = "OK" THEN Signed(t, session[a.row].user)
    ELSE Ended(t)

(* The cookie is set or cleared by the answer itself.                      *)
TabRefreshed(t) ==
    LET a == answer[Wire(t)]
    IN  /\ Waiting(t) /\ a # NoAnswer
        /\ jar' = a.row
        /\ pending' = IF a.kind = "DONE" THEN FALSE ELSE pending
        /\ tab' = [tab EXCEPT ![t] = AfterRefresh(t, a)]
        /\ lock' = NoTab
        /\ Reply(Wire(t), NoAnswer)
        /\ UNCHANGED <<accountVars, sessionVars, request, astray, budget, told, left>>

(* No answer: the request or the answer was lost, or it took too long and  *)
(* the service may still be at it.  The session is left alone, unless it   *)
(* was to be ended.                                                        *)
TabGivesUp(t) ==
    LET a == answer[Wire(t)]
    IN  /\ Waiting(t) /\ Spend("LOSE")
        /\ tab' = [tab EXCEPT ![t] = IF tab[t].doing = "REVOKING" /\ tab[t].epoch = tab[t].since
                                     THEN Ended(t) ELSE Signed(t, tab[t].user)]
        /\ lock' = NoTab
        /\ Reply(Wire(t), NoAnswer)
        /\ astray' = IF a.kind = "OK" THEN astray + 1 ELSE astray
        /\ UNCHANGED <<accountVars, sessionVars, request, jar, pending, told, left>>

-----------------------------------------------------------------------------
TabLogin(t, u) ==
    /\ tab[t].form = "NOTHING" /\ tab[t].user = NoUser /\ request[Form(t)] = Idle
    /\ Spend("TAB_LOGIN")
    /\ Loginable(u, account[u].password)
    /\ Enter(Form(t), [Idle EXCEPT !.kind = "LOGIN", !.phase = "VERIFIED",
                                   !.user = u, !.hash = account[u].password])
    /\ tab' = [tab EXCEPT ![t].form = "SIGNING_IN"]
    /\ UNCHANGED <<accountVars, sessionVars, astray, jar, pending, lock, answer, told, left>>

ServeLogin(t) ==
    LET r == request[Form(t)]
        ok == Loginable(r.user, r.hash)
    IN  /\ r.kind = "LOGIN" /\ RowFree(r.user, Form(t))
        /\ session' = IF ok THEN Append(session, NewSession(r.user, r.hash, Len(session) + 1, 0))
                            ELSE session
        /\ IF tab[t].form = "SIGNING_IN"
           THEN Reply(Form(t), Answer(IF ok THEN "OK" ELSE "REFUSED", IF ok THEN Len(session) + 1 ELSE 0))
           ELSE UNCHANGED answer
        /\ Done(Form(t))
        /\ UNCHANGED <<accountVars, over, dead, escaped, reusedBy, astray, budget,
                       jar, pending, lock, tab, told, left>>

(* login: the cookie of the new session replaces any other.                *)
TabSignedIn(t) ==
    LET a == answer[Form(t)]
    IN  /\ tab[t].form = "SIGNING_IN" /\ a.kind = "OK"
        /\ Reply(Form(t), NoAnswer)
        /\ jar' = a.row /\ pending' = FALSE /\ left' = "IN"
        /\ tab' = [tab EXCEPT ![t].user = session[a.row].user, ![t].epoch = @ + 1,
                              ![t].form = "NOTHING"]
        /\ UNCHANGED <<accountVars, sessionVars, request, astray, budget, lock, told>>

(* The sign-in was refused, or not answered in time.                       *)
TabSignInFails(t) ==
    /\ tab[t].form = "SIGNING_IN"
    /\ IF answer[Form(t)].kind = "REFUSED" THEN UNCHANGED budget ELSE Spend("LOSE")
    /\ Reply(Form(t), NoAnswer)
    /\ tab' = [tab EXCEPT ![t].form = "NOTHING"]
    /\ UNCHANGED <<accountVars, sessionVars, request, astray, jar, pending, lock, told, left>>

(* The sign-out request, with whatever cookie there is.                    *)
AskLogout(t, doing) ==
    /\ tab[t].form = "NOTHING" /\ request[Form(t)] = Idle
    /\ Spend("TAB_LOGOUT")
    /\ tab' = [tab EXCEPT ![t].form = doing]
    /\ IF jar = 0
       THEN Reply(Form(t), Answer("DONE", 0)) /\ UNCHANGED request
       ELSE /\ Enter(Form(t), RevokeFamily([Idle EXCEPT !.kind = "LOGOUT", !.row = jar,
                                                !.user = session[jar].user],
                                           session[jar].family))
            /\ UNCHANGED answer
    /\ UNCHANGED <<accountVars, sessionVars, astray, jar, lock, told>>

(* logout: the flag first, then the service.                               *)
TabLogout(t) ==
    /\ tab[t].user # NoUser
    /\ pending' = TRUE
    /\ left' = IF \E u \in Tabs : Waiting(u) THEN "OVERLAPPED" ELSE "OUT"
    /\ AskLogout(t, "SIGNING_OUT")

RetryLogout(t) ==
    /\ pending
    /\ AskLogout(t, "RETRYING")
    /\ UNCHANGED <<pending, left>>

ServeLogout(t) ==
    /\ FamilyRevoked(Form(t))
    /\ Done(Form(t))
    /\ IF tab[t].form \in {"SIGNING_OUT", "RETRYING"}
       THEN Reply(Form(t), Answer("DONE", 0)) ELSE UNCHANGED answer
    /\ UNCHANGED <<accountVars, over, astray, budget, jar, pending, lock, tab, told, left>>

FlagAfter(done) == IF done THEN FALSE ELSE pending

(* A sign-out ends here and in the other tabs, answered or not; a retry    *)
(* only settles the flag.                                                  *)
SignsOut(t, done) ==
    LET out == tab[t].form = "SIGNING_OUT"
    IN  /\ tab[t].form \in {"SIGNING_OUT", "RETRYING"}
        /\ jar' = IF done THEN 0 ELSE jar
        /\ pending' = FlagAfter(done)
        /\ tab' = [tab EXCEPT ![t].user = IF out THEN NoUser ELSE @,
                              ![t].epoch = IF out THEN @ + 1 ELSE @, ![t].form = "NOTHING"]
        /\ told' = IF out THEN told \cup (Tabs \ {t}) ELSE told
        /\ Reply(Form(t), NoAnswer)
        /\ UNCHANGED <<accountVars, sessionVars, request, astray, lock, left>>

TabSignedOut(t) == answer[Form(t)].kind = "DONE" /\ SignsOut(t, TRUE) /\ UNCHANGED budget

TabSignOutFails(t) == Spend("LOSE") /\ SignsOut(t, FALSE)

(* connect: a tab hears that another signed out.                           *)
TabTold(t) ==
    /\ t \in told
    /\ told' = told \ {t}
    /\ tab' = [tab EXCEPT ![t].user = NoUser, ![t].epoch = @ + 1]
    /\ UNCHANGED <<accountVars, sessionVars, request, astray, budget, jar, pending, lock, answer, left>>

BrowserNext ==
    \E t \in Tabs :
        \/ TabRefresh(t) \/ Rotates(t) \/ ServeRotation(t) \/ ServeRevocation(t)
        \/ TabRefreshed(t) \/ TabGivesUp(t)
        \/ \E u \in Users : TabLogin(t, u)
        \/ ServeLogin(t) \/ TabSignedIn(t) \/ TabSignInFails(t)
        \/ TabLogout(t) \/ RetryLogout(t) \/ ServeLogout(t) \/ TabSignedOut(t) \/ TabSignOutFails(t)
        \/ TabTold(t)
=============================================================================
