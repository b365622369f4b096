------------------------------ MODULE Sessions ------------------------------
(***************************************************************************)
(* sessions.service.ts and sessions.repository.ts: signing in, rotating    *)
(* the refresh token, changing the password, re-entering it and signing    *)
(* out.  A session is a row of its family; each refresh adds one.          *)
(***************************************************************************)
EXTENDS Accounts

(* under is the password version the sign-in was verified against.         *)
NewSession(u, hash, family, stepped) ==
    [user |-> u, family |-> family, expires |-> family, under |-> hash,
     rotated |-> FALSE, revoked |-> FALSE, stepped |-> stepped]

(* verifyCredentials, for login: the password is the account's present     *)
(* one and the account is active.  A flagged account gets no session.      *)
Login(c, u) ==
    /\ request[c] = Idle /\ Spend("LOGIN")
    /\ account[u].password # 0 /\ account[u].status = "ACTIVE" /\ ~account[u].mustChange
    /\ Enter(c, [Idle EXCEPT !.kind = "LOGIN", !.phase = "VERIFIED",
                             !.user = u, !.hash = account[u].password])
    /\ UNCHANGED <<accountVars, sessionVars, astray>>

(* Mutant: the account is not looked at again after Argon2.                *)
MutantLoginable(u, hash) == TRUE

Loginable(u, hash) ==
    account[u].password = hash /\ account[u].status = "ACTIVE" /\ ~account[u].mustChange

(* insertIfLoginable                                                       *)
StartSession(c) ==
    LET r == request[c]
    IN  /\ r.kind = "LOGIN" /\ RowFree(r.user, c)
        /\ session' = IF Loginable(r.user, r.hash)
                      THEN Append(session, NewSession(r.user, r.hash, Len(session) + 1, 0))
                      ELSE session
        /\ Done(c)
        /\ UNCHANGED <<accountVars, over, dead, escaped, reusedBy, astray, budget>>

-----------------------------------------------------------------------------
(* refresh: what the locked row says.                                      *)
RefreshOutcome(i) ==
    LET s == session[i] IN
    IF s.rotated THEN "REUSED"
    ELSE IF s.revoked \/ s.expires \in over THEN "INVALID"
    ELSE IF account[s.user].status # "ACTIVE" \/ account[s.user].mustChange THEN "INACTIVE"
    ELSE "OK"

(* lockByHash with the token of row i, whoever presents it.                *)
LockByHash(c, i) ==
    LET r == [Idle EXCEPT !.kind = "REFRESH", !.phase = "ROTATING",
                          !.user = session[i].user, !.row = i]
    IN  /\ SessionFree(i, c)
        /\ CASE RefreshOutcome(i) = "OK" -> Enter(c, r)
             [] RefreshOutcome(i) \in {"REUSED", "INACTIVE"} ->
                   Enter(c, RevokeFamily(r, session[i].family))
             [] OTHER -> Done(c)

Refresh(c, i) ==
    /\ request[c] = Idle /\ Spend("REFRESH")
    /\ LockByHash(c, i)
    /\ UNCHANGED <<accountVars, sessionVars, astray>>

(* The row that continues row i: the same sign-in and re-entered password. *)
Continuation(i) == [session[i] EXCEPT !.rotated = FALSE]

(* markRotated, rotate and the commit.  The transaction has not looked at  *)
(* row i again, which it has locked.                                       *)
Rotate(c) ==
    LET r == request[c]
    IN  /\ r.kind = "REFRESH" /\ r.phase = "ROTATING"
        /\ KeyShareFree(r.user, c)
        /\ session' = Append([session EXCEPT ![r.row].rotated = TRUE], Continuation(r.row))

RefreshCommits(c) ==
    /\ Rotate(c)
    /\ Done(c)
    /\ astray' = astray + 1
    /\ UNCHANGED <<accountVars, over, dead, escaped, reusedBy, budget>>

(* logout: one statement.                                                  *)
Logout(c, i) ==
    /\ request[c] = Idle /\ Spend("LOGOUT")
    /\ Enter(c, RevokeFamily([Idle EXCEPT !.kind = "LOGOUT", !.user = session[i].user,
                                          !.row = i], session[i].family))
    /\ UNCHANGED <<accountVars, sessionVars, astray>>

AfterRevocation(c) == Revoked(ToRevoke(c))

(* The UPDATE of a logout, or of a refresh that found its token reused or  *)
(* its account barred, gets its rows and commits.                          *)
FamilyRevoked(c) ==
    LET r == request[c]
    IN  /\ r.kind \in {"LOGOUT", "REFRESH"} /\ Revoking(c) /\ Revocable(c)
        /\ session' = AfterRevocation(c)
        /\ escaped' = Escaped(c)
        /\ dead' = dead \cup {r.family}
        /\ reusedBy' = IF r.kind = "REFRESH" /\ session[r.row].rotated
                       THEN reusedBy \cup {c} ELSE reusedBy

RevokeCommits(c) ==
    /\ FamilyRevoked(c)
    /\ Done(c)
    /\ UNCHANGED <<accountVars, over, astray, budget>>

-----------------------------------------------------------------------------
(* changePassword verifies the present password, hashes the new one ...    *)
ChangePassword(c, u) ==
    /\ request[c] = Idle /\ Spend("CHANGE")
    /\ account[u].password # 0 /\ account[u].status = "ACTIVE"
    /\ Enter(c, [Idle EXCEPT !.kind = "CHANGE", !.phase = "VERIFIED",
                             !.user = u, !.hash = account[u].password])
    /\ UNCHANGED <<accountVars, sessionVars, astray>>

(* ... replaces the one it verified, unless another change came first ...  *)
ReplacePassword(c) ==
    LET r == request[c]
    IN  /\ r.kind = "CHANGE" /\ r.phase = "VERIFIED" /\ RowFree(r.user, c)
        /\ IF account[r.user].password = r.hash
           THEN Enter(c, RevokeUser(r, {r.user}, FALSE)) ELSE Done(c)
        /\ UNCHANGED <<accountVars, sessionVars, astray, budget>>

WithoutResets(u) == links \ UnconsumedOf(u, {"RESET"})

(* ... and ends every session and unused reset link with it.               *)
ChangeCommits(c) ==
    LET u == request[c].user
    IN  /\ request[c].kind = "CHANGE" /\ Revoking(c) /\ Revocable(c)
        /\ account' = [account EXCEPT ![u].password = @ + 1, ![u].mustChange = FALSE]
        /\ session' = Revoked(ToRevoke(c))
        /\ escaped' = Escaped(c)
        /\ links' = WithoutResets(u)
        /\ Done(c)
        /\ UNCHANGED <<issued, activations, over, dead, reusedBy, astray, budget>>

(* stepUp: the guard, the hash and Argon2 ...                              *)
StepUp(c, i) ==
    /\ request[c] = Idle /\ Spend("STEP_UP")
    /\ Authenticated(i)
    /\ Enter(c, [Idle EXCEPT !.kind = "STEP_UP", !.phase = "VERIFIED", !.row = i,
                             !.user = session[i].user, !.hash = account[session[i].user].password])
    /\ UNCHANGED <<accountVars, sessionVars, astray>>

MayMark(i) == ~session[i].revoked

(* ... and markSteppedUp on the caller's own session, if it still lives.   *)
MarkSteppedUp(c) ==
    LET r == request[c]
    IN  /\ r.kind = "STEP_UP" /\ SessionFree(r.row, c)
        /\ session' = IF MayMark(r.row) THEN [session EXCEPT ![r.row].stepped = r.hash]
                                        ELSE session
        /\ Done(c)
        /\ UNCHANGED <<accountVars, over, dead, escaped, reusedBy, astray, budget>>

(* A re-entered password counts for a few minutes, a sign-in for seven     *)
(* days.                                                                   *)
StepUpLapses(i) ==
    /\ Spend("EXPIRE")
    /\ session[i].stepped # 0
    /\ session' = [session EXCEPT ![i].stepped = 0]
    /\ UNCHANGED <<accountVars, over, dead, escaped, reusedBy, request, astray>>

SignInExpires(i) ==
    /\ Spend("EXPIRE")
    /\ session[i].family \notin over
    /\ over' = over \cup {session[i].family}
    /\ UNCHANGED <<accountVars, session, dead, escaped, reusedBy, request, astray>>

SessionsNext ==
    \/ \E c \in Clients :
          \/ \E u \in Users : Login(c, u) \/ ChangePassword(c, u)
          \/ \E i \in DOMAIN session : Refresh(c, i) \/ Logout(c, i) \/ StepUp(c, i)
          \/ StartSession(c) \/ RefreshCommits(c) \/ RevokeCommits(c)
          \/ ReplacePassword(c) \/ ChangeCommits(c) \/ MarkSteppedUp(c)
    \/ \E i \in DOMAIN session : SignInExpires(i) \/ StepUpLapses(i)
=============================================================================
