--------------------------- MODULE MCUserService ---------------------------
(* Three accounts, two clients and two tabs.  Each scenario is a few       *)
(* requests on tables the service reaches, made in any order.              *)
EXTENDS UserService, TLC

CONSTANTS ada, bea, sam, c1, c2, t1, t2

MCUsers == {ada, bea, sam}
MCClients == {c1, c2}
MCTabs == {t1, t2}

Kinds == {"REGISTER", "RESEND", "RESET", "SEED", "EXPIRE", "LINK", "LOGIN", "REFRESH", "LOGOUT",
          "CHANGE", "STEP_UP", "SUSPEND", "REACTIVATE", "READ", "ROLE", "APPROVE", "REJECT",
          "TAB_REFRESH", "TAB_LOGIN", "TAB_LOGOUT", "LOSE", "FAIL"}

Budget(f) == f @@ [k \in Kinds |-> 0]

Student == [status |-> "ACTIVE", password |-> 1, mustChange |-> FALSE, admin |-> FALSE,
            seeded |-> FALSE]
Admin == [Student EXCEPT !.admin = TRUE]
Seeded == [Admin EXCEPT !.seeded = TRUE]

Scenario(accounts, sessions, requests) ==
    [accounts |-> accounts, sessions |-> sessions, budget |-> Budget(requests)]

Barred == [Student EXCEPT !.status = "SUSPENDED"]
Alone == (sam :> Student) @@ [u \in MCUsers |-> Barred]

(* An address registers, or is configured as an administrator's.           *)
Registering == Scenario((ada :> Absent) @@ [u \in MCUsers |-> Barred], <<>>,
    "REGISTER" :> 2 @@ "RESEND" :> 1 @@ "RESET" :> 1 @@ "LINK" :> 2 @@ "EXPIRE" :> 1
    @@ "SEED" :> 1)

(* Reset links, a password change and a sign-in.                           *)
Resetting == Scenario(Alone, <<NewSession(sam, 1, 1, 0)>>,
    "RESET" :> 2 @@ "LINK" :> 2 @@ "EXPIRE" :> 1 @@ "CHANGE" :> 1 @@ "LOGIN" :> 1
    @@ "REFRESH" :> 1)

(* One sign-in used from two places.                                       *)
SigningIn == Scenario(Alone, <<NewSession(sam, 1, 1, 0)>>,
    "REFRESH" :> 3 @@ "LOGOUT" :> 1 @@ "CHANGE" :> 1 @@ "STEP_UP" :> 1
    @@ "EXPIRE" :> 1)

Staff == (ada :> Seeded) @@ (bea :> Admin) @@ (sam :> Student)
StaffSessions == <<NewSession(ada, 1, 1, 1), NewSession(bea, 1, 2, 1), NewSession(sam, 1, 3, 0)>>

(* Two administrators suspend, also each other and the student.            *)
Suspending == Scenario(Staff, StaffSessions,
    "SUSPEND" :> 2 @@ "REACTIVATE" :> 1 @@ "REFRESH" :> 1 @@ "LOGIN" :> 1)

(* They change roles under the two-person rule.                            *)
Roles == Scenario(Staff, StaffSessions,
    "ROLE" :> 2 @@ "APPROVE" :> 1 @@ "REJECT" :> 1 @@ "SUSPEND" :> 1 @@ "EXPIRE" :> 1)

(* One administrator acts alone.                                           *)
Sole == Scenario((ada :> Seeded) @@ (bea :> Student) @@ (sam :> Student),
    <<NewSession(ada, 1, 1, 1)>>, "ROLE" :> 2 @@ "STEP_UP" :> 1 @@ "EXPIRE" :> 1 @@ "READ" :> 1
    @@ "FAIL" :> 1)

(* Two administrators and nobody else: each is the other's only approver,  *)
(* so each may act alone on the other, also while being suspended by it.   *)
Rivals == Scenario((ada :> Seeded) @@ (bea :> Seeded) @@ (sam :> Student),
    <<NewSession(ada, 1, 1, 1), NewSession(bea, 1, 2, 1)>>, "ROLE" :> 2 @@ "SUSPEND" :> 1)

(* Three, of whom one loses the role while a request about another waits.  *)
Council == Scenario((ada :> Seeded) @@ (bea :> Admin) @@ (sam :> Admin), StaffSessions,
    "ROLE" :> 3 @@ "APPROVE" :> 1)

(* Two tabs, with and without a lost answer.                               *)
Browser == Scenario(Alone, <<>>,
    "TAB_LOGIN" :> 2 @@ "TAB_REFRESH" :> 3 @@ "TAB_LOGOUT" :> 1)
FlakyBrowser == Scenario(Alone, <<>>,
    "TAB_LOGIN" :> 1 @@ "TAB_REFRESH" :> 2 @@ "TAB_LOGOUT" :> 2 @@ "LOSE" :> 1)

(* A tab in use while the password is reset from another browser.          *)
Elsewhere == Scenario(Alone, <<>>,
    "TAB_LOGIN" :> 1 @@ "TAB_REFRESH" :> 1 @@ "RESET" :> 1 @@ "LINK" :> 1)

MCScenarios ==
    {Registering, Resetting, SigningIn, Suspending, Roles, Sole, Rivals, Council, Browser,
     FlakyBrowser, Elsewhere}

CallerSymmetry == Permutations(MCClients) \cup Permutations(MCTabs)
=============================================================================
