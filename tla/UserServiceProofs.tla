------------------------- MODULE UserServiceProofs --------------------------
(***************************************************************************)
(* Proofs about the User Service, for any accounts, callers, tabs and      *)
(* limits: what the tables promise about credentials holds however the     *)
(* requests interleave.                                                    *)
(***************************************************************************)
EXTENDS UserService, TLAPS

-----------------------------------------------------------------------------
(* The inductive invariant.                                                *)

(* What a request holds between two of its steps.                          *)
Demands == {"IDLE", "LINK", "LOGIN", "REFRESH", "LOGOUT", "CHANGE", "STEP_UP", "SUSPEND",
            "REACTIVATE", "READ", "ROLE", "APPROVE", "REJECT", "ALERT"}
Phases == {"IDLE", "HASHING", "VERIFIED", "ROTATING", "REVOKING", "GUARDED", "WAITING", "COUNTED"}
RolesAsked == {"NONE", "ADMIN", "STUDENT", "SUSPENSION_LIMIT_REACHED", "BULK_SUSPENSIONS"}
Roles == {"ADMIN", "STUDENT"}

Request == [kind : Demands, phase : Phases, user : Users \cup {NoUser},
            actor : Users \cup {NoUser}, hash : Nat, row : Nat, link : Nat, role : RolesAsked,
            locks : SUBSET Users, keyLock : BOOLEAN, family : Nat, rows : SUBSET Nat,
            holders : SUBSET Users]

Link == [id : Nat, user : Users, kind : {"ACTIVATION", "RESET"}, under : Nat, expired : BOOLEAN]

RoleRow == [target : Users, role : Roles, by : Users,
            status : {"PENDING", "EXPIRED", "APPROVED", "REJECTED"}, lapsed : BOOLEAN]

TableTypes ==
    /\ account \in [Users -> AccountRows] /\ activations \in [Users -> Nat]
    /\ session \in Seq(SessionRows) /\ links \subseteq Link /\ issued \in Nat
    /\ suspensions \in [Users -> Nat]

RequestTypes == request \in [Callers -> Request]

(* An account that was ever active has a password and one activation; one  *)
(* that waits for activation holds no role.                                *)
AccountFits(u) ==
    LET been == account[u].status \in {"ACTIVE", "SUSPENDED"}
    IN  /\ (account[u].password # 0) = been
        /\ activations[u] = IF been THEN 1 ELSE 0
        /\ account[u].status = "PENDING_ACTIVATION" => ~account[u].admin

AccountsFit == \A u \in Users : AccountFits(u)

(* A family is named after its first row, and ends with its sign-in.       *)
FamiliesNamed ==
    /\ \A i \in DOMAIN session : session[i].family \in 1 .. i /\ session[i].expires = session[i].family
    /\ dead \subseteq DOMAIN session

OneUnrotated ==
    \A i, j \in DOMAIN session :
        session[i].family = session[j].family /\ ~session[i].rotated /\ ~session[j].rotated => i = j

SessionsFit ==
    /\ FamiliesNamed /\ OneUnrotated /\ DeadFamilies
    /\ PasswordEndsSessions /\ BarredHaveNoSession

LinksFit == LinksCurrent /\ \A l \in links : account[l.user].status # "ABSENT"

-----------------------------------------------------------------------------
(* What a request has read, locked or decided is still so when it goes on. *)

(* A refresh has locked its row: nobody else rotates it.                   *)
RefreshFits(r) ==
    r.kind = "REFRESH" =>
        /\ r.row \in DOMAIN session /\ r.user = session[r.row].user /\ r.locks = {}
        /\ r.phase \in {"ROTATING", "REVOKING"}
        /\ r.phase = "ROTATING" => ~session[r.row].rotated
        /\ r.phase = "REVOKING" => r.family = session[r.row].family

LogoutFits(r) ==
    r.kind = "LOGOUT" =>
        r.row \in DOMAIN session /\ r.family = session[r.row].family /\ r.locks = {}

(* The password verified is the present one while the session counts.      *)
StepUpFits(r) ==
    r.kind = "STEP_UP" =>
        /\ r.row \in DOMAIN session /\ r.user = session[r.row].user
        /\ ~session[r.row].revoked /\ session[r.row].family \notin escaped =>
              r.hash = account[r.user].password

LinkFits(r) ==
    r.kind = "LINK" =>
        /\ r.user \in Users /\ account[r.user].status # "ABSENT" /\ r.family = 0
        /\ r.phase = "REVOKING" => r.locks = {r.user}

ChangeFits(r) ==
    r.kind = "CHANGE" =>
        /\ r.user \in Users /\ account[r.user].password # 0 /\ r.family = 0
        /\ r.phase = "REVOKING" => r.locks = {r.user}

(* A suspension that has passed its checks: both accounts are locked and   *)
(* active, the limit is not reached, and no session of the target escapes. *)
SuspendFits(r) ==
    r.kind = "SUSPEND" =>
        /\ r.user \in Users /\ r.actor \in Users /\ r.family = 0
        /\ r.phase = "REVOKING" =>
              /\ r.locks = {r.actor, r.user} /\ r.keyLock
              /\ account[r.user].status = "ACTIVE" /\ account[r.actor].status = "ACTIVE"
              /\ suspensions[r.actor] < SuspensionsLimit
              /\ OfUser(r.user) \subseteq r.rows

(* The other requests revoke nothing.                                      *)
OtherFits(r) ==
    r.kind \notin {"REFRESH", "LOGOUT", "LINK", "CHANGE", "SUSPEND"} =>
        /\ r.phase # "REVOKING"
        /\ r.kind \in {"LOGIN", "REACTIVATE", "ROLE"} => r.user \in Users
        /\ r.kind = "ROLE" => r.role \in Roles /\ r.actor \in Users

RequestFits(r) ==
    /\ RefreshFits(r) /\ LogoutFits(r) /\ StepUpFits(r) /\ LinkFits(r) /\ ChangeFits(r)
    /\ SuspendFits(r) /\ OtherFits(r)

RequestsFit == \A c \in Callers : RequestFits(request[c])

(* No two transactions hold an account row, and no two refreshes a session *)
(* row.                                                                    *)
LocksExclusive ==
    \A c, d \in Callers :
        c # d =>
            /\ Revoking(c) /\ Revoking(d) => request[c].locks \cap request[d].locks = {}
            /\ request[c].kind = "REFRESH" /\ request[d].kind = "REFRESH" =>
                  request[c].row # request[d].row

WithinLimit == \A u \in Users : suspensions[u] <= SuspensionsLimit

TablesInv ==
    /\ TableTypes /\ RequestTypes /\ AccountsFit /\ SessionsFit /\ LinksFit
    /\ RequestsFit /\ LocksExclusive /\ WithinLimit

(* A decision is about a role request that was made, as the trail shows.   *)
RolesFit ==
    /\ roleRequest \in Seq(RoleRow)
    /\ \A q \in DOMAIN roleRequest : AskedFor(q) \in audit
    /\ \A c \in Callers :
          request[c].kind \in {"APPROVE", "REJECT"} => request[c].link \in DOMAIN roleRequest

(* The cookie and the answers on their way to the browser name rows.       *)
Tokens == {0} \cup DOMAIN session

CookiesFit ==
    /\ jar \in Tokens
    /\ answer \in [Callers -> [kind : {"NONE", "OK", "REFUSED", "DONE"}, row : Tokens]]

UserInv == TablesInv /\ RolesFit /\ CookiesFit

-----------------------------------------------------------------------------
(* The kinds of step.  Whatever a caller does to the service is one of     *)
(* these; actions that do the same to the tables are one kind.             *)
tables == <<account, activations, session, dead, escaped, suspensions>>

(* A caller's request moves on, and has locked what it says.               *)
Admits(c, r) ==
    /\ Enter(c, r) /\ r \in Request /\ RequestFits(r)
    /\ r.kind = "REFRESH" => SessionFree(r.row, c)
    /\ r.phase = "REVOKING" => \A u \in r.locks : RowFree(u, c)
    /\ r.kind \in {"APPROVE", "REJECT"} => r.link \in DOMAIN roleRequest

Asks(c) == UNCHANGED <<tables, links, issued>> /\ \E r \in Request : Admits(c, r)

Stands == UNCHANGED <<tables, request, links, issued>>

Mails(u) ==
    /\ \/ Issue(u, "ACTIVATION") /\ account[u].status = "PENDING_ACTIVATION"
       \/ Issue(u, "RESET") /\ Resettable(u)
    /\ UNCHANGED <<tables, request>>

LinkLapses(l) ==
    /\ links' = (links \ {l}) \cup {[l EXCEPT !.expired = TRUE]}
    /\ UNCHANGED <<tables, request, issued>>

Registers(u) ==
    /\ account[u].status \in {"ABSENT", "PENDING_ACTIVATION"}
    /\ account' = [account EXCEPT ![u] = NewUser]
    /\ Issue(u, "ACTIVATION")
    /\ UNCHANGED <<activations, session, dead, escaped, suspensions, request>>

Seeds(u) ==
    /\ account[u].status = "ABSENT"
    /\ account' = [account EXCEPT ![u] =
                      [status |-> "ACTIVE", password |-> 1, mustChange |-> TRUE,
                       admin |-> TRUE, seeded |-> TRUE]]
    /\ activations' = [activations EXCEPT ![u] = @ + 1]
    /\ UNCHANGED <<links, issued, session, dead, escaped, suspensions, request>>

Reinstates(c, u) ==
    /\ account[u].status = "SUSPENDED"
    /\ SetStatus(u, "ACTIVE") /\ Done(c)
    /\ UNCHANGED <<links, issued, activations, session, dead, escaped, suspensions>>

(* An account that is or was active gets or loses the role.                *)
ChangesRole(c, u, role) ==
    /\ account[u].status # "PENDING_ACTIVATION"
    /\ account' = [account EXCEPT ![u] = WithRole(@, role)] /\ Done(c)
    /\ UNCHANGED <<links, issued, activations, session, dead, escaped, suspensions>>

SignsIn(c) ==
    LET r == request[c]
    IN  /\ r.kind = "LOGIN" /\ RowFree(r.user, c) /\ Loginable(r.user, r.hash)
        /\ session' = Append(session, NewSession(r.user, r.hash, Len(session) + 1, 0))
        /\ Done(c)
        /\ UNCHANGED <<links, issued, account, activations, dead, escaped, suspensions>>

Refreshes(c) ==
    /\ Rotate(c) /\ Done(c)
    /\ UNCHANGED <<links, issued, account, activations, dead, escaped, suspensions>>

EndsFamily(c) ==
    /\ FamilyRevoked(c) /\ Done(c)
    /\ UNCHANGED <<links, issued, account, activations, suspensions>>

Marks(c) ==
    /\ request[c].kind = "STEP_UP" /\ MayMark(request[c].row)
    /\ session' = [session EXCEPT ![request[c].row].stepped = request[c].hash]
    /\ Done(c)
    /\ UNCHANGED <<links, issued, account, activations, dead, escaped, suspensions>>

Unmarks(i) ==
    /\ session' = [session EXCEPT ![i].stepped = 0]
    /\ UNCHANGED <<links, issued, account, activations, dead, escaped, suspensions, request>>

SetsPassword(c) == SetPasswordFromEmailedLink(c) /\ UNCHANGED suspensions

ChangesPassword(c) == ChangeCommits(c) /\ UNCHANGED suspensions

UserMove ==
    \/ Stands
    \/ \E c \in Callers :
          \/ Asks(c) \/ SignsIn(c) \/ Refreshes(c) \/ EndsFamily(c) \/ Marks(c)
          \/ SetsPassword(c) \/ ChangesPassword(c) \/ SuspendCommits(c)
          \/ \E u \in Users : Reinstates(c, u) \/ \E role \in RolesAsked : ChangesRole(c, u, role)
    \/ \E u \in Users : Mails(u) \/ Registers(u) \/ Seeds(u)
    \/ \E l \in links : LinkLapses(l)
    \/ \E i \in DOMAIN session : Unmarks(i)

-----------------------------------------------------------------------------
(* No request holds nothing, and expects nothing.                          *)
LEMMA IdleFits == Idle \in Request /\ RequestFits(Idle)
<1>1. Idle.kind = "IDLE" /\ Idle.phase = "IDLE"
  BY DEF Idle
<1>2. Idle \in Request
  <2>1. 0 \in Nat /\ {} \in SUBSET Users /\ {} \in SUBSET Nat
    OBVIOUS
  <2>2. FALSE \in BOOLEAN /\ NoUser \in Users \cup {NoUser}
    OBVIOUS
  <2>3. "IDLE" \in Demands /\ "IDLE" \in Phases /\ "NONE" \in RolesAsked
    BY DEF Demands, Phases, RolesAsked
  <2> QED BY <2>1, <2>2, <2>3, Zenon DEF Idle, Request
<1> QED
  BY <1>1, <1>2 DEF RequestFits, RefreshFits, LogoutFits, StepUpFits, LinkFits, ChangeFits, SuspendFits,
              OtherFits

(* The initial tables satisfy the invariant.                               *)
LEMMA UserInitInv == UserInit => UserInv
<1> SUFFICES ASSUME UserInit PROVE UserInv
  OBVIOUS
<1> PICK s \in Scenarios :
          /\ account = s.accounts /\ session = s.sessions
          /\ links = {} /\ issued = 0 /\ request = [c \in Callers |-> Idle]
          /\ activations = [u \in Users |-> IF s.accounts[u] = Absent THEN 0 ELSE 1]
          /\ dead = {} /\ escaped = {}
  BY DEF UserInit, TablesInit
<1>1. /\ roleRequest = <<>> /\ suspensions = [u \in Users |-> 0]
  BY DEF UserInit, AdminInit
<1>2. /\ account \in [Users -> AccountRows] /\ session \in Seq(SessionRows)
      /\ \A u \in Users :
            \/ account[u] = Absent
            \/ account[u].status \in {"ACTIVE", "SUSPENDED"} /\ account[u].password # 0
  BY ScenarioAssumption
<1>3. \A i \in DOMAIN session :
          /\ session[i].family = i /\ session[i].expires = i /\ ~session[i].rotated
          /\ ~session[i].revoked =>
                /\ account[session[i].user].status = "ACTIVE" /\ ~account[session[i].user].mustChange
                /\ session[i].under = account[session[i].user].password
                /\ session[i].stepped \in {0, account[session[i].user].password}
  <2> DEFINE Fits(accounts, sessions) ==
                 \A i \in DOMAIN sessions :
                     LET row == sessions[i]
                         own == accounts[row.user]
                     IN  /\ row.family = i /\ row.expires = i /\ ~row.rotated
                         /\ ~row.revoked =>
                               /\ own.status = "ACTIVE" /\ ~own.mustChange
                               /\ row.under = own.password /\ row.stepped \in {0, own.password}
  <2>1. Fits(s.accounts, s.sessions)
    BY ZenonT(60), ScenarioAssumption
  <2>2. Fits(account, session)
    <3> HIDE DEF Fits
    <3> QED BY <2>1
  <2> QED BY <2>2
<1>4. TableTypes
  BY <1>1, <1>2 DEF TableTypes
<1>5. RequestTypes
  BY IdleFits DEF RequestTypes
<1>13. RolesFit
  <2>1. Idle.kind = "IDLE"
    BY DEF Idle
  <2> QED BY <1>1, <2>1 DEF RolesFit
<1>14. CookiesFit
  <2>1. jar = 0 /\ answer = [k \in Callers |-> NoAnswer]
    BY DEF UserInit, BrowserInit
  <2> QED BY <2>1 DEF CookiesFit, Tokens, NoAnswer
<1>6. AccountsFit
  <2> SUFFICES ASSUME NEW u \in Users PROVE AccountFits(u)
    BY DEF AccountsFit
  <2>1. Absent.status = "ABSENT" /\ Absent.password = 0
    BY DEF Absent
  <2>2. CASE account[u] = Absent
    BY <2>1, <2>2 DEF AccountFits
  <2>3. CASE account[u].status \in {"ACTIVE", "SUSPENDED"} /\ account[u].password # 0
    <3>1. account[u] # Absent
      BY <2>1, <2>3
    <3> QED BY <2>3, <3>1 DEF AccountFits
  <2> QED BY <1>2, <2>2, <2>3
<1>7. \A i \in DOMAIN session : i \in Nat /\ i >= 1
  BY <1>2
<1>8. SessionsFit
  <2>1. FamiliesNamed
    BY <1>1, <1>3, <1>7 DEF FamiliesNamed
  <2>2. OneUnrotated
    BY SMTT(60), <1>3 DEF OneUnrotated
  <2>3. DeadFamilies
    BY <1>1 DEF DeadFamilies
  <2>4. PasswordEndsSessions
    BY <1>3 DEF PasswordEndsSessions, UnderPassword
  <2>5. BarredHaveNoSession
    BY <1>3 DEF BarredHaveNoSession
  <2> QED BY <2>1, <2>2, <2>3, <2>4, <2>5 DEF SessionsFit
<1>9. LinksFit
  BY DEF LinksFit, LinksCurrent
<1>10. RequestsFit
  BY IdleFits DEF RequestsFit
<1>11. LocksExclusive
  <2>1. Idle.kind = "IDLE" /\ Idle.phase = "IDLE"
    BY DEF Idle
  <2> QED BY <2>1 DEF LocksExclusive, Revoking
<1>12. WithinLimit
  BY <1>1, UserAssumption DEF WithinLimit
<1> QED BY <1>4, <1>5, <1>6, <1>8, <1>9, <1>10, <1>11, <1>12, <1>13, <1>14 DEF UserInv, TablesInv

(* The columns of a session row.                                           *)
LEMMA SessionTyped ==
    ASSUME session \in Seq(SessionRows)
    PROVE  /\ Len(session) \in Nat /\ DOMAIN session = 1 .. Len(session)
           /\ \A i \in DOMAIN session :
                 /\ i \in Nat /\ i # 0 /\ session[i] \in SessionRows /\ session[i].user \in Users
                 /\ session[i].family \in Nat /\ session[i].expires \in Nat /\ session[i].under \in Nat
                 /\ session[i].stepped \in Nat
<1>1. /\ Len(session) \in Nat /\ DOMAIN session = 1 .. Len(session)
      /\ \A i \in DOMAIN session : i \in Nat /\ i # 0 /\ session[i] \in SessionRows
  OBVIOUS
<1>2. \A row \in SessionRows :
          /\ row.user \in Users /\ row.family \in Nat /\ row.expires \in Nat /\ row.under \in Nat
          /\ row.stepped \in Nat
  BY DEF SessionRows
<1> QED BY <1>1, <1>2

-----------------------------------------------------------------------------
(* What a step must leave alone for the requests under way.                *)
Evolves ==
    /\ DOMAIN session \subseteq DOMAIN session' /\ escaped \subseteq escaped'
    /\ \A i \in DOMAIN session :
          /\ session'[i].user = session[i].user /\ session'[i].family = session[i].family
          /\ session[i].revoked => session'[i].revoked
          /\ ~session'[i].revoked /\ session'[i].family \notin escaped' =>
                account'[session[i].user].password = account[session[i].user].password
    /\ \A u \in Users :
          /\ account[u].status # "ABSENT" => account'[u].status # "ABSENT"
          /\ account[u].password # 0 => account'[u].password # 0

(* What it leaves the request of caller d with.                            *)
Leaves(d) ==
    LET r == request[d]
    IN  /\ r.kind = "REFRESH" => session'[r.row].rotated = session[r.row].rotated
        /\ r.kind = "SUSPEND" /\ r.phase = "REVOKING" =>
              /\ account'[r.user].status = account[r.user].status
              /\ account'[r.actor].status = account[r.actor].status
              /\ suspensions'[r.actor] = suspensions[r.actor]
              /\ \A i \in DOMAIN session' :
                    session'[i].user = r.user /\ ~session'[i].revoked => i \in OfUser(r.user)

(* Then what the request relies on is still so.                            *)
LEMMA RequestKept ==
    ASSUME UserInv, Evolves, NEW d \in Callers, Leaves(d), request'[d] = request[d]
    PROVE  RequestFits(request[d])'
<1> DEFINE r == request[d]
<1>1. /\ RequestFits(r) /\ r \in Request
  BY DEF UserInv, TablesInv, RequestsFit, RequestTypes
<1>2. RefreshFits(r)'
  BY <1>1 DEF RequestFits, RefreshFits, Evolves, Leaves
<1>3. LogoutFits(r)'
  BY <1>1 DEF RequestFits, LogoutFits, Evolves
<1>4. StepUpFits(r)'
  BY <1>1 DEF RequestFits, StepUpFits, Evolves
<1>5. LinkFits(r)'
  BY <1>1 DEF RequestFits, LinkFits, Evolves
<1>6. ChangeFits(r)'
  BY <1>1 DEF RequestFits, ChangeFits, Evolves
<1>7. SuspendFits(r)'
  BY <1>1 DEF RequestFits, SuspendFits, Leaves, OfUser
<1>8. OtherFits(r)'
  BY <1>1 DEF RequestFits, OtherFits
<1> QED BY <1>2, <1>3, <1>4, <1>5, <1>6, <1>7, <1>8 DEF RequestFits

(* One caller moves, the others' requests stand.                           *)
LEMMA RequestsKept ==
    ASSUME UserInv, Evolves, NEW c \in Callers, NEW r \in Request, Enter(c, r), RequestFits(r)',
           \A d \in Callers \ {c} : Leaves(d),
           r.kind = "REFRESH" => SessionFree(r.row, c),
           r.phase = "REVOKING" => \A u \in r.locks : RowFree(u, c)
    PROVE  RequestsFit' /\ LocksExclusive' /\ RequestTypes'
<1>1. /\ request \in [Callers -> Request]
      /\ request' = [request EXCEPT ![c] = r]
  BY DEF UserInv, TablesInv, RequestTypes, Enter
<1>2. request' \in [Callers -> Request] /\ request'[c] = r
  BY <1>1
<1>3. \A d \in Callers \ {c} : request'[d] = request[d]
  BY <1>1
<1>4. RequestsFit'
  <2> SUFFICES ASSUME NEW d \in Callers PROVE RequestFits(request[d])'
    BY DEF RequestsFit
  <2>1. CASE d = c
    BY <1>2, <2>1
  <2>2. CASE d # c
    BY <1>3, <2>2, RequestKept
  <2> QED BY <2>1, <2>2
<1>5. ASSUME NEW d \in Callers, d # c
      PROVE  /\ r.phase = "REVOKING" /\ Revoking(d) => r.locks \cap request[d].locks = {}
             /\ r.kind = "REFRESH" /\ request[d].kind = "REFRESH" => r.row # request[d].row
  BY <1>5 DEF RowFree, SessionFree, LockedSession
<1>6. LocksExclusive'
  <2> SUFFICES ASSUME NEW d \in Callers, NEW e \in Callers, d # e
               PROVE  /\ Revoking(d)' /\ Revoking(e)' => request'[d].locks \cap request'[e].locks = {}
                      /\ request'[d].kind = "REFRESH" /\ request'[e].kind = "REFRESH" =>
                            request'[d].row # request'[e].row
    BY DEF LocksExclusive
  <2>1. CASE d # c /\ e # c
    BY <1>3, <2>1 DEF UserInv, TablesInv, LocksExclusive, Revoking
  <2>2. CASE d = c
    BY <1>2, <1>3, <1>5, <2>2 DEF Revoking
  <2>3. CASE e = c
    BY <1>2, <1>3, <1>5, <2>3 DEF Revoking
  <2> QED BY <2>1, <2>2, <2>3
<1> QED BY <1>2, <1>4, <1>6 DEF RequestTypes

(* A caller's request ends, or nobody's moves.                             *)
LEMMA DoneKept ==
    ASSUME UserInv, Evolves, NEW c \in Callers, Done(c), \A d \in Callers \ {c} : Leaves(d)
    PROVE  RequestsFit' /\ LocksExclusive' /\ RequestTypes'
<1>1. Enter(c, Idle)
  BY DEF Done, Enter
<1>2. RequestFits(Idle)'
  <2>1. Idle.kind = "IDLE" /\ Idle.phase = "IDLE"
    BY DEF Idle
  <2> QED
    BY <2>1 DEF RequestFits, RefreshFits, LogoutFits, StepUpFits, LinkFits, ChangeFits, SuspendFits,
                OtherFits
<1>3. Idle.kind # "REFRESH" /\ Idle.phase # "REVOKING"
  BY DEF Idle
<1> QED BY <1>1, <1>2, <1>3, IdleFits, RequestsKept

LEMMA NobodyMoves ==
    ASSUME UserInv, Evolves, UNCHANGED request, \A d \in Callers : Leaves(d)
    PROVE  RequestsFit' /\ LocksExclusive' /\ RequestTypes'
<1>1. RequestsFit'
  BY RequestKept DEF RequestsFit
<1>2. LocksExclusive'
  BY DEF UserInv, TablesInv, LocksExclusive, Revoking
<1> QED BY <1>1, <1>2 DEF UserInv, TablesInv, RequestTypes

-----------------------------------------------------------------------------
(* Steps that leave the tables alone.                                      *)
LEMMA QuietTables ==
    ASSUME UserInv, UNCHANGED tables
    PROVE  /\ Evolves /\ \A d \in Callers : Leaves(d)
           /\ AccountsFit' /\ SessionsFit' /\ WithinLimit'
<1>1. UNCHANGED <<account, activations, session, dead, escaped, suspensions>>
  BY DEF tables
<1>2. Evolves
  BY <1>1 DEF Evolves
<1>3. \A d \in Callers : Leaves(d)
  BY <1>1 DEF Leaves, OfUser
<1>4. AccountsFit' /\ WithinLimit'
  BY <1>1 DEF UserInv, TablesInv, AccountsFit, AccountFits, WithinLimit
<1>5. SessionsFit'
  BY <1>1 DEF UserInv, TablesInv, SessionsFit, FamiliesNamed, OneUnrotated, DeadFamilies,
              PasswordEndsSessions, UnderPassword, BarredHaveNoSession
<1> QED BY <1>2, <1>3, <1>4, <1>5

LEMMA StandsKeeps == ASSUME UserInv, Stands PROVE TablesInv'
<1>1. UNCHANGED tables /\ UNCHANGED <<request, links, issued>>
  BY DEF Stands
<1>2. UNCHANGED <<account, activations, session, suspensions>>
  BY <1>1 DEF tables
<1>3. RequestsFit' /\ LocksExclusive' /\ RequestTypes'
  BY <1>1, QuietTables, NobodyMoves
<1>4. TableTypes' /\ LinksFit'
  BY <1>1, <1>2 DEF UserInv, TablesInv, TableTypes, LinksFit, LinksCurrent
<1> QED BY <1>1, <1>3, <1>4, QuietTables DEF TablesInv

LEMMA AsksKeeps == ASSUME UserInv, NEW c \in Callers, Asks(c) PROVE TablesInv'
<1>1. UNCHANGED tables /\ UNCHANGED <<links, issued>>
  BY DEF Asks
<1>2. UNCHANGED <<account, activations, session, dead, escaped, suspensions>>
  BY <1>1 DEF tables
<1> PICK r \in Request : Admits(c, r)
  BY DEF Asks
<1>3. RequestFits(r)'
  <2>1. RequestFits(r)
    BY DEF Admits
  <2>2. RefreshFits(r)' /\ LogoutFits(r)' /\ StepUpFits(r)'
    BY <1>2, <2>1 DEF RequestFits, RefreshFits, LogoutFits, StepUpFits
  <2>3. LinkFits(r)' /\ ChangeFits(r)' /\ OtherFits(r)'
    BY <1>2, <2>1 DEF RequestFits, LinkFits, ChangeFits, OtherFits
  <2>4. SuspendFits(r)'
    BY <1>2, <2>1 DEF RequestFits, SuspendFits, OfUser
  <2> QED BY <2>2, <2>3, <2>4 DEF RequestFits
<1>4. RequestsFit' /\ LocksExclusive' /\ RequestTypes'
  BY <1>1, <1>3, QuietTables, RequestsKept DEF Admits
<1>5. TableTypes' /\ LinksFit'
  BY <1>1, <1>2 DEF UserInv, TablesInv, TableTypes, LinksFit, LinksCurrent
<1> QED BY <1>1, <1>4, <1>5, QuietTables DEF TablesInv

(* A link replaces the unused one of its kind.                             *)
LEMMA IssueKeeps ==
    ASSUME TableTypes, LinksFit, NEW u \in Users, NEW kind \in {"ACTIVATION", "RESET"}, Issue(u, kind),
           \A v \in Users : /\ account[v].status # "ABSENT" => account'[v].status # "ABSENT"
                            /\ account[v].status = "PENDING_ACTIVATION" => account'[v].status = "PENDING_ACTIVATION"
                            /\ account'[v].password = account[v].password,
           account'[u].status # "ABSENT",
           kind = "ACTIVATION" => account'[u].status = "PENDING_ACTIVATION"
    PROVE  LinksFit' /\ links' \subseteq Link /\ issued' \in Nat
<1> DEFINE new == [id |-> issued + 1, user |-> u, kind |-> kind, under |-> account[u].password,
                   expired |-> FALSE]
<1>1. /\ links' = (links \ UnconsumedOf(u, {kind})) \cup {new} /\ issued' = issued + 1
      /\ links \subseteq Link /\ issued \in Nat /\ account[u].password \in Nat
  BY DEF Issue, TableTypes, AccountRows
<1>2. new \in Link /\ new.user = u /\ new.kind = kind /\ new.under = account[u].password
  BY <1>1 DEF Link
<1> HIDE DEF new
<1>3. \A l \in links' : l = new \/ (l \in links /\ ~(l.user = u /\ l.kind = kind))
  BY <1>1 DEF UnconsumedOf
<1>4. \A l \in links' : l \in Link
  BY <1>1, <1>2, <1>3
<1>5. \A l \in links', m \in links' : m.user = l.user /\ m.kind = l.kind => m = l
  BY <1>2, <1>3 DEF LinksFit, LinksCurrent
<1>6. \A l \in links' : /\ l.kind = "RESET" => l.under = account'[l.user].password
                        /\ l.kind = "ACTIVATION" => account'[l.user].status = "PENDING_ACTIVATION"
                        /\ account'[l.user].status # "ABSENT"
  <2> TAKE l \in links'
  <2>1. CASE l = new
    BY <1>2, <2>1
  <2>2. CASE l # new
    <3>1. l \in links /\ l.user \in Users
      BY <1>1, <1>3, <2>2 DEF Link
    <3> QED BY <3>1 DEF LinksFit, LinksCurrent
  <2> QED BY <2>1, <2>2
<1>7. LinksCurrent'
  BY <1>5, <1>6 DEF LinksCurrent
<1>8. links' \subseteq Link /\ issued' \in Nat
  BY <1>1, <1>4
<1> QED BY <1>6, <1>7, <1>8 DEF LinksFit

LEMMA MailsKeeps == ASSUME UserInv, NEW u \in Users, Mails(u) PROVE TablesInv'
<1>1. UNCHANGED tables /\ UNCHANGED request
  BY DEF Mails
<1>2. UNCHANGED <<account, activations, session, suspensions>>
  BY <1>1 DEF tables
<1>3. RequestsFit' /\ LocksExclusive' /\ RequestTypes'
  BY <1>1, QuietTables, NobodyMoves
<1>4. LinksFit' /\ links' \subseteq Link /\ issued' \in Nat
  <2>1. TableTypes /\ LinksFit
    BY DEF UserInv, TablesInv
  <2>2. CASE Issue(u, "ACTIVATION") /\ account[u].status = "PENDING_ACTIVATION"
    BY <1>2, <2>1, <2>2, IssueKeeps
  <2>3. CASE Issue(u, "RESET") /\ Resettable(u)
    BY <1>2, <2>1, <2>3, IssueKeeps DEF Resettable
  <2> QED BY <2>2, <2>3 DEF Mails
<1>5. TableTypes'
  BY <1>2, <1>4 DEF UserInv, TablesInv, TableTypes
<1> QED BY <1>1, <1>3, <1>4, <1>5, QuietTables DEF TablesInv

LEMMA LinkLapsesKeeps == ASSUME UserInv, NEW l \in links, LinkLapses(l) PROVE TablesInv'
<1>1. UNCHANGED tables /\ UNCHANGED <<request, issued>>
  BY DEF LinkLapses
<1>2. UNCHANGED <<account, activations, session, suspensions>>
  BY <1>1 DEF tables
<1>3. RequestsFit' /\ LocksExclusive' /\ RequestTypes'
  BY <1>1, QuietTables, NobodyMoves
<1> DEFINE old == [l EXCEPT !.expired = TRUE]
<1>4. l \in Link
  BY DEF UserInv, TablesInv, TableTypes
<1>5. old \in Link /\ old.user = l.user /\ old.kind = l.kind /\ old.under = l.under
  BY <1>4 DEF Link
<1>6. links' = (links \ {l}) \cup {old}
  BY DEF LinkLapses
<1> HIDE DEF old
<1>7. LinksFit' /\ links' \subseteq Link
  <2>1. \A m \in links' : m = old \/ (m \in links /\ m # l)
    BY <1>6
  <2>2. LinksFit /\ links \subseteq Link
    BY DEF UserInv, TablesInv, TableTypes
  <2>3. \A m \in links', n \in links' : n.user = m.user /\ n.kind = m.kind => n = m
    BY <1>5, <2>1, <2>2 DEF LinksFit, LinksCurrent
  <2>4. \A m \in links' : /\ m \in Link /\ account'[m.user].status # "ABSENT"
                          /\ m.kind = "RESET" => m.under = account'[m.user].password
                          /\ m.kind = "ACTIVATION" => account'[m.user].status = "PENDING_ACTIVATION"
    BY <1>2, <1>5, <2>1, <2>2 DEF LinksFit, LinksCurrent
  <2> QED BY <2>3, <2>4 DEF LinksFit, LinksCurrent
<1>8. TableTypes'
  BY <1>1, <1>2, <1>7 DEF UserInv, TablesInv, TableTypes
<1> QED BY <1>1, <1>3, <1>7, <1>8, QuietTables DEF TablesInv

-----------------------------------------------------------------------------
(* Steps that write one account row.  A row in use keeps its password and  *)
(* its status.                                                             *)
LEMMA RowWritten ==
    ASSUME UserInv, NEW u \in Users, NEW row \in AccountRows,
           account' = [account EXCEPT ![u] = row],
           UNCHANGED <<session, dead, escaped, suspensions>>,
           account[u].status = "ACTIVE" =>
               /\ row.status = "ACTIVE" /\ row.mustChange = account[u].mustChange
               /\ row.password = account[u].password,
           account[u].status # "ABSENT" => row.status # "ABSENT",
           account[u].password # 0 => row.password # 0
    PROVE  /\ Evolves /\ \A d \in Callers : Leaves(d)
           /\ account' \in [Users -> AccountRows] /\ SessionsFit' /\ WithinLimit'
           /\ account'[u] = row /\ \A v \in Users \ {u} : account'[v] = account[v]
<1>1. /\ account \in [Users -> AccountRows] /\ session \in Seq(SessionRows)
      /\ SessionsFit /\ RequestsFit /\ RequestTypes
  BY DEF UserInv, TablesInv, TableTypes
<1>2. /\ account' \in [Users -> AccountRows]
      /\ account'[u] = row /\ \A v \in Users \ {u} : account'[v] = account[v]
  BY <1>1
<1>3. \A v \in Users : account[v].status = "ACTIVE" =>
          /\ account'[v].status = "ACTIVE" /\ account'[v].mustChange = account[v].mustChange
          /\ account'[v].password = account[v].password
  BY <1>2
<1>4. \A i \in DOMAIN session : session[i].user \in Users
  BY <1>1, SessionTyped
<1>5. BarredHaveNoSession
  BY <1>1 DEF SessionsFit
<1>6. Evolves
  BY <1>2, <1>3, <1>4, <1>5 DEF Evolves, BarredHaveNoSession
<1>7. \A d \in Callers : Leaves(d)
  <2> SUFFICES ASSUME NEW d \in Callers PROVE Leaves(d)
    OBVIOUS
  <2>1. SuspendFits(request[d])
    BY <1>1 DEF RequestsFit, RequestFits
  <2> QED BY <1>3, <2>1 DEF Leaves, SuspendFits, OfUser
<1>8. BarredHaveNoSession' /\ PasswordEndsSessions'
  BY <1>1, <1>3, <1>4, <1>5 DEF BarredHaveNoSession, SessionsFit, PasswordEndsSessions, UnderPassword
<1>9. SessionsFit'
  BY <1>1, <1>8 DEF SessionsFit, FamiliesNamed, OneUnrotated, DeadFamilies
<1>10. WithinLimit'
  BY DEF UserInv, TablesInv, WithinLimit
<1> QED BY <1>2, <1>6, <1>7, <1>9, <1>10

LEMMA RegistersKeeps == ASSUME UserInv, NEW u \in Users, Registers(u) PROVE TablesInv'
<1>1. /\ account \in [Users -> AccountRows] /\ AccountsFit /\ TableTypes /\ LinksFit
  BY DEF UserInv, TablesInv, TableTypes
<1>2. /\ NewUser \in AccountRows /\ NewUser.status = "PENDING_ACTIVATION" /\ NewUser.password = 0
      /\ NewUser.admin = FALSE
  <2>1. Absent \in AccountRows /\ Absent.password = 0 /\ Absent.admin = FALSE
    BY DEF Absent, AccountRows
  <2> QED BY <2>1 DEF NewUser, AccountRows
<1>3. /\ account' = [account EXCEPT ![u] = NewUser] /\ account[u].status \in {"ABSENT", "PENDING_ACTIVATION"}
      /\ UNCHANGED <<activations, session, dead, escaped, suspensions, request>> /\ Issue(u, "ACTIVATION")
  BY DEF Registers
<1>4. account[u].password = 0 /\ activations[u] = 0
  BY <1>1, <1>3 DEF AccountsFit, AccountFits
<1>5. /\ Evolves /\ \A d \in Callers : Leaves(d)
      /\ account' \in [Users -> AccountRows] /\ SessionsFit' /\ WithinLimit'
      /\ account'[u] = NewUser /\ \A v \in Users \ {u} : account'[v] = account[v]
  BY <1>2, <1>3, <1>4, RowWritten
<1>6. RequestsFit' /\ LocksExclusive' /\ RequestTypes'
  BY <1>3, <1>5, NobodyMoves
<1>7. LinksFit' /\ links' \subseteq Link /\ issued' \in Nat
  <2>1. \A v \in Users :
            /\ account[v].status # "ABSENT" => account'[v].status # "ABSENT"
            /\ account[v].status = "PENDING_ACTIVATION" => account'[v].status = "PENDING_ACTIVATION"
            /\ account'[v].password = account[v].password
    BY <1>2, <1>4, <1>5
  <2> QED BY <1>1, <1>2, <1>3, <1>5, <2>1, IssueKeeps
<1>8. AccountsFit'
  BY <1>1, <1>2, <1>3, <1>4, <1>5 DEF AccountsFit, AccountFits
<1>9. TableTypes'
  BY <1>1, <1>3, <1>5, <1>7 DEF TableTypes
<1> QED BY <1>5, <1>6, <1>7, <1>8, <1>9 DEF TablesInv

LEMMA SeedsKeeps == ASSUME UserInv, NEW u \in Users, Seeds(u) PROVE TablesInv'
<1> DEFINE row == [status |-> "ACTIVE", password |-> 1, mustChange |-> TRUE, admin |-> TRUE,
                   seeded |-> TRUE]
<1>1. /\ account \in [Users -> AccountRows] /\ AccountsFit /\ TableTypes /\ LinksFit
      /\ activations \in [Users -> Nat]
  BY DEF UserInv, TablesInv, TableTypes
<1>2. row \in AccountRows /\ row.status = "ACTIVE" /\ row.password = 1
  BY DEF AccountRows
<1>3. /\ account' = [account EXCEPT ![u] = row] /\ account[u].status = "ABSENT"
      /\ UNCHANGED <<links, issued, session, dead, escaped, suspensions, request>>
      /\ activations' = [activations EXCEPT ![u] = @ + 1]
  BY DEF Seeds
<1> HIDE DEF row
<1>4. account[u].password = 0 /\ activations[u] = 0
  BY <1>1, <1>3 DEF AccountsFit, AccountFits
<1>5. /\ Evolves /\ \A d \in Callers : Leaves(d)
      /\ account' \in [Users -> AccountRows] /\ SessionsFit' /\ WithinLimit'
      /\ account'[u] = row /\ \A v \in Users \ {u} : account'[v] = account[v]
  BY <1>2, <1>3, <1>4, RowWritten
<1>6. RequestsFit' /\ LocksExclusive' /\ RequestTypes'
  BY <1>3, <1>5, NobodyMoves
<1>7. LinksFit'
  <2>1. \A l \in links : l.user \in Users /\ l.user # u
    BY <1>1, <1>3 DEF TableTypes, Link, LinksFit
  <2> QED BY <1>1, <1>3, <1>5, <2>1 DEF LinksFit, LinksCurrent
<1>8. AccountsFit' /\ activations' \in [Users -> Nat]
  <2>1. activations' \in [Users -> Nat] /\ activations'[u] = 1
    BY <1>1, <1>3, <1>4
  <2>2. \A v \in Users \ {u} : activations'[v] = activations[v]
    BY <1>1, <1>3
  <2> QED BY <1>1, <1>2, <1>5, <2>1, <2>2 DEF AccountsFit, AccountFits
<1>9. TableTypes'
  BY <1>1, <1>3, <1>5, <1>8 DEF TableTypes
<1> QED BY <1>5, <1>6, <1>7, <1>8, <1>9 DEF TablesInv

LEMMA ReinstatesKeeps ==
    ASSUME UserInv, NEW c \in Callers, NEW u \in Users, Reinstates(c, u) PROVE TablesInv'
<1> DEFINE row == [account[u] EXCEPT !.status = "ACTIVE"]
<1>1. /\ account \in [Users -> AccountRows] /\ AccountsFit /\ TableTypes /\ LinksFit
  BY DEF UserInv, TablesInv, TableTypes
<1>2. /\ row \in AccountRows /\ row.status = "ACTIVE" /\ row.password = account[u].password
      /\ row.admin = account[u].admin
  BY <1>1 DEF AccountRows
<1>3. /\ account' = [account EXCEPT ![u] = row] /\ account[u].status = "SUSPENDED" /\ Done(c)
      /\ UNCHANGED <<links, issued, activations, session, dead, escaped, suspensions>>
  BY <1>1 DEF Reinstates, SetStatus
<1> HIDE DEF row
<1>5. /\ Evolves /\ \A d \in Callers : Leaves(d)
      /\ account' \in [Users -> AccountRows] /\ SessionsFit' /\ WithinLimit'
      /\ account'[u] = row /\ \A v \in Users \ {u} : account'[v] = account[v]
  BY <1>2, <1>3, RowWritten
<1>6. RequestsFit' /\ LocksExclusive' /\ RequestTypes'
  BY <1>3, <1>5, DoneKept
<1>7. LinksFit'
  <2>1. \A l \in links : l.user \in Users
    BY <1>1 DEF TableTypes, Link
  <2> QED BY <1>1, <1>2, <1>3, <1>5, <2>1 DEF LinksFit, LinksCurrent
<1>8. AccountsFit'
  BY <1>1, <1>2, <1>3, <1>5 DEF AccountsFit, AccountFits
<1>9. TableTypes'
  BY <1>1, <1>3, <1>5 DEF TableTypes
<1> QED BY <1>5, <1>6, <1>7, <1>8, <1>9 DEF TablesInv

LEMMA ChangesRoleKeeps ==
    ASSUME UserInv, NEW c \in Callers, NEW u \in Users, NEW role \in RolesAsked, ChangesRole(c, u, role)
    PROVE  TablesInv'
<1> DEFINE row == WithRole(account[u], role)
<1>1. /\ account \in [Users -> AccountRows] /\ AccountsFit /\ TableTypes /\ LinksFit
  BY DEF UserInv, TablesInv, TableTypes
<1>2. /\ row \in AccountRows /\ row.status = account[u].status /\ row.password = account[u].password
      /\ row.mustChange = account[u].mustChange
  BY <1>1 DEF AccountRows, WithRole
<1>3. /\ account' = [account EXCEPT ![u] = row] /\ account[u].status # "PENDING_ACTIVATION" /\ Done(c)
      /\ UNCHANGED <<links, issued, activations, session, dead, escaped, suspensions>>
  BY <1>1 DEF ChangesRole
<1> HIDE DEF row
<1>5. /\ Evolves /\ \A d \in Callers : Leaves(d)
      /\ account' \in [Users -> AccountRows] /\ SessionsFit' /\ WithinLimit'
      /\ account'[u] = row /\ \A v \in Users \ {u} : account'[v] = account[v]
  BY <1>2, <1>3, RowWritten
<1>6. RequestsFit' /\ LocksExclusive' /\ RequestTypes'
  BY <1>3, <1>5, DoneKept
<1>7. LinksFit'
  <2>1. \A l \in links : l.user \in Users
    BY <1>1 DEF TableTypes, Link
  <2> QED BY <1>1, <1>2, <1>3, <1>5, <2>1 DEF LinksFit, LinksCurrent
<1>8. AccountsFit'
  BY <1>1, <1>2, <1>3, <1>5 DEF AccountsFit, AccountFits
<1>9. TableTypes'
  BY <1>1, <1>3, <1>5 DEF TableTypes
<1> QED BY <1>5, <1>6, <1>7, <1>8, <1>9 DEF TablesInv

-----------------------------------------------------------------------------
(* Steps that write the sessions.                                          *)

(* A re-entered password is noted, or lapses.                              *)
LEMMA StepUpWritten ==
    ASSUME UserInv, NEW i \in DOMAIN session, NEW h \in Nat,
           session' = [session EXCEPT ![i].stepped = h],
           UNCHANGED <<account, activations, dead, escaped, suspensions>>,
           ~session[i].revoked /\ session[i].family \notin escaped =>
               h \in {0, account[session[i].user].password}
    PROVE  /\ Evolves /\ \A d \in Callers : Leaves(d)
           /\ session' \in Seq(SessionRows) /\ SessionsFit'
<1>1. session \in Seq(SessionRows) /\ SessionsFit /\ RequestsFit
  BY DEF UserInv, TablesInv, TableTypes
<1>2. DOMAIN session' = DOMAIN session /\ session' \in Seq(SessionRows)
  <2>1. session[i] \in SessionRows
    BY <1>1, SessionTyped
  <2>2. [session[i] EXCEPT !.stepped = h] \in SessionRows
    BY <2>1 DEF SessionRows
  <2>3. session' = [session EXCEPT ![i] = [session[i] EXCEPT !.stepped = h]]
    OBVIOUS
  <2> QED BY <1>1, <2>2, <2>3
<1>3. \A j \in DOMAIN session :
          /\ session'[j].user = session[j].user /\ session'[j].family = session[j].family
          /\ session'[j].expires = session[j].expires /\ session'[j].under = session[j].under
          /\ session'[j].rotated = session[j].rotated /\ session'[j].revoked = session[j].revoked
          /\ session'[j].stepped = IF j = i THEN h ELSE session[j].stepped
  <2> TAKE j \in DOMAIN session
  <2>1. session[j] \in SessionRows
    BY <1>1, SessionTyped
  <2>2. CASE j = i
    <3>1. session'[j] = [session[j] EXCEPT !.stepped = h]
      BY <2>2
    <3> QED BY <2>1, <2>2, <3>1 DEF SessionRows
  <2>3. CASE j # i
    BY <2>3
  <2> QED BY <2>2, <2>3
<1>4. Evolves
  BY <1>2, <1>3 DEF Evolves
<1>5. \A d \in Callers : Leaves(d)
  <2> SUFFICES ASSUME NEW d \in Callers PROVE Leaves(d)
    OBVIOUS
  <2>1. RefreshFits(request[d])
    BY <1>1 DEF RequestsFit, RequestFits
  <2> QED BY <1>2, <1>3, <2>1 DEF Leaves, RefreshFits, OfUser
<1>6. FamiliesNamed' /\ OneUnrotated' /\ DeadFamilies' /\ BarredHaveNoSession'
  BY <1>1, <1>2, <1>3 DEF SessionsFit, FamiliesNamed, OneUnrotated, DeadFamilies, BarredHaveNoSession
<1>7. PasswordEndsSessions'
  BY <1>1, <1>2, <1>3 DEF SessionsFit, PasswordEndsSessions, UnderPassword
<1> QED BY <1>2, <1>4, <1>5, <1>6, <1>7 DEF SessionsFit

LEMMA MarksKeeps == ASSUME UserInv, NEW c \in Callers, Marks(c) PROVE TablesInv'
<1> DEFINE r == request[c]
<1>1. r \in Request /\ RequestFits(r) /\ r.hash \in Nat
  BY DEF UserInv, TablesInv, RequestTypes, RequestsFit, Request
<1>2. /\ session' = [session EXCEPT ![r.row].stepped = r.hash] /\ r.kind = "STEP_UP" /\ Done(c)
      /\ UNCHANGED <<links, issued, account, activations, dead, escaped, suspensions>>
  BY DEF Marks
<1>3. /\ r.row \in DOMAIN session
      /\ ~session[r.row].revoked /\ session[r.row].family \notin escaped =>
            r.hash \in {0, account[session[r.row].user].password}
  BY <1>1, <1>2 DEF RequestFits, StepUpFits
<1>4. /\ Evolves /\ \A d \in Callers : Leaves(d)
      /\ session' \in Seq(SessionRows) /\ SessionsFit'
  BY <1>1, <1>2, <1>3, StepUpWritten
<1>5. RequestsFit' /\ LocksExclusive' /\ RequestTypes'
  BY <1>2, <1>4, DoneKept
<1>6. TableTypes' /\ AccountsFit' /\ LinksFit' /\ WithinLimit'
  BY <1>2, <1>4 DEF UserInv, TablesInv, TableTypes, AccountsFit, AccountFits, LinksFit, LinksCurrent,
                    WithinLimit
<1> QED BY <1>4, <1>5, <1>6 DEF TablesInv

LEMMA UnmarksKeeps == ASSUME UserInv, NEW i \in DOMAIN session, Unmarks(i) PROVE TablesInv'
<1>1. /\ session' = [session EXCEPT ![i].stepped = 0]
      /\ UNCHANGED <<links, issued, account, activations, dead, escaped, suspensions, request>>
  BY DEF Unmarks
<1>2. /\ Evolves /\ \A d \in Callers : Leaves(d)
      /\ session' \in Seq(SessionRows) /\ SessionsFit'
  BY <1>1, StepUpWritten
<1>3. RequestsFit' /\ LocksExclusive' /\ RequestTypes'
  BY <1>1, <1>2, NobodyMoves
<1>4. TableTypes' /\ AccountsFit' /\ LinksFit' /\ WithinLimit'
  BY <1>1, <1>2 DEF UserInv, TablesInv, TableTypes, AccountsFit, AccountFits, LinksFit, LinksCurrent,
                    WithinLimit
<1> QED BY <1>2, <1>3, <1>4 DEF TablesInv

(* A new sign-in opens a family of its own.                                *)
LEMMA SignsInKeeps == ASSUME UserInv, NEW c \in Callers, SignsIn(c) PROVE TablesInv'
<1> DEFINE r == request[c]
           n == Len(session) + 1
           new == NewSession(r.user, r.hash, n, 0)
<1>1. /\ session \in Seq(SessionRows) /\ SessionsFit /\ RequestsFit
      /\ r \in Request /\ RequestFits(r) /\ r.hash \in Nat
  BY DEF UserInv, TablesInv, TableTypes, RequestTypes, RequestsFit, Request
<1>2. /\ session' = Append(session, new) /\ r.kind = "LOGIN" /\ Done(c)
      /\ RowFree(r.user, c) /\ Loginable(r.user, r.hash)
      /\ UNCHANGED <<links, issued, account, activations, dead, escaped, suspensions>>
  BY DEF SignsIn
<1>3. r.user \in Users
  BY <1>1, <1>2 DEF RequestFits, OtherFits
<1>4. /\ Len(session) \in Nat /\ DOMAIN session = 1 .. Len(session) /\ n \in Nat
      /\ \A i \in DOMAIN session : i \in Nat /\ i < n /\ session[i] \in SessionRows
  BY <1>1, SessionTyped
<1>5. /\ new \in SessionRows /\ new.user = r.user /\ new.family = n /\ new.expires = n
      /\ new.under = r.hash /\ ~new.rotated /\ ~new.revoked /\ new.stepped = 0
  BY <1>1, <1>3, <1>4 DEF NewSession, SessionRows
<1> HIDE DEF new
<1>6. /\ session' \in Seq(SessionRows) /\ DOMAIN session' = DOMAIN session \cup {n}
      /\ session'[n] = new /\ \A i \in DOMAIN session : session'[i] = session[i]
  BY <1>1, <1>2, <1>4, <1>5
<1> HIDE DEF n
<1>7. Evolves
  BY <1>2, <1>6 DEF Evolves
<1>8. \A d \in Callers \ {c} : Leaves(d)
  <2> SUFFICES ASSUME NEW d \in Callers \ {c} PROVE Leaves(d)
    OBVIOUS
  <2>1. RefreshFits(request[d]) /\ SuspendFits(request[d])
    BY <1>1 DEF RequestsFit, RequestFits
  <2>2. Revoking(d) => r.user \notin request[d].locks
    BY <1>2 DEF RowFree
  <2> QED BY <1>2, <1>5, <1>6, <2>1, <2>2 DEF Leaves, RefreshFits, SuspendFits, OfUser, Revoking
<1>9. RequestsFit' /\ LocksExclusive' /\ RequestTypes'
  BY <1>2, <1>7, <1>8, DoneKept
<1>10. FamiliesNamed'
  BY <1>1, <1>2, <1>4, <1>5, <1>6 DEF SessionsFit, FamiliesNamed
<1>11. \A i \in DOMAIN session : session[i].family < n
  BY <1>1, <1>4 DEF SessionsFit, FamiliesNamed
<1>12. n \notin dead
  BY <1>1, <1>4 DEF SessionsFit, FamiliesNamed
<1>13. OneUnrotated'
  BY <1>1, <1>4, <1>5, <1>6, <1>11 DEF SessionsFit, OneUnrotated
<1>14. DeadFamilies'
  BY <1>1, <1>2, <1>5, <1>6, <1>12 DEF SessionsFit, DeadFamilies
<1>15. PasswordEndsSessions' /\ BarredHaveNoSession'
  BY SMTT(60), <1>1, <1>2, <1>5, <1>6 DEF SessionsFit, PasswordEndsSessions, UnderPassword, BarredHaveNoSession,
                                Loginable
<1>16. TableTypes' /\ AccountsFit' /\ LinksFit' /\ WithinLimit'
  BY <1>2, <1>6 DEF UserInv, TablesInv, TableTypes, AccountsFit, AccountFits, LinksFit, LinksCurrent,
                    WithinLimit
<1> QED BY <1>9, <1>10, <1>13, <1>14, <1>15, <1>16 DEF TablesInv, SessionsFit

(* Two rows of one sign-in, alike but for the token.                       *)
SameSignIn(row, old) ==
    /\ row.user = old.user /\ row.family = old.family /\ row.expires = old.expires
    /\ row.under = old.under /\ row.revoked = old.revoked /\ row.stepped = old.stepped

(* What a rotation writes: the row it locked is rotated, and the row that  *)
(* continues it is added.                                                  *)
LEMMA RotatedRows ==
    ASSUME UserInv, NEW c \in Callers, Rotate(c), NEW r, r = request[c], NEW n, n = Len(session) + 1
    PROVE  /\ r.kind = "REFRESH" /\ r.phase = "ROTATING" /\ r.row \in DOMAIN session
           /\ r.user = session[r.row].user /\ ~session[r.row].rotated
           /\ session' \in Seq(SessionRows) /\ n \in Nat /\ Len(session') = n
           /\ DOMAIN session' = DOMAIN session \cup {n}
           /\ \A i \in DOMAIN session :
                 /\ i \in Nat /\ i < n /\ SameSignIn(session'[i], session[i])
                 /\ i # r.row => session'[i].rotated = session[i].rotated
           /\ session'[r.row].rotated
           /\ SameSignIn(session'[n], session[r.row]) /\ ~session'[n].rotated
<1> DEFINE mid == [session EXCEPT ![r.row].rotated = TRUE]
           new == Continuation(r.row)
<1>1. /\ session \in Seq(SessionRows) /\ RequestFits(r)
  BY DEF UserInv, TablesInv, TableTypes, RequestsFit
<1>2. r.kind = "REFRESH" /\ r.phase = "ROTATING" /\ session' = Append(mid, new)
  BY DEF Rotate
<1>3. r.row \in DOMAIN session /\ r.user = session[r.row].user /\ ~session[r.row].rotated
  BY <1>1, <1>2 DEF RequestFits, RefreshFits
<1>4. /\ Len(session) \in Nat /\ DOMAIN session = 1 .. Len(session) /\ n \in Nat
      /\ \A i \in DOMAIN session : i \in Nat /\ i < n /\ session[i] \in SessionRows
  BY <1>1, SessionTyped
<1>5. new \in SessionRows /\ SameSignIn(new, session[r.row]) /\ ~new.rotated
  <2>1. session[r.row] \in SessionRows
    BY <1>3, <1>4
  <2> QED BY <2>1 DEF Continuation, SessionRows, SameSignIn
<1>6. /\ mid \in Seq(SessionRows) /\ Len(mid) = Len(session) /\ DOMAIN mid = DOMAIN session
  <2>1. [session[r.row] EXCEPT !.rotated = TRUE] \in SessionRows
    <3>1. session[r.row] \in SessionRows
      BY <1>3, <1>4
    <3> QED BY <3>1 DEF SessionRows
  <2>2. mid = [session EXCEPT ![r.row] = [session[r.row] EXCEPT !.rotated = TRUE]]
    OBVIOUS
  <2> QED BY <1>1, <1>3, <2>1, <2>2
<1>7. \A i \in DOMAIN session :
          /\ SameSignIn(mid[i], session[i])
          /\ i # r.row => mid[i].rotated = session[i].rotated
          /\ i = r.row => mid[i].rotated
  <2> TAKE i \in DOMAIN session
  <2>1. session[i] \in SessionRows
    BY <1>4
  <2>2. CASE i = r.row
    <3>1. mid[i] = [session[i] EXCEPT !.rotated = TRUE]
      BY <2>2
    <3> QED BY <2>1, <2>2, <3>1 DEF SessionRows, SameSignIn
  <2>3. CASE i # r.row
    BY <2>3 DEF SameSignIn
  <2> QED BY <2>2, <2>3
<1> HIDE DEF mid, new
<1>8. /\ session' \in Seq(SessionRows) /\ Len(session') = n /\ DOMAIN session' = DOMAIN session \cup {n}
      /\ session'[n] = new /\ \A i \in DOMAIN session : session'[i] = mid[i]
  BY <1>2, <1>4, <1>5, <1>6
<1> QED BY <1>2, <1>3, <1>4, <1>5, <1>7, <1>8

(* A refresh leaves one usable token, and no more than it had.             *)
LEMMA RefreshesKeeps == ASSUME UserInv, NEW c \in Callers, Refreshes(c) PROVE TablesInv'
<1>1. /\ session \in Seq(SessionRows) /\ SessionsFit /\ RequestsFit /\ LocksExclusive
  BY DEF UserInv, TablesInv, TableTypes
<1>2. /\ Rotate(c) /\ Done(c)
      /\ UNCHANGED <<links, issued, account, activations, dead, escaped, suspensions>>
  BY DEF Refreshes
<1> PICK r : r = request[c]
  OBVIOUS
<1> PICK n : n = Len(session) + 1
  OBVIOUS
<1>3. r = request[c] /\ n = Len(session) + 1
  OBVIOUS
<1>0. /\ r.kind = "REFRESH" /\ r.phase = "ROTATING" /\ r.row \in DOMAIN session
      /\ r.user = session[r.row].user /\ ~session[r.row].rotated
      /\ session' \in Seq(SessionRows) /\ n \in Nat /\ Len(session') = n
      /\ DOMAIN session' = DOMAIN session \cup {n}
      /\ \A i \in DOMAIN session :
            /\ i \in Nat /\ i < n /\ SameSignIn(session'[i], session[i])
            /\ i # r.row => session'[i].rotated = session[i].rotated
      /\ session'[r.row].rotated
      /\ SameSignIn(session'[n], session[r.row]) /\ ~session'[n].rotated
  BY <1>2, <1>3, RotatedRows, Zenon
<1>4. /\ r.kind = "REFRESH" /\ r.phase = "ROTATING" /\ r.row \in DOMAIN session
      /\ r.user = session[r.row].user /\ ~session[r.row].rotated
      /\ session' \in Seq(SessionRows) /\ n \in Nat /\ DOMAIN session' = DOMAIN session \cup {n}
  BY <1>0, Zenon
<1>5. \A i \in DOMAIN session :
          /\ i \in Nat /\ i < n /\ SameSignIn(session'[i], session[i])
          /\ i # r.row => session'[i].rotated = session[i].rotated
  BY <1>0, Zenon
<1>6. /\ session'[r.row].rotated
      /\ SameSignIn(session'[n], session[r.row]) /\ ~session'[n].rotated
  BY <1>0, Zenon
<1>7. Evolves
  BY <1>2, <1>4, <1>5 DEF Evolves, SameSignIn
<1>8. \A d \in Callers \ {c} : Leaves(d)
  <2> SUFFICES ASSUME NEW d \in Callers \ {c} PROVE Leaves(d)
    OBVIOUS
  <2>1. RefreshFits(request[d]) /\ SuspendFits(request[d])
    BY <1>1 DEF RequestsFit, RequestFits
  <2>2. Revoking(d) /\ request[d].keyLock => r.user \notin request[d].locks
    BY <1>2, <1>3 DEF Rotate, KeyShareFree
  <2>3. request[d].kind = "REFRESH" => session'[request[d].row].rotated = session[request[d].row].rotated
    BY <1>1, <1>3, <1>4, <1>5, <2>1 DEF LocksExclusive, RefreshFits
  <2>4. request[d].kind = "SUSPEND" /\ request[d].phase = "REVOKING" =>
            \A i \in DOMAIN session' :
               session'[i].user = request[d].user /\ ~session'[i].revoked => i \in OfUser(request[d].user)
    <3>1. request[d].kind = "SUSPEND" /\ request[d].phase = "REVOKING" => request[d].user # r.user
      BY <2>1, <2>2 DEF SuspendFits, Revoking
    <3>2. session'[n].user = r.user
      BY <1>4, <1>6 DEF SameSignIn
    <3>3. \A i \in DOMAIN session : session'[i].user = session[i].user /\ session'[i].revoked = session[i].revoked
      BY <1>5 DEF SameSignIn
    <3> QED BY <1>4, <3>1, <3>2, <3>3 DEF OfUser
  <2> QED BY <1>2, <2>3, <2>4 DEF Leaves
<1>9. RequestsFit' /\ LocksExclusive' /\ RequestTypes'
  BY <1>2, <1>7, <1>8, DoneKept
<1>10. FamiliesNamed'
  <2>1. /\ session'[n].family = session[r.row].family /\ session'[n].expires = session[r.row].expires
        /\ \A i \in DOMAIN session : /\ session'[i].family = session[i].family
                                     /\ session'[i].expires = session[i].expires
    BY <1>5, <1>6 DEF SameSignIn
  <2>2. /\ \A i \in DOMAIN session : session[i].family \in 1 .. i /\ session[i].expires = session[i].family
        /\ dead \subseteq DOMAIN session
    BY <1>1 DEF SessionsFit, FamiliesNamed
  <2>3. session[r.row].family \in 1 .. n
    BY <1>4, <1>5, <2>2
  <2> QED BY <1>2, <1>4, <2>1, <2>2, <2>3 DEF FamiliesNamed
<1>11. OneUnrotated'
  <2> SUFFICES ASSUME NEW i \in DOMAIN session', NEW j \in DOMAIN session',
                      session'[i].family = session'[j].family,
                      ~session'[i].rotated, ~session'[j].rotated
               PROVE  i = j
    BY DEF OneUnrotated
  <2>0. /\ session'[n].family = session[r.row].family
        /\ \A k \in DOMAIN session : session'[k].family = session[k].family
    BY <1>5, <1>6 DEF SameSignIn
  <2>1. \A k \in DOMAIN session : ~session'[k].rotated => k # r.row /\ ~session[k].rotated
    BY <1>5, <1>6
  <2>2. OneUnrotated
    BY <1>1 DEF SessionsFit
  <2>3. CASE i \in DOMAIN session /\ j \in DOMAIN session
    BY <2>0, <2>1, <2>2, <2>3 DEF OneUnrotated
  <2>4. ASSUME NEW k \in DOMAIN session, session'[k].family = session'[n].family, ~session'[k].rotated
        PROVE  FALSE
    BY <1>4, <2>0, <2>1, <2>2, <2>4 DEF OneUnrotated
  <2> QED BY <1>4, <2>3, <2>4
<1>12. DeadFamilies'
  BY <1>1, <1>2, <1>4, <1>5, <1>6 DEF SessionsFit, DeadFamilies, SameSignIn
<1>13. BarredHaveNoSession'
  BY <1>1, <1>2, <1>4, <1>5, <1>6 DEF SessionsFit, BarredHaveNoSession, SameSignIn
<1>14. PasswordEndsSessions'
  <2>1. ASSUME NEW i \in DOMAIN session', NEW j \in DOMAIN session, SameSignIn(session'[i], session[j]),
               ~session'[i].revoked, session'[i].family \notin escaped'
        PROVE  UnderPassword(i)'
    BY <1>1, <1>2, <2>1 DEF SessionsFit, PasswordEndsSessions, UnderPassword, SameSignIn
  <2> QED BY <1>4, <1>5, <1>6, <2>1 DEF PasswordEndsSessions
<1>15. TableTypes' /\ AccountsFit' /\ LinksFit' /\ WithinLimit'
  BY <1>2, <1>4 DEF UserInv, TablesInv, TableTypes, AccountsFit, AccountFits, LinksFit, LinksCurrent,
                    WithinLimit
<1> QED BY <1>9, <1>10, <1>11, <1>12, <1>13, <1>14, <1>15 DEF TablesInv, SessionsFit

-----------------------------------------------------------------------------
(* Steps that revoke: the rows of the snapshot are revoked, and a family   *)
(* with a row that the snapshot missed is marked as escaped.               *)
LEMMA RevokedRows ==
    ASSUME UserInv, NEW c \in Callers, session' = Revoked(ToRevoke(c)), escaped' = Escaped(c)
    PROVE  /\ session' \in Seq(SessionRows) /\ DOMAIN session' = DOMAIN session
           /\ escaped \subseteq escaped'
           /\ \A i \in DOMAIN session :
                 /\ session'[i].user = session[i].user /\ session'[i].family = session[i].family
                 /\ session'[i].expires = session[i].expires /\ session'[i].under = session[i].under
                 /\ session'[i].rotated = session[i].rotated /\ session'[i].stepped = session[i].stepped
                 /\ ~session'[i].revoked => ~session[i].revoked
                 /\ i \in InForce(c) => session'[i].revoked \/ session[i].family \in escaped'
                 /\ i \in InForce(c) /\ i \in request[c].rows => session'[i].revoked
<1>1. session \in Seq(SessionRows)
  BY DEF UserInv, TablesInv, TableTypes
<1>2. \A i \in DOMAIN session : session[i] \in SessionRows
  BY <1>1, SessionTyped
<1>3. session' = [i \in DOMAIN session |-> IF i \in ToRevoke(c) THEN [session[i] EXCEPT !.revoked = TRUE]
                                                               ELSE session[i]]
  BY DEF Revoked
<1>4. \A i \in DOMAIN session :
          /\ session'[i] \in SessionRows
          /\ session'[i].user = session[i].user /\ session'[i].family = session[i].family
          /\ session'[i].expires = session[i].expires /\ session'[i].under = session[i].under
          /\ session'[i].rotated = session[i].rotated /\ session'[i].stepped = session[i].stepped
          /\ ~session'[i].revoked => ~session[i].revoked
          /\ i \in ToRevoke(c) => session'[i].revoked
  <2> TAKE i \in DOMAIN session
  <2>1. session[i] \in SessionRows
    BY <1>2
  <2>2. CASE i \in ToRevoke(c)
    <3>1. session'[i] = [session[i] EXCEPT !.revoked = TRUE]
      BY <1>3, <2>2
    <3> QED BY <2>1, <2>2, <3>1 DEF SessionRows
  <2>3. CASE i \notin ToRevoke(c)
    <3>1. session'[i] = session[i]
      BY <1>3, <2>3
    <3> QED BY <2>1, <2>3, <3>1
  <2> QED BY <2>2, <2>3
<1>5. DOMAIN session' = DOMAIN session
  BY <1>3
<1>6. session' \in Seq(SessionRows)
  <2>1. Len(session) \in Nat /\ DOMAIN session = 1 .. Len(session)
    BY <1>1, SessionTyped
  <2>2. session' \in [1 .. Len(session) -> SessionRows]
    BY <1>3, <1>4, <2>1
  <2> QED BY <2>1, <2>2
<1>7. escaped \subseteq escaped' /\ \A i \in InForce(c) : i \in request[c].rows \/ session[i].family \in escaped'
  BY DEF Escaped
<1> QED BY <1>4, <1>5, <1>6, <1>7 DEF ToRevoke

(* If the account's row allows what is left of its sessions, they fit, and *)
(* so do the other requests.                                               *)
LEMMA RevocationFits ==
    ASSUME UserInv, NEW c \in Callers, session' = Revoked(ToRevoke(c)), escaped' = Escaped(c),
           \A i \in DOMAIN session : ~session'[i].revoked =>
               account'[session[i].user].status = "ACTIVE" /\ ~account'[session[i].user].mustChange,
           \A i \in DOMAIN session : ~session'[i].revoked /\ session[i].family \notin escaped' =>
               account'[session[i].user].password = account[session[i].user].password,
           \A u \in Users : /\ account[u].status # "ABSENT" => account'[u].status # "ABSENT"
                            /\ account[u].password # 0 => account'[u].password # 0,
           \A d \in Callers \ {c} :
               request[d].kind = "SUSPEND" /\ request[d].phase = "REVOKING" =>
                   /\ account'[request[d].user].status = account[request[d].user].status
                   /\ account'[request[d].actor].status = account[request[d].actor].status
                   /\ suspensions'[request[d].actor] = suspensions[request[d].actor],
           dead' \subseteq DOMAIN session,
           \A i \in DOMAIN session : session[i].family \in dead' =>
               session[i].family \in dead \cup escaped' \/ session'[i].revoked
    PROVE  /\ Evolves /\ \A d \in Callers \ {c} : Leaves(d)
           /\ session' \in Seq(SessionRows) /\ SessionsFit'
<1>1. SessionsFit /\ RequestsFit /\ session \in Seq(SessionRows)
  BY DEF UserInv, TablesInv, TableTypes
<1>2. /\ session' \in Seq(SessionRows) /\ DOMAIN session' = DOMAIN session /\ escaped \subseteq escaped'
      /\ \A i \in DOMAIN session :
            /\ session'[i].user = session[i].user /\ session'[i].family = session[i].family
            /\ session'[i].expires = session[i].expires /\ session'[i].under = session[i].under
            /\ session'[i].rotated = session[i].rotated /\ session'[i].stepped = session[i].stepped
            /\ ~session'[i].revoked => ~session[i].revoked
  BY RevokedRows
<1>3. Evolves
  BY <1>2 DEF Evolves
<1>4. \A d \in Callers \ {c} : Leaves(d)
  <2> SUFFICES ASSUME NEW d \in Callers \ {c} PROVE Leaves(d)
    OBVIOUS
  <2>1. RefreshFits(request[d])
    BY <1>1 DEF RequestsFit, RequestFits
  <2> QED BY <1>2, <2>1 DEF Leaves, RefreshFits, OfUser
<1>5. FamiliesNamed' /\ OneUnrotated'
  BY <1>1, <1>2 DEF SessionsFit, FamiliesNamed, OneUnrotated
<1>6. DeadFamilies'
  BY <1>1, <1>2 DEF SessionsFit, DeadFamilies
<1>7. BarredHaveNoSession'
  BY <1>2 DEF BarredHaveNoSession
<1>8. PasswordEndsSessions'
  BY <1>1, <1>2 DEF SessionsFit, PasswordEndsSessions, UnderPassword
<1> QED BY <1>2, <1>3, <1>4, <1>5, <1>6, <1>7, <1>8 DEF SessionsFit

(* A sign-out or a detected reuse.                                         *)
LEMMA EndsFamilyKeeps == ASSUME UserInv, NEW c \in Callers, EndsFamily(c) PROVE TablesInv'
<1> DEFINE r == request[c]
<1>1. SessionsFit /\ RequestFits(r) /\ TableTypes
  BY DEF UserInv, TablesInv, RequestsFit
<1>2. /\ r.kind \in {"LOGOUT", "REFRESH"} /\ r.phase = "REVOKING" /\ Done(c)
      /\ session' = Revoked(ToRevoke(c)) /\ escaped' = Escaped(c) /\ dead' = dead \cup {r.family}
      /\ UNCHANGED <<links, issued, account, activations, suspensions>>
  BY DEF EndsFamily, FamilyRevoked, AfterRevocation, Revoking
<1>3. r.row \in DOMAIN session /\ r.family = session[r.row].family
  BY <1>1, <1>2 DEF RequestFits, LogoutFits, RefreshFits
<1>4. r.family \in DOMAIN session /\ r.family # 0
  <2>1. r.family \in 1 .. r.row
    BY <1>1, <1>3 DEF SessionsFit, FamiliesNamed
  <2>2. r.row \in 1 .. Len(session) /\ Len(session) \in Nat /\ DOMAIN session = 1 .. Len(session)
    BY <1>1, <1>3, SessionTyped DEF TableTypes
  <2> QED BY <2>1, <2>2
<1>5. InForce(c) = OfFamily(r.family)
  BY <1>4 DEF InForce
<1>6. \A i \in DOMAIN session :
          /\ ~session'[i].revoked => ~session[i].revoked
          /\ i \in InForce(c) => session'[i].revoked \/ session[i].family \in escaped'
  BY <1>2, RevokedRows
<1>6a. \A i \in DOMAIN session : session'[i].revoked \/ i \in OfFamily(session[i].family)
  BY <1>6 DEF OfFamily
<1>7. dead' \subseteq DOMAIN session
  BY <1>1, <1>2, <1>4 DEF SessionsFit, FamiliesNamed
<1>8. \A i \in DOMAIN session : session[i].family \in dead' =>
          session[i].family \in dead \cup escaped' \/ session'[i].revoked
  BY <1>2, <1>5, <1>6, <1>6a
<1>9. \A i \in DOMAIN session : ~session'[i].revoked =>
          account'[session[i].user].status = "ACTIVE" /\ ~account'[session[i].user].mustChange
  BY <1>1, <1>2, <1>6 DEF SessionsFit, BarredHaveNoSession
<1>10. /\ Evolves /\ \A d \in Callers \ {c} : Leaves(d)
       /\ session' \in Seq(SessionRows) /\ SessionsFit'
  BY <1>2, <1>7, <1>8, <1>9, RevocationFits
<1>11. RequestsFit' /\ LocksExclusive' /\ RequestTypes'
  BY <1>2, <1>10, DoneKept
<1>12. TableTypes' /\ AccountsFit' /\ LinksFit' /\ WithinLimit'
  BY <1>2, <1>10 DEF UserInv, TablesInv, TableTypes, AccountsFit, AccountFits, LinksFit, LinksCurrent,
                     WithinLimit
<1> QED BY <1>10, <1>11, <1>12 DEF TablesInv

(* A transaction that revokes all sessions of its account u and rewrites   *)
(* its row: no session built on the old row is left that has not escaped.  *)
LEMMA AccountRevocation ==
    ASSUME UserInv, NEW c \in Callers, NEW u \in Users, NEW row \in AccountRows,
           request[c].user = u, request[c].family = 0, request[c].phase = "REVOKING",
           u \in request[c].locks,
           session' = Revoked(ToRevoke(c)), escaped' = Escaped(c), dead' = dead,
           account' = [account EXCEPT ![u] = row],
           account[u].status # "ABSENT" => row.status # "ABSENT",
           account[u].password # 0 => row.password # 0,
           OfUser(u) \subseteq request[c].rows
             \/ (account[u].status = "ACTIVE" => row.status = "ACTIVE" /\ ~row.mustChange),
           \A v \in Users : v \notin request[c].locks => suspensions'[v] = suspensions[v]
    PROVE  /\ Evolves /\ \A d \in Callers \ {c} : Leaves(d)
           /\ session' \in Seq(SessionRows) /\ SessionsFit'
           /\ account' \in [Users -> AccountRows]
           /\ account'[u] = row /\ \A v \in Users \ {u} : account'[v] = account[v]
<1>1. /\ SessionsFit /\ RequestsFit /\ LocksExclusive /\ session \in Seq(SessionRows)
      /\ account \in [Users -> AccountRows]
  BY DEF UserInv, TablesInv, TableTypes
<1>2. /\ account' \in [Users -> AccountRows]
      /\ account'[u] = row /\ \A v \in Users \ {u} : account'[v] = account[v]
  BY <1>1
<1>3. InForce(c) = OfUser(u)
  BY DEF InForce
<1>4. \A i \in DOMAIN session :
          /\ ~session'[i].revoked => ~session[i].revoked
          /\ i \in OfUser(u) => session'[i].revoked \/ session[i].family \in escaped'
          /\ i \in OfUser(u) /\ i \in request[c].rows => session'[i].revoked
  BY <1>3, RevokedRows
<1>5. \A i \in DOMAIN session : session[i].user \in Users
  BY <1>1, SessionTyped
<1>6. ASSUME NEW i \in DOMAIN session, ~session'[i].revoked
      PROVE  account'[session[i].user].status = "ACTIVE" /\ ~account'[session[i].user].mustChange
  <2>1. account[session[i].user].status = "ACTIVE" /\ ~account[session[i].user].mustChange
    BY <1>1, <1>4, <1>6 DEF SessionsFit, BarredHaveNoSession
  <2>2. CASE session[i].user # u
    BY <1>2, <1>5, <2>1, <2>2
  <2>3. CASE session[i].user = u
    <3>1. i \in OfUser(u)
      BY <1>4, <1>6, <2>3 DEF OfUser
    <3>2. i \notin request[c].rows
      BY <1>4, <1>6, <3>1
    <3>3. row.status = "ACTIVE" /\ ~row.mustChange
      BY <2>1, <2>3, <3>1, <3>2
    <3> QED BY <1>2, <2>3, <3>3
  <2> QED BY <2>2, <2>3
<1>7. ASSUME NEW i \in DOMAIN session, ~session'[i].revoked, session[i].family \notin escaped'
      PROVE  account'[session[i].user].password = account[session[i].user].password
  <2>1. session[i].user # u
    BY <1>4, <1>7 DEF OfUser
  <2> QED BY <1>2, <1>5, <2>1
<1>8. \A v \in Users : /\ account[v].status # "ABSENT" => account'[v].status # "ABSENT"
                       /\ account[v].password # 0 => account'[v].password # 0
  BY <1>2
<1>9. ASSUME NEW d \in Callers \ {c}, request[d].kind = "SUSPEND" /\ request[d].phase = "REVOKING"
      PROVE  /\ account'[request[d].user].status = account[request[d].user].status
             /\ account'[request[d].actor].status = account[request[d].actor].status
             /\ suspensions'[request[d].actor] = suspensions[request[d].actor]
  <2>1. /\ request[d].locks = {request[d].actor, request[d].user}
        /\ request[d].user \in Users /\ request[d].actor \in Users
    BY <1>1, <1>9 DEF RequestsFit, RequestFits, SuspendFits
  <2>2. request[c].locks \cap request[d].locks = {}
    BY <1>1, <1>9 DEF LocksExclusive, Revoking
  <2> QED BY <1>2, <2>1, <2>2
<1>10. dead' \subseteq DOMAIN session
  BY <1>1 DEF SessionsFit, FamiliesNamed
<1> QED BY <1>2, <1>6, <1>7, <1>8, <1>9, <1>10, RevocationFits

(* A new password, and the flag to replace it cleared.                     *)
LEMMA NewPasswordRow ==
    ASSUME NEW row \in AccountRows
    PROVE  LET new == [row EXCEPT !.password = @ + 1, !.mustChange = FALSE]
           IN  /\ new \in AccountRows /\ new.status = row.status /\ new.admin = row.admin
               /\ new.password = row.password + 1 /\ new.password # 0 /\ ~new.mustChange
<1> DEFINE mid == [row EXCEPT !.password = row.password + 1]
           new == [mid EXCEPT !.mustChange = FALSE]
<1>1. row.password \in Nat
  BY DEF AccountRows
<1>2. row.password + 1 \in Nat /\ row.password + 1 # 0
  BY <1>1
<1>3. mid \in AccountRows /\ mid.status = row.status /\ mid.admin = row.admin /\ mid.password = row.password + 1
  BY <1>2 DEF AccountRows
<1> HIDE DEF mid
<1>4. new \in AccountRows /\ new.status = mid.status /\ new.admin = mid.admin
      /\ new.password = mid.password /\ ~new.mustChange
  BY <1>3 DEF AccountRows
<1>5. new = [row EXCEPT !.password = @ + 1, !.mustChange = FALSE]
  BY DEF mid
<1> QED BY <1>2, <1>3, <1>4, <1>5

(* setPasswordFromEmailedLink                                              *)
LEMMA SetsPasswordKeeps == ASSUME UserInv, NEW c \in Callers, SetsPassword(c) PROVE TablesInv'
<1> DEFINE r == request[c]
           u == r.user
           set == SetPassword(account[u])
           row == IF Activates(u) THEN [set EXCEPT !.status = "ACTIVE"] ELSE set
<1>1. /\ TableTypes /\ AccountsFit /\ LinksFit /\ RequestFits(r)
      /\ account \in [Users -> AccountRows] /\ activations \in [Users -> Nat]
  BY DEF UserInv, TablesInv, RequestsFit, TableTypes
<1>2. /\ r.kind = "LINK" /\ r.phase = "REVOKING" /\ Done(c)
      /\ account' = [account EXCEPT ![u] = row]
      /\ activations' = [activations EXCEPT ![u] = IF Activates(u) THEN @ + 1 ELSE @]
      /\ links' = links \ UnconsumedOf(u, {"ACTIVATION", "RESET"})
      /\ session' = Revoked(ToRevoke(c)) /\ escaped' = Escaped(c)
      /\ UNCHANGED <<issued, dead, suspensions>>
  BY DEF SetsPassword, SetPasswordFromEmailedLink, Revoking, ClearLinks
<1>3. u \in Users /\ account[u].status # "ABSENT" /\ r.family = 0 /\ r.locks = {u}
  BY <1>1, <1>2 DEF RequestFits, LinkFits
<1>4. account[u] \in AccountRows
  BY <1>1, <1>3
<1>5. /\ set \in AccountRows /\ set.status = account[u].status /\ set.password = account[u].password + 1
      /\ ~set.mustChange /\ set.admin = account[u].admin
  BY <1>4, NewPasswordRow DEF SetPassword
<1> HIDE DEF set
<1>6. /\ row \in AccountRows /\ row.password = account[u].password + 1 /\ ~row.mustChange
      /\ row.admin = account[u].admin
      /\ row.status = IF Activates(u) THEN "ACTIVE" ELSE account[u].status
  BY <1>5 DEF AccountRows
<1> HIDE DEF row
<1>7. account[u].password \in Nat
  BY <1>4 DEF AccountRows
<1>8. row.status \in {"ACTIVE", "SUSPENDED"} /\ row.password # 0
  BY <1>3, <1>4, <1>6, <1>7 DEF Activates, AccountRows
<1>9. /\ Evolves /\ \A d \in Callers \ {c} : Leaves(d)
      /\ session' \in Seq(SessionRows) /\ SessionsFit'
      /\ account' \in [Users -> AccountRows]
      /\ account'[u] = row /\ \A v \in Users \ {u} : account'[v] = account[v]
  <2>1. account[u].status = "ACTIVE" => row.status = "ACTIVE" /\ ~row.mustChange
    BY <1>6 DEF Activates
  <2>2. u \in r.locks /\ \A v \in Users : v \notin r.locks => suspensions'[v] = suspensions[v]
    BY <1>2, <1>3
  <2> QED BY <1>2, <1>3, <1>6, <1>8, <2>1, <2>2, AccountRevocation
<1>10. RequestsFit' /\ LocksExclusive' /\ RequestTypes'
  BY <1>2, <1>9, DoneKept
<1>11. LinksFit' /\ links' \subseteq Link
  <2>1. \A l \in links' : l \in links /\ l.user \in Users /\ l.user # u
    BY <1>1, <1>2 DEF TableTypes, Link, UnconsumedOf
  <2> QED BY <1>1, <1>9, <2>1 DEF LinksFit, LinksCurrent, TableTypes
<1>12. AccountsFit' /\ activations' \in [Users -> Nat]
  <2>1. AccountFits(u)
    BY <1>1, <1>3 DEF AccountsFit
  <2>2. PICK n \in Nat : n = IF Activates(u) THEN activations[u] + 1 ELSE activations[u]
    BY <1>1, <1>3
  <2>3. activations' = [activations EXCEPT ![u] = n]
    BY <1>1, <1>2, <2>2
  <2>4. /\ activations' \in [Users -> Nat] /\ activations'[u] = n
        /\ \A v \in Users \ {u} : activations'[v] = activations[v]
    BY <1>1, <1>3, <2>3
  <2>5. n = 1
    <3>1. CASE Activates(u)
      BY <2>1, <2>2, <3>1 DEF AccountFits, Activates
    <3>2. CASE ~Activates(u)
      <4>1. account[u].status \in {"ACTIVE", "SUSPENDED"}
        BY <1>6, <1>8, <3>2
      <4>2. activations[u] = 1
        BY <2>1, <4>1 DEF AccountFits
      <4> QED BY <2>2, <3>2, <4>2
    <3> QED BY <3>1, <3>2
  <2> QED BY <1>1, <1>8, <1>9, <2>4, <2>5 DEF AccountsFit, AccountFits
<1>13. TableTypes' /\ WithinLimit'
  BY <1>1, <1>2, <1>9, <1>11, <1>12 DEF TableTypes, WithinLimit, UserInv, TablesInv
<1> QED BY <1>9, <1>10, <1>11, <1>12, <1>13 DEF TablesInv

(* The commit of changePassword.                                           *)
LEMMA ChangesPasswordKeeps == ASSUME UserInv, NEW c \in Callers, ChangesPassword(c) PROVE TablesInv'
<1> DEFINE r == request[c]
           u == r.user
           row == [account[u] EXCEPT !.password = @ + 1, !.mustChange = FALSE]
<1>1. /\ TableTypes /\ AccountsFit /\ LinksFit /\ RequestFits(r)
      /\ account \in [Users -> AccountRows]
  BY DEF UserInv, TablesInv, RequestsFit, TableTypes
<1>2. /\ r.kind = "CHANGE" /\ r.phase = "REVOKING" /\ Done(c)
      /\ account' = [account EXCEPT ![u].password = @ + 1, ![u].mustChange = FALSE]
      /\ links' = links \ UnconsumedOf(u, {"RESET"})
      /\ session' = Revoked(ToRevoke(c)) /\ escaped' = Escaped(c)
      /\ UNCHANGED <<issued, activations, dead, suspensions>>
  BY DEF ChangesPassword, ChangeCommits, Revoking, WithoutResets
<1>3. u \in Users /\ account[u].password # 0 /\ r.family = 0 /\ r.locks = {u}
  BY <1>1, <1>2 DEF RequestFits, ChangeFits
<1>4. account[u] \in AccountRows
  BY <1>1, <1>3
<1>5. account' = [account EXCEPT ![u] = row]
  BY <1>1, <1>2, <1>3
<1>6. /\ row \in AccountRows /\ row.password = account[u].password + 1 /\ ~row.mustChange
      /\ row.admin = account[u].admin /\ row.status = account[u].status /\ row.password # 0
  BY <1>4, NewPasswordRow
<1> HIDE DEF row
<1>7. account[u].status = "ACTIVE" => row.status = "ACTIVE" /\ ~row.mustChange
  BY <1>6
<1>8. account[u].status \in {"ACTIVE", "SUSPENDED"} /\ AccountFits(u)
  BY <1>1, <1>3 DEF AccountsFit, AccountFits
<1>9. /\ Evolves /\ \A d \in Callers \ {c} : Leaves(d)
      /\ session' \in Seq(SessionRows) /\ SessionsFit'
      /\ account' \in [Users -> AccountRows]
      /\ account'[u] = row /\ \A v \in Users \ {u} : account'[v] = account[v]
  <2>1. u \in r.locks /\ \A v \in Users : v \notin r.locks => suspensions'[v] = suspensions[v]
    BY <1>2, <1>3
  <2>2. /\ account[u].status # "ABSENT" => row.status # "ABSENT"
        /\ account[u].password # 0 => row.password # 0
    BY <1>6
  <2>3. PICK v \in Users, new \in AccountRows : v = u /\ new = row
    BY <1>3, <1>6
  <2>4. /\ Evolves /\ \A d \in Callers \ {c} : Leaves(d)
        /\ session' \in Seq(SessionRows) /\ SessionsFit'
        /\ account' \in [Users -> AccountRows]
        /\ account'[v] = new /\ \A w \in Users \ {v} : account'[w] = account[w]
    <3>1. /\ session' = Revoked(ToRevoke(c)) /\ escaped' = Escaped(c) /\ dead' = dead
          /\ request[c].phase = "REVOKING" /\ request[c].user = v /\ request[c].family = 0
          /\ v \in request[c].locks
      BY <1>2, <1>3, <2>1, <2>3
    <3>2. /\ account' = [account EXCEPT ![v] = new]
          /\ account[v].status # "ABSENT" => new.status # "ABSENT"
          /\ account[v].password # 0 => new.password # 0
          /\ account[v].status = "ACTIVE" => new.status = "ACTIVE" /\ ~new.mustChange
      BY <1>5, <1>7, <2>2, <2>3
    <3>3. \A w \in Users : w \notin request[c].locks => suspensions'[w] = suspensions[w]
      BY <2>1
    <3> QED BY <3>1, <3>2, <3>3, AccountRevocation
  <2> QED BY <2>3, <2>4
<1>10. RequestsFit' /\ LocksExclusive' /\ RequestTypes'
  BY <1>2, <1>9, DoneKept
<1>11. LinksFit' /\ links' \subseteq Link
  <2>1. \A l \in links' : l \in links /\ l.user \in Users /\ (l.user = u => l.kind # "RESET")
    BY <1>1, <1>2 DEF TableTypes, Link, UnconsumedOf
  <2>2. LinksCurrent /\ \A l \in links : account[l.user].status # "ABSENT"
    BY <1>1 DEF LinksFit
  <2>3. ASSUME NEW l \in links'
        PROVE  /\ \A m \in links' : m.user = l.user /\ m.kind = l.kind => m = l
               /\ l.kind = "RESET" => l.under = account'[l.user].password
               /\ account'[l.user].status = account[l.user].status
    <3>1. l \in links /\ l.user \in Users /\ (l.user = u => l.kind # "RESET")
      BY <2>1
    <3>2. /\ \A m \in links : m.user = l.user /\ m.kind = l.kind => m = l
          /\ l.kind = "RESET" => l.under = account[l.user].password
      BY <2>2, <3>1 DEF LinksCurrent
    <3>3. CASE l.user = u
      BY <1>6, <1>9, <2>1, <3>1, <3>2, <3>3
    <3>4. CASE l.user # u
      BY <1>9, <2>1, <3>1, <3>2, <3>4
    <3> QED BY <3>3, <3>4
  <2>4. LinksFit'
    BY <2>1, <2>2, <2>3 DEF LinksFit, LinksCurrent
  <2> QED BY <1>1, <2>1, <2>4 DEF TableTypes
<1>12. AccountsFit'
  BY <1>1, <1>2, <1>6, <1>7, <1>8, <1>9 DEF AccountsFit, AccountFits
<1>13. TableTypes' /\ WithinLimit'
  BY <1>1, <1>2, <1>9, <1>11 DEF TableTypes, WithinLimit, UserInv, TablesInv
<1> QED BY <1>9, <1>10, <1>11, <1>12, <1>13 DEF TablesInv

(* A request that only has an alert left to raise expects nothing.         *)
LEMMA ToRaiseFits ==
    ASSUME NEW kind \in RolesAsked, NEW actor \in Users
    PROVE  LET r == ToRaise(kind, actor)
           IN  r \in Request /\ r.kind = "ALERT" /\ r.phase = "COUNTED" /\ RequestFits(r)
<1> DEFINE r == ToRaise(kind, actor)
<1>1. Idle \in Request
  BY IdleFits
<1>2. r \in Request /\ r.kind = "ALERT" /\ r.phase = "COUNTED"
  <2>1. "ALERT" \in Demands /\ "COUNTED" \in Phases
    BY DEF Demands, Phases
  <2> QED BY <1>1, <2>1 DEF ToRaise, Request
<1> HIDE DEF r
<1>3. RequestFits(r)
  BY <1>2 DEF RequestFits, RefreshFits, LogoutFits, StepUpFits, LinkFits, ChangeFits, SuspendFits, OtherFits
<1> QED BY <1>2, <1>3 DEF r

(* The commit of a suspension.                                             *)
LEMMA SuspendKeeps == ASSUME UserInv, NEW c \in Callers, SuspendCommits(c) PROVE TablesInv'
<1> DEFINE r == request[c]
           u == r.user
           row == [account[u] EXCEPT !.status = "SUSPENDED"]
<1>1. /\ TableTypes /\ AccountsFit /\ LinksFit /\ RequestFits(r) /\ r \in Request /\ WithinLimit
      /\ account \in [Users -> AccountRows] /\ suspensions \in [Users -> Nat]
  BY DEF UserInv, TablesInv, RequestsFit, TableTypes, RequestTypes
<1>2. /\ r.kind = "SUSPEND" /\ r.phase = "REVOKING"
      /\ account' = [account EXCEPT ![u].status = "SUSPENDED"]
      /\ session' = Revoked(ToRevoke(c)) /\ escaped' = Escaped(c)
      /\ suspensions' = [suspensions EXCEPT ![r.actor] = @ + 1]
      /\ Enter(c, ToRaise("BULK_SUSPENSIONS", r.actor)) \/ Done(c)
      /\ UNCHANGED <<links, issued, activations, dead>>
  BY DEF SuspendCommits, SetStatus, Revoking
<1>3. /\ u \in Users /\ r.actor \in Users /\ r.family = 0 /\ r.locks = {r.actor, u}
      /\ account[u].status = "ACTIVE" /\ suspensions[r.actor] < SuspensionsLimit
      /\ OfUser(u) \subseteq r.rows
  BY <1>1, <1>2 DEF RequestFits, SuspendFits
<1>4. account[u] \in AccountRows
  BY <1>1, <1>3
<1>5. account' = [account EXCEPT ![u] = row]
  BY <1>1, <1>2, <1>3
<1>6. /\ row \in AccountRows /\ row.password = account[u].password
      /\ row.admin = account[u].admin /\ row.status = "SUSPENDED"
  BY <1>4 DEF AccountRows
<1> HIDE DEF row
<1>7. /\ Evolves /\ \A d \in Callers \ {c} : Leaves(d)
      /\ session' \in Seq(SessionRows) /\ SessionsFit'
      /\ account' \in [Users -> AccountRows]
      /\ account'[u] = row /\ \A v \in Users \ {u} : account'[v] = account[v]
  <2>1. u \in r.locks /\ \A v \in Users : v \notin r.locks => suspensions'[v] = suspensions[v]
    BY <1>1, <1>2, <1>3
  <2>2. OfUser(u) \subseteq r.rows
    BY <1>3
  <2>3. /\ account[u].status # "ABSENT" => row.status # "ABSENT"
        /\ account[u].password # 0 => row.password # 0
    BY <1>6
  <2>4. PICK v \in Users, new \in AccountRows : v = u /\ new = row
    BY <1>3, <1>6
  <2>5. /\ Evolves /\ \A d \in Callers \ {c} : Leaves(d)
        /\ session' \in Seq(SessionRows) /\ SessionsFit'
        /\ account' \in [Users -> AccountRows]
        /\ account'[v] = new /\ \A w \in Users \ {v} : account'[w] = account[w]
    <3>1. /\ session' = Revoked(ToRevoke(c)) /\ escaped' = Escaped(c) /\ dead' = dead
          /\ request[c].phase = "REVOKING" /\ request[c].user = v /\ request[c].family = 0
          /\ v \in request[c].locks
      BY <1>2, <1>3, <2>1, <2>4
    <3>2. /\ account' = [account EXCEPT ![v] = new] /\ OfUser(v) \subseteq request[c].rows
          /\ account[v].status # "ABSENT" => new.status # "ABSENT"
          /\ account[v].password # 0 => new.password # 0
      BY <1>5, <2>2, <2>3, <2>4
    <3>3. \A w \in Users : w \notin request[c].locks => suspensions'[w] = suspensions[w]
      BY <2>1
    <3> QED BY <3>1, <3>2, <3>3, AccountRevocation
  <2> QED BY <2>4, <2>5
<1>8. RequestsFit' /\ LocksExclusive' /\ RequestTypes'
  <2>1. CASE Done(c)
    BY <1>7, <2>1, DoneKept
  <2>2. CASE Enter(c, ToRaise("BULK_SUSPENSIONS", r.actor))
    <3>1. PICK who \in Users : who = r.actor
      BY <1>3
    <3>2. "BULK_SUSPENSIONS" \in RolesAsked
      BY DEF RolesAsked
    <3>3. PICK new \in Request : /\ new = ToRaise("BULK_SUSPENSIONS", who)
                                /\ new.kind = "ALERT" /\ new.phase = "COUNTED"
      BY <3>2, ToRaiseFits
    <3>4. RequestFits(new)'
      BY <3>3 DEF RequestFits, RefreshFits, LogoutFits, StepUpFits, LinkFits, ChangeFits, SuspendFits,
                  OtherFits
    <3>5. Enter(c, new)
      BY <2>2, <3>1, <3>3
    <3> QED BY <1>7, <3>3, <3>4, <3>5, RequestsKept
  <2> QED BY <1>2, <2>1, <2>2
<1>9. LinksFit'
  <2>1. \A l \in links : l.user \in Users
    BY <1>1 DEF TableTypes, Link
  <2> QED BY SMTT(60), <1>1, <1>2, <1>3, <1>6, <1>7, <2>1 DEF LinksFit, LinksCurrent
<1>10. AccountsFit'
  BY <1>1, <1>2, <1>3, <1>6, <1>7 DEF AccountsFit, AccountFits
<1>11. WithinLimit' /\ suspensions' \in [Users -> Nat]
  <2>1. suspensions' \in [Users -> Nat] /\ suspensions'[r.actor] = suspensions[r.actor] + 1
    BY <1>1, <1>2, <1>3
  <2>2. \A v \in Users \ {r.actor} : suspensions'[v] = suspensions[v]
    BY <1>1, <1>2
  <2>3. suspensions'[r.actor] <= SuspensionsLimit
    BY <1>1, <1>3, <2>1, UserAssumption
  <2> QED BY <1>1, <2>1, <2>2, <2>3 DEF WithinLimit
<1>12. TableTypes'
  BY <1>1, <1>2, <1>7, <1>11 DEF TableTypes
<1> QED BY <1>7, <1>8, <1>9, <1>10, <1>11, <1>12 DEF TablesInv

-----------------------------------------------------------------------------
(* Every step of the service is of one of the kinds.                       *)

(* The requests that begin to revoke.                                      *)
LEMMA RevokeUserRecord ==
    ASSUME session \in Seq(SessionRows), NEW r \in Request, NEW locked \in SUBSET Users,
           NEW forUpdate \in BOOLEAN
    PROVE  LET new == RevokeUser(r, locked, forUpdate)
           IN  /\ new \in Request /\ new.kind = r.kind /\ new.user = r.user /\ new.actor = r.actor
               /\ new.family = r.family /\ new.row = r.row /\ new.phase = "REVOKING"
               /\ new.locks = locked /\ new.keyLock = forUpdate /\ new.rows = OfUser(r.user)
<1>1. OfUser(r.user) \in SUBSET Nat
  BY SessionTyped DEF OfUser
<1>2. "REVOKING" \in Phases
  BY DEF Phases
<1> QED BY <1>1, <1>2 DEF RevokeUser, Request

LEMMA RevokeFamilyRecord ==
    ASSUME session \in Seq(SessionRows), NEW r \in Request, NEW f \in Nat
    PROVE  LET new == RevokeFamily(r, f)
           IN  /\ new \in Request /\ new.kind = r.kind /\ new.user = r.user /\ new.row = r.row
               /\ new.family = f /\ new.phase = "REVOKING" /\ new.locks = r.locks
<1>1. OfFamily(f) \in SUBSET Nat
  BY SessionTyped DEF OfFamily
<1>2. "REVOKING" \in Phases
  BY DEF Phases
<1> QED BY <1>1, <1>2 DEF RevokeFamily, Request

(* A request that only reads, or ends.                                     *)
LEMMA DoneAsks ==
    ASSUME NEW c \in Callers, Done(c), UNCHANGED <<tables, links, issued>>
    PROVE  Asks(c)
<1>1. Enter(c, Idle)
  BY DEF Done, Enter
<1>2. Idle.kind = "IDLE" /\ Idle.phase = "IDLE"
  BY DEF Idle
<1>3. Admits(c, Idle)
  BY <1>1, <1>2, IdleFits DEF Admits
<1> QED BY <1>3, IdleFits DEF Asks

(* A request with no claim on the tables: what it does later is checked    *)
(* again.                                                                  *)
LEMMA ReadsAsk ==
    ASSUME NEW c \in Callers, NEW r \in Request, Enter(c, r), UNCHANGED <<tables, links, issued>>,
           r.kind \in {"LOGIN", "REACTIVATE", "ROLE", "APPROVE", "REJECT", "READ", "ALERT", "SUSPEND"},
           r.phase # "REVOKING", r.family = 0,
           r.kind \in {"LOGIN", "REACTIVATE", "ROLE", "SUSPEND"} => r.user \in Users,
           r.kind = "ROLE" => r.role \in Roles,
           r.kind \in {"ROLE", "SUSPEND"} => r.actor \in Users,
           r.kind \in {"APPROVE", "REJECT"} => r.link \in DOMAIN roleRequest
    PROVE  Asks(c)
<1>1. RequestFits(r)
  BY DEF RequestFits, RefreshFits, LogoutFits, StepUpFits, LinkFits, ChangeFits, SuspendFits, OtherFits
<1>2. Admits(c, r)
  BY <1>1 DEF Admits
<1> QED BY <1>2 DEF Asks

LEMMA AccountsSteps ==
    ASSUME UserInv, AccountsNext, UNCHANGED suspensions
    PROVE  UserMove
<1>0. Clients \subseteq Callers
  BY DEF Callers
<1>i. /\ session \in Seq(SessionRows) /\ links \subseteq Link /\ account \in [Users -> AccountRows]
      /\ request \in [Callers -> Request] /\ LinksFit /\ RequestsFit
  BY DEF UserInv, TablesInv, TableTypes, RequestTypes
<1>1. ASSUME NEW c \in Clients, NEW u \in Users, Register(c, u) PROVE UserMove
  <2>1. Registers(u)
    BY <1>1 DEF Register, Registers, Lapsed, sessionVars
  <2> QED BY <2>1 DEF UserMove
<1>2. ASSUME NEW c \in Clients, NEW u \in Users, ResendActivation(c, u) \/ RequestPasswordReset(c, u)
      PROVE  UserMove
  <2>1. Mails(u)
    BY <1>2 DEF ResendActivation, RequestPasswordReset, Mails, tables, sessionVars
  <2> QED BY <2>1 DEF UserMove
<1>3. ASSUME NEW c \in Clients, NEW u \in Users, SeedAdmin(c, u) PROVE UserMove
  <2>1. Seeds(u)
    BY <1>3 DEF SeedAdmin, Seeds, sessionVars
  <2> QED BY <2>1 DEF UserMove
<1>4. ASSUME NEW c \in Clients, NEW l \in links, ReadLink(c, l) PROVE UserMove
  <2> DEFINE r == [Idle EXCEPT !.kind = "LINK", !.phase = "HASHING", !.user = l.user, !.link = l.id]
  <2>1. /\ l.user \in Users /\ l.id \in Nat /\ account[l.user].status # "ABSENT"
        /\ "LINK" \in Demands /\ "HASHING" \in Phases
    BY <1>i DEF Link, LinksFit, Demands, Phases
  <2>2. Idle \in Request /\ Idle.family = 0
    BY IdleFits DEF Idle
  <2>3. r \in Request /\ r.kind = "LINK" /\ r.phase = "HASHING" /\ r.user = l.user /\ r.family = 0
    BY <2>1, <2>2 DEF Request
  <2>4. Enter(c, r) /\ UNCHANGED <<tables, links, issued>>
    BY <1>4 DEF ReadLink, tables, accountVars, sessionVars
  <2> HIDE DEF r
  <2>5. RequestFits(r)
    BY <2>1, <2>3 DEF RequestFits, RefreshFits, LogoutFits, StepUpFits, LinkFits, ChangeFits, SuspendFits,
                      OtherFits
  <2>6. Asks(c)
    BY <2>3, <2>4, <2>5 DEF Asks, Admits
  <2> QED BY <1>0, <2>6 DEF UserMove
<1>5. ASSUME NEW c \in Clients, ClaimLink(c) PROVE UserMove
  <2> DEFINE r == request[c]
             new == RevokeUser(r, {r.user}, TRUE)
  <2>1. /\ r.kind = "LINK" /\ r.phase = "HASHING" /\ RowFree(r.user, c)
        /\ Done(c) \/ Enter(c, new)
        /\ UNCHANGED <<tables, links, issued>>
    BY <1>5 DEF ClaimLink, tables, accountVars, sessionVars
  <2>2. CASE Done(c)
    BY <1>0, <2>1, <2>2, DoneAsks DEF UserMove
  <2>3. CASE Enter(c, new)
    <3>1. r \in Request /\ LinkFits(r)
      BY <1>0, <1>i DEF RequestsFit, RequestFits
    <3>2. r.user \in Users /\ account[r.user].status # "ABSENT" /\ r.family = 0
      BY <2>1, <3>1 DEF LinkFits
    <3>3. /\ new \in Request /\ new.kind = "LINK" /\ new.user = r.user /\ new.family = 0
          /\ new.phase = "REVOKING" /\ new.locks = {r.user}
      <4>1. {r.user} \in SUBSET Users /\ TRUE \in BOOLEAN
        BY <3>2
      <4> QED BY ZenonT(60), <1>i, <2>1, <3>1, <3>2, <4>1, RevokeUserRecord
    <3> HIDE DEF new
    <3>4. RequestFits(new)
      BY <3>2, <3>3 DEF RequestFits, RefreshFits, LogoutFits, StepUpFits, LinkFits, ChangeFits,
                        SuspendFits, OtherFits
    <3>5. Asks(c)
      BY <2>1, <2>3, <3>3, <3>4 DEF Asks, Admits
    <3> QED BY <1>0, <3>5 DEF UserMove
  <2> QED BY <2>1, <2>2, <2>3
<1>6. ASSUME NEW c \in Clients, SetPasswordFromEmailedLink(c) PROVE UserMove
  BY <1>0, <1>6 DEF SetsPassword, UserMove
<1>7. ASSUME NEW l \in links, LinkExpires(l) PROVE UserMove
  <2>1. LinkLapses(l)
    BY <1>7 DEF LinkExpires, LinkLapses, tables, sessionVars
  <2> QED BY <2>1 DEF UserMove
<1> QED BY <1>1, <1>2, <1>3, <1>4, <1>5, <1>6, <1>7 DEF AccountsNext

(* lockByHash, for a client or a tab.                                      *)
LEMMA LockByHashAsks ==
    ASSUME UserInv, NEW c \in Callers, NEW i \in DOMAIN session, LockByHash(c, i),
           UNCHANGED <<tables, links, issued>>
    PROVE  Asks(c)
<1> DEFINE r == [Idle EXCEPT !.kind = "REFRESH", !.phase = "ROTATING", !.user = session[i].user, !.row = i]
           new == RevokeFamily(r, session[i].family)
<1>1. session \in Seq(SessionRows)
  BY DEF UserInv, TablesInv, TableTypes
<1>2. /\ i \in Nat /\ session[i].user \in Users /\ session[i].family \in Nat
      /\ "REFRESH" \in Demands /\ "ROTATING" \in Phases
  BY <1>1, SessionTyped DEF Demands, Phases
<1>3. Idle \in Request /\ Idle.locks = {}
  BY IdleFits DEF Idle
<1>4. /\ r \in Request /\ r.kind = "REFRESH" /\ r.phase = "ROTATING" /\ r.user = session[i].user
      /\ r.row = i /\ r.locks = {}
  BY <1>2, <1>3 DEF Request
<1>5. /\ SessionFree(i, c)
      /\ \/ RefreshOutcome(i) = "OK" /\ Enter(c, r)
         \/ Enter(c, new)
         \/ Done(c)
  BY DEF LockByHash
<1> HIDE DEF r
<1>6. CASE RefreshOutcome(i) = "OK" /\ Enter(c, r)
  <2>1. ~session[i].rotated
    BY <1>6 DEF RefreshOutcome
  <2>2. RequestFits(r)
    BY <1>4, <2>1 DEF RequestFits, RefreshFits, LogoutFits, StepUpFits, LinkFits, ChangeFits, SuspendFits,
                      OtherFits
  <2> QED BY <1>4, <1>5, <1>6, <2>2 DEF Asks, Admits
<1>7. CASE Enter(c, new)
  <2>1. /\ new \in Request /\ new.kind = "REFRESH" /\ new.phase = "REVOKING" /\ new.user = session[i].user
        /\ new.row = i /\ new.locks = {} /\ new.family = session[i].family
    BY <1>1, <1>2, <1>4, RevokeFamilyRecord
  <2> HIDE DEF new
  <2>2. RequestFits(new)
    BY <2>1 DEF RequestFits, RefreshFits, LogoutFits, StepUpFits, LinkFits, ChangeFits, SuspendFits,
                OtherFits
  <2> QED BY <1>5, <1>7, <2>1, <2>2 DEF Asks, Admits
<1>8. CASE Done(c)
  BY <1>8, DoneAsks
<1> QED BY <1>5, <1>6, <1>7, <1>8

(* logout, for a client or a tab.                                          *)
LEMMA LogoutAsks ==
    ASSUME UserInv, NEW c \in Callers, NEW i \in DOMAIN session, NEW r \in Request,
           r.kind = "LOGOUT", r.row = i, r.locks = {}, Enter(c, RevokeFamily(r, session[i].family)),
           UNCHANGED <<tables, links, issued>>
    PROVE  Asks(c)
<1> DEFINE new == RevokeFamily(r, session[i].family)
<1>1. session \in Seq(SessionRows)
  BY DEF UserInv, TablesInv, TableTypes
<1>2. session[i].family \in Nat
  BY <1>1, SessionTyped
<1>3. /\ new \in Request /\ new.kind = "LOGOUT" /\ new.phase = "REVOKING"
      /\ new.row = i /\ new.locks = {} /\ new.family = session[i].family
  BY <1>1, <1>2, RevokeFamilyRecord
<1>4. Enter(c, new)
  OBVIOUS
<1> HIDE DEF new
<1>5. RequestFits(new)
  BY <1>3 DEF RequestFits, RefreshFits, LogoutFits, StepUpFits, LinkFits, ChangeFits, SuspendFits,
              OtherFits
<1> QED BY <1>3, <1>4, <1>5 DEF Asks, Admits

(* The request of a sign-in, for a client or a tab.                        *)
LEMMA LoginAsks ==
    ASSUME UserInv, NEW c \in Callers, NEW u \in Users,
           Enter(c, [Idle EXCEPT !.kind = "LOGIN", !.phase = "VERIFIED", !.user = u,
                                 !.hash = account[u].password]),
           UNCHANGED <<tables, links, issued>>
    PROVE  Asks(c)
<1> DEFINE r == [Idle EXCEPT !.kind = "LOGIN", !.phase = "VERIFIED", !.user = u,
                             !.hash = account[u].password]
<1>1. account[u].password \in Nat /\ "LOGIN" \in Demands /\ "VERIFIED" \in Phases
  BY DEF UserInv, TablesInv, TableTypes, AccountRows, Demands, Phases
<1>2. Idle \in Request /\ Idle.family = 0
  BY IdleFits DEF Idle
<1>3. r \in Request /\ r.kind = "LOGIN" /\ r.phase = "VERIFIED" /\ r.user = u /\ r.family = 0
  BY <1>1, <1>2 DEF Request
<1>4. Enter(c, r)
  OBVIOUS
<1> HIDE DEF r
<1> QED BY <1>3, <1>4, ReadsAsk

LEMMA SessionsSteps ==
    ASSUME UserInv, SessionsNext, UNCHANGED suspensions
    PROVE  UserMove
<1>0. Clients \subseteq Callers
  BY DEF Callers
<1>i. /\ session \in Seq(SessionRows) /\ account \in [Users -> AccountRows]
      /\ request \in [Callers -> Request] /\ RequestsFit /\ SessionsFit /\ AccountsFit
  BY DEF UserInv, TablesInv, TableTypes, RequestTypes
<1>1. ASSUME NEW c \in Clients, NEW u \in Users, Login(c, u) PROVE UserMove
  <2>1. Asks(c)
    BY <1>0, <1>1, LoginAsks DEF Login, tables, accountVars, sessionVars
  <2> QED BY <1>0, <2>1 DEF UserMove
<1>2. ASSUME NEW c \in Clients, NEW u \in Users, ChangePassword(c, u) PROVE UserMove
  <2> DEFINE r == [Idle EXCEPT !.kind = "CHANGE", !.phase = "VERIFIED", !.user = u,
                               !.hash = account[u].password]
  <2>1. account[u].password \in Nat /\ "CHANGE" \in Demands /\ "VERIFIED" \in Phases
    BY <1>i DEF AccountRows, Demands, Phases
  <2>2. Idle \in Request /\ Idle.family = 0
    BY IdleFits DEF Idle
  <2>3. r \in Request /\ r.kind = "CHANGE" /\ r.phase = "VERIFIED" /\ r.user = u /\ r.family = 0
    BY <2>1, <2>2 DEF Request
  <2>4. Enter(c, r) /\ UNCHANGED <<tables, links, issued>> /\ account[u].password # 0
    BY <1>2 DEF ChangePassword, tables, accountVars, sessionVars
  <2> HIDE DEF r
  <2>5. RequestFits(r)
    BY <2>3, <2>4 DEF RequestFits, RefreshFits, LogoutFits, StepUpFits, LinkFits, ChangeFits, SuspendFits,
                      OtherFits
  <2>6. Asks(c)
    BY <2>3, <2>4, <2>5 DEF Asks, Admits
  <2> QED BY <1>0, <2>6 DEF UserMove
<1>3. ASSUME NEW c \in Clients, NEW i \in DOMAIN session, Refresh(c, i) PROVE UserMove
  <2>1. Asks(c)
    BY <1>0, <1>3, LockByHashAsks DEF Refresh, tables, accountVars, sessionVars
  <2> QED BY <1>0, <2>1 DEF UserMove
<1>4. ASSUME NEW c \in Clients, NEW i \in DOMAIN session, Logout(c, i) PROVE UserMove
  <2> DEFINE r == [Idle EXCEPT !.kind = "LOGOUT", !.user = session[i].user, !.row = i]
  <2>1. i \in Nat /\ session[i].user \in Users /\ "LOGOUT" \in Demands
    BY <1>i, SessionTyped DEF Demands
  <2>2. Idle \in Request /\ Idle.locks = {}
    BY IdleFits DEF Idle
  <2>3. r \in Request /\ r.kind = "LOGOUT" /\ r.row = i /\ r.locks = {}
    BY <2>1, <2>2 DEF Request
  <2>4. Enter(c, RevokeFamily(r, session[i].family)) /\ UNCHANGED <<tables, links, issued>>
    BY <1>4 DEF Logout, tables, accountVars, sessionVars
  <2> HIDE DEF r
  <2>5. Asks(c)
    BY <1>0, <2>3, <2>4, LogoutAsks
  <2> QED BY <1>0, <2>5 DEF UserMove
<1>5. ASSUME NEW c \in Clients, NEW i \in DOMAIN session, StepUp(c, i) PROVE UserMove
  <2> DEFINE u == session[i].user
             r == [Idle EXCEPT !.kind = "STEP_UP", !.phase = "VERIFIED", !.row = i, !.user = u,
                               !.hash = account[u].password]
  <2>1. i \in Nat /\ u \in Users /\ "STEP_UP" \in Demands /\ "VERIFIED" \in Phases
    BY <1>i, SessionTyped DEF Demands, Phases
  <2>2. account[u].password \in Nat
    BY <1>i, <2>1 DEF AccountRows
  <2>3. Idle \in Request
    BY IdleFits
  <2>4. /\ r \in Request /\ r.kind = "STEP_UP" /\ r.phase = "VERIFIED" /\ r.row = i /\ r.user = u
        /\ r.hash = account[u].password
    BY <2>1, <2>2, <2>3 DEF Request
  <2>5. Enter(c, r) /\ UNCHANGED <<tables, links, issued>>
    BY <1>5 DEF StepUp, tables, accountVars, sessionVars
  <2> HIDE DEF r
  <2>6. RequestFits(r)
    BY <2>4 DEF RequestFits, RefreshFits, LogoutFits, StepUpFits, LinkFits, ChangeFits, SuspendFits,
                OtherFits
  <2>7. Asks(c)
    BY <2>4, <2>5, <2>6 DEF Asks, Admits
  <2> QED BY <1>0, <2>7 DEF UserMove
<1>6. ASSUME NEW c \in Clients, StartSession(c) PROVE UserMove
  <2>1. CASE Loginable(request[c].user, request[c].hash)
    <3>1. SignsIn(c)
      BY <1>6, <2>1 DEF StartSession, SignsIn, accountVars
    <3> QED BY <1>0, <3>1 DEF UserMove
  <2>2. CASE ~Loginable(request[c].user, request[c].hash)
    <3>1. Done(c) /\ UNCHANGED <<tables, links, issued>>
      BY <1>6, <2>2 DEF StartSession, tables, accountVars
    <3> QED BY <1>0, <3>1, DoneAsks DEF UserMove
  <2> QED BY <2>1, <2>2
<1>7. ASSUME NEW c \in Clients, RefreshCommits(c) PROVE UserMove
  <2>1. Refreshes(c)
    BY <1>7 DEF RefreshCommits, Refreshes, accountVars
  <2> QED BY <1>0, <2>1 DEF UserMove
<1>8. ASSUME NEW c \in Clients, RevokeCommits(c) PROVE UserMove
  <2>1. EndsFamily(c)
    BY <1>8 DEF RevokeCommits, EndsFamily, accountVars
  <2> QED BY <1>0, <2>1 DEF UserMove
<1>9. ASSUME NEW c \in Clients, ReplacePassword(c) PROVE UserMove
  <2> DEFINE r == request[c]
             new == RevokeUser(r, {r.user}, FALSE)
  <2>1. /\ r.kind = "CHANGE" /\ RowFree(r.user, c)
        /\ Done(c) \/ Enter(c, new)
        /\ UNCHANGED <<tables, links, issued>>
    BY <1>9 DEF ReplacePassword, tables, accountVars, sessionVars
  <2>2. CASE Done(c)
    BY <1>0, <2>1, <2>2, DoneAsks DEF UserMove
  <2>3. CASE Enter(c, new)
    <3>1. r \in Request /\ ChangeFits(r)
      BY <1>0, <1>i DEF RequestsFit, RequestFits
    <3>2. r.user \in Users /\ account[r.user].password # 0 /\ r.family = 0
      BY <2>1, <3>1 DEF ChangeFits
    <3>3. /\ new \in Request /\ new.kind = "CHANGE" /\ new.user = r.user /\ new.family = 0
          /\ new.phase = "REVOKING" /\ new.locks = {r.user}
      <4>1. {r.user} \in SUBSET Users /\ FALSE \in BOOLEAN
        BY <3>2
      <4> QED BY <1>i, <2>1, <3>1, <3>2, <4>1, RevokeUserRecord
    <3> HIDE DEF new
    <3>4. RequestFits(new)
      BY <3>2, <3>3 DEF RequestFits, RefreshFits, LogoutFits, StepUpFits, LinkFits, ChangeFits,
                        SuspendFits, OtherFits
    <3>5. Asks(c)
      BY <2>1, <2>3, <3>3, <3>4 DEF Asks, Admits
    <3> QED BY <1>0, <3>5 DEF UserMove
  <2> QED BY <2>1, <2>2, <2>3
<1>10. ASSUME NEW c \in Clients, ChangeCommits(c) PROVE UserMove
  BY <1>0, <1>10 DEF ChangesPassword, UserMove
<1>11. ASSUME NEW c \in Clients, MarkSteppedUp(c) PROVE UserMove
  <2>1. CASE MayMark(request[c].row)
    <3>1. Marks(c)
      BY <1>11, <2>1 DEF MarkSteppedUp, Marks, accountVars
    <3> QED BY <1>0, <3>1 DEF UserMove
  <2>2. CASE ~MayMark(request[c].row)
    <3>1. Done(c) /\ UNCHANGED <<tables, links, issued>>
      BY <1>11, <2>2 DEF MarkSteppedUp, tables, accountVars
    <3> QED BY <1>0, <3>1, DoneAsks DEF UserMove
  <2> QED BY <2>1, <2>2
<1>12. ASSUME NEW i \in DOMAIN session, SignInExpires(i) PROVE UserMove
  <2>1. Stands
    BY <1>12 DEF SignInExpires, Stands, tables, accountVars
  <2> QED BY <2>1 DEF UserMove
<1>13. ASSUME NEW i \in DOMAIN session, StepUpLapses(i) PROVE UserMove
  <2>1. Unmarks(i)
    BY <1>13 DEF StepUpLapses, Unmarks, accountVars
  <2> QED BY <2>1 DEF UserMove
<1> QED BY <1>1, <1>2, <1>3, <1>4, <1>5, <1>6, <1>7, <1>8, <1>9, <1>10, <1>11, <1>12, <1>13
        DEF SessionsNext

(* An administrative request: the guards have passed.                      *)
LEMMA GuardedAsks ==
    ASSUME UserInv, NEW c \in Callers, NEW i \in DOMAIN session, NEW r \in Request, Enter(c, r),
           UNCHANGED <<tables, links, issued>>, r.phase = "GUARDED", r.family = 0,
           r.actor = session[i].user, r.kind \in {"REACTIVATE", "ROLE", "SUSPEND"} => r.user \in Users,
           r.kind \in {"REACTIVATE", "ROLE", "APPROVE", "REJECT", "READ", "SUSPEND"},
           r.kind = "ROLE" => r.role \in Roles, r.kind \in {"APPROVE", "REJECT"} => r.link \in DOMAIN roleRequest
    PROVE  Asks(c)
<1>1. r.actor \in Users
  BY SessionTyped DEF UserInv, TablesInv, TableTypes
<1> QED BY <1>1, ReadsAsk

(* The rules let nobody change the role of an account that waits for its   *)
(* activation.                                                             *)
LEMMA RoleOfTheActive ==
    ASSUME UserInv, NEW a, NEW u \in Users, NEW role, NEW holders,
           RoleRules(a, u, role, holders) = "ALLOWED"
    PROVE  account[u].status # "PENDING_ACTIVATION"
<1>1. account[u].status = "PENDING_ACTIVATION" => ~account[u].admin
  BY DEF UserInv, TablesInv, AccountsFit, AccountFits
<1>2. account[u].admin \in BOOLEAN
  BY DEF UserInv, TablesInv, TableTypes, AccountRows
<1> QED BY <1>1, <1>2 DEF RoleRules

(* The suspension locks both accounts and looks at them.                   *)
LEMMA SuspendAsks == ASSUME UserInv, NEW c \in Clients, Suspend(c) PROVE Asks(c)
<1> DEFINE r == request[c]
           locked == {r.actor, r.user}
           new == RevokeUser(r, locked, TRUE)
           alert == ToRaise("SUSPENSION_LIMIT_REACHED", r.actor)
<1>0. c \in Callers
  BY DEF Callers
<1>1. /\ session \in Seq(SessionRows) /\ r \in Request /\ RequestFits(r) /\ suspensions \in [Users -> Nat]
  BY <1>0 DEF UserInv, TablesInv, TableTypes, RequestTypes, RequestsFit
<1>2. /\ r.kind = "SUSPEND" /\ \A u \in locked : RowFree(u, c)
      /\ UNCHANGED <<tables, links, issued>>
      /\ \/ Suspendable(c) /\ ~(suspensions[r.actor] >= SuspensionsLimit) /\ Enter(c, new)
         \/ Enter(c, alert)
         \/ Done(c)
  BY DEF Suspend, Waits, Lockable, LockUsers, tables, accountVars, sessionVars, adminVars
<1>3. r.user \in Users /\ r.actor \in Users /\ r.family = 0
  BY <1>1, <1>2 DEF RequestFits, SuspendFits
<1>4. CASE Suspendable(c) /\ ~(suspensions[r.actor] >= SuspensionsLimit) /\ Enter(c, new)
  <2>1. /\ account[r.user].status = "ACTIVE" /\ account[r.actor].status = "ACTIVE"
        /\ suspensions[r.actor] < SuspensionsLimit
    BY <1>1, <1>3, <1>4, UserAssumption DEF Suspendable, StillActs
  <2>2. locked \in SUBSET Users /\ TRUE \in BOOLEAN
    BY <1>3
  <2>3. /\ new \in Request /\ new.kind = "SUSPEND" /\ new.user = r.user /\ new.actor = r.actor
        /\ new.family = 0 /\ new.phase = "REVOKING" /\ new.locks = locked /\ new.keyLock
        /\ new.rows = OfUser(r.user)
    BY <1>1, <1>2, <1>3, <2>2, RevokeUserRecord
  <2> HIDE DEF new
  <2>4. RequestFits(new)
    BY <1>3, <2>1, <2>3 DEF RequestFits, RefreshFits, LogoutFits, StepUpFits, LinkFits, ChangeFits,
                            SuspendFits, OtherFits
  <2> QED BY <1>2, <1>4, <2>3, <2>4 DEF Asks, Admits
<1>5. CASE Enter(c, alert)
  <2>1. "SUSPENSION_LIMIT_REACHED" \in RolesAsked
    BY DEF RolesAsked
  <2>2. PICK who \in Users : who = r.actor
    BY <1>3
  <2>3. PICK new2 \in Request :
            /\ new2 = ToRaise("SUSPENSION_LIMIT_REACHED", who)
            /\ new2.kind = "ALERT" /\ new2.phase = "COUNTED" /\ RequestFits(new2)
    BY <2>1, ToRaiseFits
  <2>4. Enter(c, new2)
    BY <1>5, <2>2, <2>3
  <2> QED BY <1>2, <2>3, <2>4 DEF Asks, Admits
<1>6. CASE Done(c)
  BY <1>0, <1>2, <1>6, DoneAsks
<1> QED BY <1>2, <1>4, <1>5, <1>6

LEMMA AdminSteps ==
    ASSUME UserInv, AdminNext
    PROVE  UserMove
<1>0. Clients \subseteq Callers
  BY DEF Callers
<1>i. /\ session \in Seq(SessionRows) /\ account \in [Users -> AccountRows]
      /\ request \in [Callers -> Request] /\ RequestsFit /\ AccountsFit /\ RolesFit
      /\ roleRequest \in Seq(RoleRow)
  BY DEF UserInv, TablesInv, TableTypes, RequestTypes, RolesFit
<1>1. ASSUME NEW c \in Clients, NEW i \in DOMAIN session, NEW u \in Users,
             NEW k \in {"SUSPEND", "REACTIVATE", "READ", "ROLE"}, NEW role \in {"NONE", "ADMIN", "STUDENT"},
             k = "ROLE" => role \in Roles, AdminRequest(c, k, i, u, role)
      PROVE  UserMove
  <2> DEFINE r == [Idle EXCEPT !.kind = k, !.phase = "GUARDED", !.row = i,
                               !.actor = session[i].user, !.user = u, !.role = role]
  <2>1. /\ i \in Nat /\ session[i].user \in Users /\ k \in Demands /\ "GUARDED" \in Phases
        /\ role \in RolesAsked
    BY <1>i, SessionTyped DEF Demands, Phases, RolesAsked
  <2>2. Idle \in Request /\ Idle.family = 0
    BY IdleFits DEF Idle
  <2>3. /\ r \in Request /\ r.kind = k /\ r.phase = "GUARDED" /\ r.actor = session[i].user
        /\ r.user = u /\ r.family = 0 /\ r.role = role
    BY <2>1, <2>2 DEF Request
  <2>4. Enter(c, r) /\ UNCHANGED <<tables, links, issued>>
    BY <1>1 DEF AdminRequest, Guard, tables, accountVars, sessionVars, adminVars
  <2> HIDE DEF r
  <2>5. Asks(c)
    BY <1>0, <1>1, <2>3, <2>4, GuardedAsks
  <2> QED BY <1>0, <2>5 DEF UserMove
<1>2. ASSUME NEW c \in Clients, NEW i \in DOMAIN session, NEW q \in DOMAIN roleRequest,
             NEW k \in {"APPROVE", "REJECT"}, DecisionRequest(c, k, i, q)
      PROVE  UserMove
  <2> DEFINE r == [Idle EXCEPT !.kind = k, !.phase = "GUARDED", !.row = i,
                               !.actor = session[i].user, !.link = q]
  <2>1. i \in Nat /\ session[i].user \in Users /\ k \in Demands /\ "GUARDED" \in Phases /\ q \in Nat
    BY <1>i, SessionTyped DEF Demands, Phases
  <2>2. Idle \in Request /\ Idle.family = 0
    BY IdleFits DEF Idle
  <2>3. /\ r \in Request /\ r.kind = k /\ r.phase = "GUARDED" /\ r.actor = session[i].user
        /\ r.family = 0 /\ r.link = q
    BY <2>1, <2>2 DEF Request
  <2>4. Enter(c, r) /\ UNCHANGED <<tables, links, issued>>
    BY <1>2 DEF DecisionRequest, Guard, tables, accountVars, sessionVars, adminVars
  <2> HIDE DEF r
  <2>5. Asks(c)
    BY <1>0, <2>3, <2>4, GuardedAsks
  <2> QED BY <1>0, <2>5 DEF UserMove
<1>3. ASSUME NEW c \in Clients, Suspend(c) \/ SuspendCommits(c) PROVE UserMove
  BY <1>0, <1>3, SuspendAsks DEF UserMove
<1>4. ASSUME NEW c \in Clients, RaiseOncePerHour(c) \/ ReadUser(c) \/ RejectRoleRequest(c)
      PROVE  UserMove
  <2>1. Done(c) /\ UNCHANGED <<tables, links, issued>>
    BY <1>4 DEF RaiseOncePerHour, ReadUser, RejectRoleRequest, tables, accountVars, sessionVars
  <2> QED BY <1>0, <2>1, DoneAsks DEF UserMove
<1>5. ASSUME NEW c \in Clients, Reactivate(c) PROVE UserMove
  <2> DEFINE u == request[c].user
  <2>1. u \in Users
    BY <1>0, <1>5, <1>i DEF Reactivate, Waits, RequestsFit, RequestFits, OtherFits
  <2>2. CASE UNCHANGED account
    <3>1. Done(c) /\ UNCHANGED <<tables, links, issued>>
      BY <1>5, <2>2 DEF Reactivate, tables, sessionVars
    <3> QED BY <1>0, <3>1, DoneAsks DEF UserMove
  <2>3. CASE account[u].status = "SUSPENDED" /\ SetStatus(u, "ACTIVE")
    <3>1. Reinstates(c, u)
      BY <1>5, <2>3 DEF Reactivate, Reinstates, sessionVars
    <3> QED BY <1>0, <2>1, <3>1 DEF UserMove
  <2> QED BY <1>5, <2>2, <2>3 DEF Reactivate
<1>6. ASSUME NEW c \in Clients, TakeSnapshot(c) PROVE UserMove
  <2> DEFINE r == request[c]
             new == [r EXCEPT !.phase = "WAITING", !.holders = Holders]
  <2>1. /\ r.kind \in {"SUSPEND", "REACTIVATE", "ROLE", "APPROVE", "REJECT"}
        /\ Enter(c, new) /\ UNCHANGED <<tables, links, issued>>
    BY <1>6 DEF TakeSnapshot, tables, accountVars, sessionVars, adminVars
  <2>2. r \in Request /\ RequestFits(r)
    BY <1>0, <1>i DEF RequestsFit
  <2>3. Holders \in SUBSET Users /\ "WAITING" \in Phases
    BY DEF Holders, Phases
  <2>4. /\ new \in Request /\ new.kind = r.kind /\ new.phase = "WAITING" /\ new.user = r.user
        /\ new.actor = r.actor /\ new.family = r.family /\ new.link = r.link /\ new.role = r.role
    BY <2>2, <2>3 DEF Request
  <2> HIDE DEF new
  <2>5. RequestFits(new)
    BY <2>1, <2>2, <2>4 DEF RequestFits, RefreshFits, LogoutFits, StepUpFits, LinkFits, ChangeFits,
                            SuspendFits, OtherFits
  <2>6. Asks(c)
    BY <1>0, <1>i, <2>1, <2>4, <2>5 DEF Asks, Admits, RolesFit
  <2> QED BY <1>0, <2>6 DEF UserMove
<1>7. ASSUME NEW c \in Clients, RequestRoleChange(c) PROVE UserMove
  <2> DEFINE r == request[c]
  <2>1. r.user \in Users /\ r.role \in RolesAsked
    BY <1>0, <1>7, <1>i DEF RequestRoleChange, Waits, RequestsFit, RequestFits, OtherFits, Request
  <2>2. CASE UNCHANGED account
    <3>1. Done(c) /\ UNCHANGED <<tables, links, issued>>
      BY <1>7, <2>2 DEF RequestRoleChange, tables, sessionVars
    <3> QED BY <1>0, <3>1, DoneAsks DEF UserMove
  <2>3. CASE /\ RoleRules(r.actor, r.user, r.role, Listed(c)) = "ALLOWED"
             /\ account' = [account EXCEPT ![r.user] = WithRole(@, r.role)]
    <3>1. account[r.user].status # "PENDING_ACTIVATION"
      BY <2>1, <2>3, RoleOfTheActive
    <3>2. ChangesRole(c, r.user, r.role)
      BY <1>7, <2>3, <3>1 DEF RequestRoleChange, ChangesRole, sessionVars
    <3> QED BY <1>0, <2>1, <3>2 DEF UserMove
  <2> QED BY <1>7, <2>2, <2>3 DEF RequestRoleChange, ApplyRoleChange
<1>8. ASSUME NEW c \in Clients, ApproveRoleRequest(c) PROVE UserMove
  <2> DEFINE r == request[c]
             o == roleRequest[r.link]
  <2>1. CASE UNCHANGED account
    <3>1. Done(c) /\ UNCHANGED <<tables, links, issued>>
      BY <1>8, <2>1 DEF ApproveRoleRequest, tables, sessionVars
    <3> QED BY <1>0, <3>1, DoneAsks DEF UserMove
  <2>2. CASE /\ RoleRules(o.by, o.target, o.role, Listed(c)) = "ALLOWED"
             /\ account' = [account EXCEPT ![o.target] = WithRole(@, o.role)]
             /\ r.link \in DOMAIN roleRequest
    <3>0. o \in RoleRow
      BY <1>i, <2>2
    <3>1. o.target \in Users /\ o.role \in RolesAsked
      BY <3>0 DEF RoleRow, Roles, RolesAsked
    <3>2. account[o.target].status # "PENDING_ACTIVATION"
      BY <2>2, <3>1, RoleOfTheActive
    <3>3. ChangesRole(c, o.target, o.role)
      BY <1>8, <2>2, <3>2 DEF ApproveRoleRequest, ChangesRole, sessionVars
    <3> QED BY <1>0, <3>1, <3>3 DEF UserMove
  <2>3. r.link \in DOMAIN roleRequest
    BY <1>0, <1>8, <1>i DEF ApproveRoleRequest, Waits, RolesFit
  <2> QED BY <1>8, <2>1, <2>2, <2>3 DEF ApproveRoleRequest, ApplyRoleChange
<1>9. ASSUME NEW q \in DOMAIN roleRequest, RoleRequestLapses(q) PROVE UserMove
  <2>1. Stands
    BY <1>9 DEF RoleRequestLapses, Stands, tables, accountVars, sessionVars
  <2> QED BY <2>1 DEF UserMove
<1>10. ASSUME NEW c \in Clients, NEW i \in DOMAIN session, NEW u \in Users,
              \/ \E k \in {"SUSPEND", "REACTIVATE", "READ"} : AdminRequest(c, k, i, u, "NONE")
              \/ \E role \in {"ADMIN", "STUDENT"} : AdminRequest(c, "ROLE", i, u, role)
       PROVE  UserMove
  <2>1. ASSUME NEW k \in {"SUSPEND", "REACTIVATE", "READ"}, AdminRequest(c, k, i, u, "NONE")
        PROVE  UserMove
    BY <1>1, <2>1
  <2>2. ASSUME NEW role \in {"ADMIN", "STUDENT"}, AdminRequest(c, "ROLE", i, u, role)
        PROVE  UserMove
    BY <1>1, <2>2 DEF Roles
  <2> QED BY <1>10, <2>1, <2>2
<1> QED BY <1>2, <1>3, <1>4, <1>5, <1>6, <1>7, <1>8, <1>9, <1>10, Zenon DEF AdminNext

(* A tab's two connections are callers of the service.                     *)
LEMMA TabsCall == ASSUME NEW t \in Tabs PROVE Wire(t) \in Callers /\ Form(t) \in Callers
  BY DEF Wire, Form, Callers

(* A sign-out with the cookie.                                             *)
LEMMA CookieLogoutAsks ==
    ASSUME UserInv, NEW c \in Callers, jar # 0, UNCHANGED <<tables, links, issued>>,
           Enter(c, RevokeFamily([Idle EXCEPT !.kind = "LOGOUT", !.row = jar,
                                              !.user = session[jar].user], session[jar].family))
    PROVE  Asks(c)
<1> PICK i \in DOMAIN session : i = jar
  BY DEF UserInv, CookiesFit, Tokens
<1> DEFINE r == [Idle EXCEPT !.kind = "LOGOUT", !.row = i, !.user = session[i].user]
<1>1. i \in Nat /\ session[i].user \in Users /\ "LOGOUT" \in Demands
  BY SessionTyped DEF UserInv, TablesInv, TableTypes, Demands
<1>2. Idle \in Request /\ Idle.locks = {}
  BY IdleFits DEF Idle
<1>3. r \in Request /\ r.kind = "LOGOUT" /\ r.row = i /\ r.locks = {}
  BY <1>1, <1>2 DEF Request
<1>4. Enter(c, RevokeFamily(r, session[i].family))
  OBVIOUS
<1> HIDE DEF r
<1> QED BY <1>3, <1>4, LogoutAsks

LEMMA BrowserSteps ==
    ASSUME UserInv, BrowserNext, UNCHANGED suspensions
    PROVE  UserMove
<1>1. ASSUME NEW t \in Tabs,
             \/ TabRefresh(t) \/ TabRefreshed(t) \/ TabGivesUp(t) \/ TabSignedIn(t) \/ TabSignInFails(t)
             \/ TabSignedOut(t) \/ TabSignOutFails(t) \/ TabTold(t)
      PROVE  UserMove
  <2>1. Stands
    BY <1>1 DEF TabRefresh, TabRefreshed, TabGivesUp, TabSignedIn, TabSignInFails, TabSignedOut,
                TabSignOutFails, SignsOut, TabTold, Stands, tables, accountVars, sessionVars
  <2> QED BY <2>1 DEF UserMove
<1>2. ASSUME NEW t \in Tabs, Rotates(t) PROVE UserMove
  <2>1. UNCHANGED <<tables, links, issued>>
    BY <1>2 DEF Rotates, tables, accountVars, sessionVars
  <2>2. CASE UNCHANGED request
    BY <2>1, <2>2 DEF UserMove, Stands
  <2>3. CASE jar # 0 /\ pending
    <3>1. Asks(Wire(t))
      BY <1>2, <2>1, <2>3, TabsCall, CookieLogoutAsks DEF Rotates
    <3> QED BY <3>1, TabsCall DEF UserMove
  <2>4. CASE jar # 0 /\ ~pending
    <3>1. PICK i \in DOMAIN session : i = jar
      BY <2>4 DEF UserInv, CookiesFit, Tokens
    <3>2. LockByHash(Wire(t), i)
      BY <1>2, <2>4, <3>1 DEF Rotates
    <3>3. Asks(Wire(t))
      BY <2>1, <3>2, TabsCall, LockByHashAsks
    <3> QED BY <3>3, TabsCall DEF UserMove
  <2> QED BY <1>2, <2>2, <2>3, <2>4 DEF Rotates
<1>3. ASSUME NEW t \in Tabs, ServeRotation(t) PROVE UserMove
  <2>1. Refreshes(Wire(t))
    BY <1>3 DEF ServeRotation, Refreshes, accountVars
  <2> QED BY <2>1, TabsCall DEF UserMove
<1>4. ASSUME NEW t \in Tabs, ServeRevocation(t) PROVE UserMove
  <2>1. EndsFamily(Wire(t))
    BY <1>4 DEF ServeRevocation, EndsFamily, accountVars
  <2> QED BY <2>1, TabsCall DEF UserMove
<1>5. ASSUME NEW t \in Tabs, ServeLogout(t) PROVE UserMove
  <2>1. EndsFamily(Form(t))
    BY <1>5 DEF ServeLogout, EndsFamily, accountVars
  <2> QED BY <2>1, TabsCall DEF UserMove
<1>6. ASSUME NEW t \in Tabs, NEW u \in Users, TabLogin(t, u) PROVE UserMove
  <2>1. Asks(Form(t))
    BY <1>6, TabsCall, LoginAsks DEF TabLogin, tables, accountVars, sessionVars
  <2> QED BY <2>1, TabsCall DEF UserMove
<1>7. ASSUME NEW t \in Tabs, ServeLogin(t) PROVE UserMove
  <2> DEFINE r == request[Form(t)]
  <2>1. CASE Loginable(r.user, r.hash)
    <3>1. SignsIn(Form(t))
      BY <1>7, <2>1 DEF ServeLogin, SignsIn, accountVars
    <3> QED BY <3>1, TabsCall DEF UserMove
  <2>2. CASE ~Loginable(r.user, r.hash)
    <3>1. Done(Form(t)) /\ UNCHANGED <<tables, links, issued>>
      BY <1>7, <2>2 DEF ServeLogin, tables, accountVars
    <3> QED BY <3>1, TabsCall, DoneAsks DEF UserMove
  <2> QED BY <2>1, <2>2
<1>8. ASSUME NEW t \in Tabs, TabLogout(t) \/ RetryLogout(t) PROVE UserMove
  <2>1. PICK doing : AskLogout(t, doing)
    BY <1>8 DEF TabLogout, RetryLogout
  <2>2. UNCHANGED <<tables, links, issued>>
    BY <2>1 DEF AskLogout, tables, accountVars, sessionVars
  <2>3. CASE UNCHANGED request
    BY <2>2, <2>3 DEF UserMove, Stands
  <2>4. CASE jar # 0
    <3>1. Asks(Form(t))
      BY <2>1, <2>2, <2>4, TabsCall, CookieLogoutAsks DEF AskLogout
    <3> QED BY <3>1, TabsCall DEF UserMove
  <2> QED BY <2>1, <2>3, <2>4 DEF AskLogout
<1> QED BY <1>1, <1>2, <1>3, <1>4, <1>5, <1>6, <1>7, <1>8, Zenon DEF BrowserNext

(* Whatever happens is a step of one of the kinds.                         *)
LEMMA EveryStep == ASSUME UserInv, [UserNext]_userVars PROVE UserMove
<1>1. CASE (AccountsNext \/ SessionsNext) /\ UNCHANGED <<adminVars, browserVars>>
  BY <1>1, AccountsSteps, SessionsSteps DEF adminVars
<1>2. CASE AdminNext
  BY <1>2, AdminSteps
<1>3. CASE BrowserNext /\ UNCHANGED adminVars
  BY <1>3, BrowserSteps DEF adminVars
<1>4. ASSUME NEW c \in Callers, NEW d \in Callers, DeadlockVictim(c, d) PROVE UserMove
  <2>1. Done(c) /\ UNCHANGED <<tables, links, issued>>
    BY <1>4 DEF DeadlockVictim, tables, accountVars, sessionVars, adminVars
  <2> QED BY <2>1, DoneAsks DEF UserMove
<1>5. ASSUME NEW c \in Clients, RequestFails(c) PROVE UserMove
  <2>1. Done(c) /\ UNCHANGED <<tables, links, issued>> /\ c \in Callers
    BY <1>5 DEF RequestFails, tables, accountVars, sessionVars, adminVars, Callers
  <2> QED BY <2>1, DoneAsks DEF UserMove
<1>6. CASE UNCHANGED userVars
  <2>1. Stands
    BY <1>6 DEF Stands, userVars, tables, accountVars, sessionVars, adminVars
  <2> QED BY <2>1 DEF UserMove
<1> QED BY <1>1, <1>2, <1>3, <1>4, <1>5, <1>6 DEF UserNext

LEMMA MoveKeepsTables == ASSUME UserInv, UserMove PROVE TablesInv'
  BY StandsKeeps, AsksKeeps, SignsInKeeps, RefreshesKeeps, EndsFamilyKeeps, MarksKeeps, SetsPasswordKeeps,
     ChangesPasswordKeeps, SuspendKeeps, ReinstatesKeeps, ChangesRoleKeeps, MailsKeeps, RegistersKeeps,
     SeedsKeeps, LinkLapsesKeeps, UnmarksKeeps, Zenon DEF UserMove

-----------------------------------------------------------------------------
(* The role requests and the cookies.                                      *)

(* No row of refresh_sessions is deleted.                                  *)
LEMMA SessionsGrow == ASSUME UserInv, UserMove PROVE DOMAIN session \subseteq DOMAIN session'
<1>1. session \in Seq(SessionRows) /\ DOMAIN session = 1 .. Len(session) /\ Len(session) \in Nat
  BY SessionTyped DEF UserInv, TablesInv, TableTypes
<1>2. CASE UNCHANGED session
  BY <1>2
<1>3. ASSUME NEW c \in Callers, SignsIn(c) PROVE DOMAIN session \subseteq DOMAIN session'
  <2>1. PICK row : session' = Append(session, row)
    BY <1>3 DEF SignsIn
  <2> QED BY <1>1, <2>1
<1>4. ASSUME NEW c \in Callers, Refreshes(c) PROVE DOMAIN session \subseteq DOMAIN session'
  <2>1. PICK row, i : session' = Append([session EXCEPT ![i].rotated = TRUE], row)
    BY <1>4 DEF Refreshes, Rotate
  <2>2. PICK s : s = [session EXCEPT ![i].rotated = TRUE]
    OBVIOUS
  <2>3. DOMAIN s = 1 .. Len(session) /\ Len(s) = Len(session)
    BY <1>1, <2>2
  <2>4. DOMAIN Append(s, row) = 1 .. (Len(s) + 1)
    BY <2>3
  <2> QED BY <1>1, <2>1, <2>2, <2>3, <2>4
<1>5. ASSUME NEW c \in Callers,
             EndsFamily(c) \/ SetsPassword(c) \/ ChangesPassword(c) \/ SuspendCommits(c)
      PROVE  DOMAIN session \subseteq DOMAIN session'
  <2>1. UNCHANGED session \/ \E rows : session' = Revoked(rows)
    BY <1>5 DEF EndsFamily, FamilyRevoked, AfterRevocation, SetsPassword, SetPasswordFromEmailedLink,
                ChangesPassword, ChangeCommits, SuspendCommits
  <2> QED BY <2>1 DEF Revoked
<1>6. ASSUME NEW c \in Callers, Marks(c) PROVE DOMAIN session \subseteq DOMAIN session'
  BY <1>6 DEF Marks
<1>7. ASSUME NEW i \in DOMAIN session, Unmarks(i) PROVE DOMAIN session \subseteq DOMAIN session'
  BY <1>7 DEF Unmarks
<1>8. \/ UNCHANGED session
      \/ \E c \in Callers :
            \/ SignsIn(c) \/ Refreshes(c) \/ EndsFamily(c) \/ Marks(c) \/ SetsPassword(c)
            \/ ChangesPassword(c) \/ SuspendCommits(c)
      \/ \E i \in DOMAIN session : Unmarks(i)
  BY DEF UserMove, Stands, Asks, Mails, LinkLapses, Registers, Seeds, Reinstates, ChangesRole, tables
<1> QED BY <1>2, <1>3, <1>4, <1>5, <1>6, <1>7, <1>8

(* Only a caller with a decision to make names a role request.             *)
LEMMA DecisionsNamed ==
    ASSUME UserInv, UserMove, NEW c \in Callers, request'[c].kind \in {"APPROVE", "REJECT"}
    PROVE  request'[c].link \in DOMAIN roleRequest
<1>1. request \in [Callers -> Request] /\ RolesFit
  BY DEF UserInv, TablesInv, RequestTypes
<1>2. Idle.kind = "IDLE"
  BY DEF Idle
<1>3. CASE UNCHANGED request
  BY <1>1, <1>3 DEF RolesFit
<1>4. ASSUME NEW d \in Callers, NEW r, Enter(d, r),
             r.kind \in {"APPROVE", "REJECT"} => r.link \in DOMAIN roleRequest
      PROVE  request'[c].link \in DOMAIN roleRequest
  BY <1>1, <1>4 DEF Enter, RolesFit
<1>5. ASSUME NEW d \in Callers, Done(d) PROVE request'[c].link \in DOMAIN roleRequest
  <2>1. Enter(d, Idle)
    BY <1>5 DEF Done, Enter
  <2> QED BY <1>2, <1>4, <2>1
<1>6. ASSUME NEW d \in Callers, Asks(d) PROVE request'[c].link \in DOMAIN roleRequest
  BY <1>4, <1>6 DEF Asks, Admits
<1>7. ASSUME NEW d \in Callers, SuspendCommits(d) PROVE request'[c].link \in DOMAIN roleRequest
  <2>1. ToRaise("BULK_SUSPENSIONS", request[d].actor).kind = "ALERT"
    BY DEF ToRaise, Idle
  <2> QED BY <1>4, <1>5, <1>7, <2>1 DEF SuspendCommits
<1>8. \/ UNCHANGED request
      \/ \E d \in Callers : Done(d) \/ Asks(d) \/ SuspendCommits(d)
  <2>1. ASSUME NEW d \in Callers,
               \/ SignsIn(d) \/ Refreshes(d) \/ EndsFamily(d) \/ Marks(d) \/ SetsPassword(d)
               \/ ChangesPassword(d)
               \/ \E u \in Users : Reinstates(d, u) \/ \E role \in RolesAsked : ChangesRole(d, u, role)
        PROVE  Done(d)
    BY <2>1 DEF SignsIn, Refreshes, EndsFamily, Marks, SetsPassword, SetPasswordFromEmailedLink,
                ChangesPassword, ChangeCommits, Reinstates, ChangesRole
  <2> QED BY <2>1 DEF UserMove, Stands, Mails, LinkLapses, Registers, Seeds, Unmarks
<1> QED BY <1>3, <1>5, <1>6, <1>7, <1>8

(* A role request is kept, whatever becomes of it, and so is the trail.    *)
SameRequests(s) ==
    /\ s \in Seq(RoleRow) /\ DOMAIN s = DOMAIN roleRequest /\ Len(s) = Len(roleRequest)
    /\ \A q \in DOMAIN roleRequest : s[q].by = roleRequest[q].by /\ s[q].target = roleRequest[q].target

(* A new one is in the trail.                                              *)
RequestMade(s, row) ==
    /\ SameRequests(s) /\ roleRequest' = Append(s, row)
    /\ [action |-> "ROLE_CHANGE_REQUESTED", actor |-> row.by,
        target |-> row.target, approval |-> "NONE"] \in audit'

LEMMA RoleRequestsKept ==
    ASSUME UserInv, [UserNext]_userVars
    PROVE  /\ audit \subseteq audit'
           /\ \/ SameRequests(roleRequest')
              \/ \E s : \E row \in RoleRow : RequestMade(s, row)
<1>1. /\ roleRequest \in Seq(RoleRow) /\ Len(roleRequest) \in Nat
      /\ DOMAIN roleRequest = 1 .. Len(roleRequest)
  BY DEF UserInv, RolesFit
<1>2. ASSUME UNCHANGED roleRequest PROVE SameRequests(roleRequest')
  BY <1>1, <1>2 DEF SameRequests
<1>3. ASSUME NEW q, NEW status \in {"PENDING", "EXPIRED", "APPROVED", "REJECTED"},
             roleRequest' = [roleRequest EXCEPT ![q].status = status]
      PROVE  SameRequests(roleRequest')
  <2>1. \A row \in RoleRow : LET new == [row EXCEPT !.status = status]
                             IN  new \in RoleRow /\ new.by = row.by /\ new.target = row.target
    BY DEF RoleRow
  <2>2. \A p \in DOMAIN roleRequest : roleRequest[p] \in RoleRow
    BY <1>1
  <2>3. roleRequest' = [p \in 1 .. Len(roleRequest) |-> IF p = q THEN [roleRequest[p] EXCEPT !.status = status]
                                                              ELSE roleRequest[p]]
    BY <1>1, <1>3
  <2>4. \A p \in 1 .. Len(roleRequest) :
           /\ roleRequest'[p] \in RoleRow
           /\ roleRequest'[p].by = roleRequest[p].by /\ roleRequest'[p].target = roleRequest[p].target
    BY <1>1, <2>1, <2>2, <2>3
  <2>5. roleRequest' = [p \in 1 .. Len(roleRequest) |-> roleRequest'[p]]
    BY <2>3
  <2> QED BY <1>1, <2>4, <2>5 DEF SameRequests
<1>4. ASSUME NEW u, NEW s, s = Swept(u) PROVE SameRequests(s)
  <2>1. \A row \in RoleRow : LET new == [row EXCEPT !.status = "EXPIRED"]
                             IN  new \in RoleRow /\ new.by = row.by /\ new.target = row.target
    BY DEF RoleRow
  <2>2. /\ DOMAIN s = 1 .. Len(roleRequest)
        /\ \A q \in 1 .. Len(roleRequest) :
              s[q] \in RoleRow /\ s[q].by = roleRequest[q].by /\ s[q].target = roleRequest[q].target
    BY <1>1, <1>4, <2>1 DEF Swept
  <2>3. s = [q \in 1 .. Len(roleRequest) |-> s[q]]
    BY <1>1, <1>4 DEF Swept
  <2> QED BY <1>1, <2>2, <2>3 DEF SameRequests
<1>5. ASSUME NEW c \in Clients, RequestRoleChange(c)
      PROVE  \/ SameRequests(roleRequest')
             \/ \E s : \E row \in RoleRow : RequestMade(s, row)
  <2> DEFINE r == request[c]
             row == NewRoleRequest(r)
  <2>1. PICK s : s = Swept(r.user)
    OBVIOUS
  <2>2. SameRequests(s)
    BY <1>4, <2>1
  <2>3. row \in RoleRow
    <3>1. c \in Callers /\ r.kind = "ROLE"
      BY <1>5 DEF RequestRoleChange, Waits, Callers
    <3>2. r.user \in Users /\ r.role \in Roles /\ r.actor \in Users
      BY <3>1 DEF UserInv, TablesInv, RequestTypes, RequestsFit, RequestFits, OtherFits
    <3> QED BY <3>2 DEF NewRoleRequest, RoleRow
  <2>4. row.by = r.actor /\ row.target = r.user
    BY DEF NewRoleRequest
  <2> HIDE DEF row
  <2>5. \/ roleRequest' = s
        \/ /\ roleRequest' = Append(s, row)
           /\ Record("ROLE_CHANGE_REQUESTED", r.actor, r.user, "NONE")
        \/ roleRequest' = roleRequest
    BY <1>5, <2>1 DEF RequestRoleChange, row
  <2>6. CASE roleRequest' = Append(s, row) /\ Record("ROLE_CHANGE_REQUESTED", r.actor, r.user, "NONE")
    <3>1. RequestMade(s, row)
      BY <2>2, <2>4, <2>6 DEF Record, RequestMade
    <3> QED BY <2>3, <3>1
  <2> QED BY <1>2, <2>2, <2>5, <2>6
<1>6. ASSUME NEW c \in Clients, ApproveRoleRequest(c) \/ RejectRoleRequest(c)
      PROVE  SameRequests(roleRequest')
  BY <1>2, <1>3, <1>6 DEF ApproveRoleRequest, RejectRoleRequest, Decided
<1>7. ASSUME NEW q \in DOMAIN roleRequest, RoleRequestLapses(q) PROVE SameRequests(roleRequest')
  <2>1. roleRequest' = [roleRequest EXCEPT ![q].lapsed = TRUE]
    BY <1>7 DEF RoleRequestLapses
  <2>2. \A row \in RoleRow : LET new == [row EXCEPT !.lapsed = TRUE]
                             IN  new \in RoleRow /\ new.by = row.by /\ new.target = row.target
    BY DEF RoleRow
  <2> QED BY <1>1, <2>1, <2>2 DEF SameRequests
<1>8. /\ audit \subseteq audit'
      /\ \/ UNCHANGED roleRequest
         \/ \E c \in Clients : RequestRoleChange(c) \/ ApproveRoleRequest(c) \/ RejectRoleRequest(c)
         \/ \E q \in DOMAIN roleRequest : RoleRequestLapses(q)
  <2>1. ASSUME NEW c \in Clients,
               \/ Suspend(c) \/ SuspendCommits(c) \/ RaiseOncePerHour(c) \/ Reactivate(c)
               \/ ReadUser(c) \/ TakeSnapshot(c)
               \/ \E k, i, u, role : AdminRequest(c, k, i, u, role)
               \/ \E k, i, q : DecisionRequest(c, k, i, q)
        PROVE  UNCHANGED roleRequest /\ audit \subseteq audit'
    BY <2>1 DEF Suspend, SuspendCommits, RaiseOncePerHour, Reactivate, ReadUser, TakeSnapshot,
                AdminRequest, DecisionRequest, Guard, Record, adminVars
  <2>2. ASSUME NEW c \in Clients, RequestRoleChange(c) \/ ApproveRoleRequest(c) \/ RejectRoleRequest(c)
        PROVE  audit \subseteq audit'
    BY <2>2 DEF RequestRoleChange, ApproveRoleRequest, RejectRoleRequest, ApplyRoleChange, Record
  <2>3. ASSUME NEW q, RoleRequestLapses(q) PROVE audit' = audit
    BY <2>3 DEF RoleRequestLapses
  <2>4. CASE AdminNext
    BY <2>1, <2>2, <2>3, <2>4 DEF AdminNext
  <2> QED BY <2>4 DEF UserNext, DeadlockVictim, RequestFails, userVars, adminVars
<1> QED BY <1>2, <1>5, <1>6, <1>7, <1>8

LEMMA RolesKept == ASSUME UserInv, [UserNext]_userVars PROVE RolesFit'
<1>1. UserMove
  BY EveryStep
<1>0. /\ roleRequest \in Seq(RoleRow) /\ Len(roleRequest) \in Nat
      /\ DOMAIN roleRequest = 1 .. Len(roleRequest)
      /\ \A q \in DOMAIN roleRequest : AskedFor(q) \in audit
  BY DEF UserInv, RolesFit
<1>2. /\ roleRequest' \in Seq(RoleRow) /\ DOMAIN roleRequest \subseteq DOMAIN roleRequest'
      /\ \A q \in DOMAIN roleRequest' : AskedFor(q)' \in audit'
  <2>1. audit \subseteq audit'
    BY RoleRequestsKept
  <2>2. CASE SameRequests(roleRequest')
    BY <1>0, <2>1, <2>2 DEF SameRequests, AskedFor
  <2>3. ASSUME NEW s, NEW row \in RoleRow, RequestMade(s, row)
        PROVE  /\ roleRequest' \in Seq(RoleRow) /\ DOMAIN roleRequest \subseteq DOMAIN roleRequest'
               /\ \A q \in DOMAIN roleRequest' : AskedFor(q)' \in audit'
    <3>1. /\ s \in Seq(RoleRow) /\ Len(s) = Len(roleRequest) /\ DOMAIN s = 1 .. Len(s)
          /\ \A q \in 1 .. Len(s) : s[q].by = roleRequest[q].by /\ s[q].target = roleRequest[q].target
      BY <1>0, <2>3 DEF SameRequests, RequestMade
    <3>2. /\ roleRequest' \in Seq(RoleRow) /\ DOMAIN roleRequest' = 1 .. Len(s) + 1
          /\ roleRequest'[Len(s) + 1] = row
          /\ \A q \in 1 .. Len(s) : roleRequest'[q] = s[q]
      BY SMTT(60), <1>0, <2>3, <3>1 DEF RequestMade
    <3>3. ASSUME NEW q \in 1 .. Len(s) + 1 PROVE AskedFor(q)' \in audit'
      <4>1. CASE q = Len(s) + 1
        BY <2>3, <3>2, <4>1 DEF AskedFor, RequestMade
      <4>2. CASE q \in 1 .. Len(s)
        BY <1>0, <2>1, <3>1, <3>2, <4>2 DEF AskedFor
      <4> QED BY <1>0, <3>1, <4>1, <4>2
    <3> QED BY <1>0, <3>1, <3>2, <3>3
  <2> QED BY <2>2, <2>3, RoleRequestsKept
<1> QED BY <1>1, <1>2, DecisionsNamed DEF RolesFit

(* The browser is only ever given the token of a row.                      *)
LEMMA CookiesKept == ASSUME UserInv, [UserNext]_userVars PROVE CookiesFit'
<1> DEFINE Kinds == {"NONE", "OK", "REFUSED", "DONE"}
<1>1. UserMove /\ TablesInv'
  BY EveryStep, MoveKeepsTables
<1>2. Tokens \subseteq Tokens' /\ 0 \in Tokens'
  BY <1>1, SessionsGrow DEF Tokens
<1>3. jar \in Tokens /\ answer \in [Callers -> [kind : Kinds, row : Tokens]]
  BY DEF UserInv, CookiesFit
<1>4. jar \in Tokens' /\ answer \in [Callers -> [kind : Kinds, row : Tokens']]
  BY <1>2, <1>3
<1>5. \A kind \in Kinds, row \in Tokens' : Answer(kind, row) \in [kind : Kinds, row : Tokens']
  BY DEF Answer
<1>6. NoAnswer \in [kind : Kinds, row : Tokens']
  BY <1>2 DEF NoAnswer
<1>7. session' \in Seq(SessionRows) /\ session \in Seq(SessionRows)
  BY <1>1 DEF TablesInv, TableTypes, UserInv
<1>8. ASSUME NEW t \in Tabs PROVE answer[Wire(t)].row \in Tokens' /\ answer[Form(t)].row \in Tokens'
  BY <1>4, TabsCall
<1>9. ASSUME NEW k \in Callers, NEW a \in [kind : Kinds, row : Tokens'], Reply(k, a)
      PROVE  answer' \in [Callers -> [kind : Kinds, row : Tokens']]
  BY <1>4, <1>9 DEF Reply
<1>10. CASE UNCHANGED <<jar, answer>>
  BY <1>4, <1>10 DEF CookiesFit
<1>11. ASSUME NEW t \in Tabs,
              TabRefreshed(t) \/ TabSignedIn(t) \/ TabSignedOut(t) \/ TabSignOutFails(t)
              \/ TabGivesUp(t) \/ TabSignInFails(t)
       PROVE  CookiesFit'
  <2>1. jar' \in {0, jar, answer[Wire(t)].row, answer[Form(t)].row}
    BY <1>11 DEF TabRefreshed, TabSignedIn, TabSignedOut, TabSignOutFails, SignsOut, TabGivesUp,
                 TabSignInFails
  <2>2. Reply(Wire(t), NoAnswer) \/ Reply(Form(t), NoAnswer)
    BY <1>11 DEF TabRefreshed, TabSignedIn, TabSignedOut, TabSignOutFails, SignsOut, TabGivesUp,
                 TabSignInFails
  <2>3. jar' \in Tokens'
    BY <1>2, <1>4, <1>8, <2>1
  <2>4. answer' \in [Callers -> [kind : Kinds, row : Tokens']]
    BY <1>6, <1>9, <2>2, TabsCall
  <2> QED BY <2>3, <2>4 DEF CookiesFit
<1>12. ASSUME NEW t \in Tabs, NEW k \in Callers, NEW kind \in Kinds, Reply(k, Answer(kind, 0)),
              UNCHANGED jar
       PROVE  CookiesFit'
  <2>1. Answer(kind, 0) \in [kind : Kinds, row : Tokens']
    BY <1>2, <1>5
  <2>2. answer' \in [Callers -> [kind : Kinds, row : Tokens']]
    BY <1>9, <1>12, <2>1
  <2> QED BY <1>4, <1>12, <2>2 DEF CookiesFit
<1>13. ASSUME NEW t \in Tabs, NEW k \in Callers, Reply(k, Answer("OK", Len(session) + 1)),
              UNCHANGED jar, Len(session) + 1 \in DOMAIN session'
       PROVE  CookiesFit'
  <2>1. Answer("OK", Len(session) + 1) \in [kind : Kinds, row : Tokens']
    BY <1>5, <1>13 DEF Tokens
  <2>2. answer' \in [Callers -> [kind : Kinds, row : Tokens']]
    BY <1>9, <1>13, <2>1
  <2> QED BY <1>4, <1>13, <2>2 DEF CookiesFit
<1>14. ASSUME NEW t \in Tabs, Rotates(t) \/ ServeRevocation(t) PROVE CookiesFit'
  <2>1. \/ UNCHANGED <<jar, answer>>
        \/ /\ UNCHANGED jar
           /\ \E kind \in Kinds : Reply(Wire(t), Answer(kind, 0))
    BY <1>14 DEF Rotates, ServeRevocation
  <2> QED BY <1>10, <1>12, <2>1, TabsCall
<1>15. ASSUME NEW t \in Tabs, TabLogout(t) \/ RetryLogout(t) \/ ServeLogout(t) PROVE CookiesFit'
  <2>1. \/ UNCHANGED <<jar, answer>>
        \/ UNCHANGED jar /\ Reply(Form(t), Answer("DONE", 0))
    BY <1>15 DEF TabLogout, RetryLogout, AskLogout, ServeLogout
  <2> QED BY <1>10, <1>12, <2>1, TabsCall
<1>16. ASSUME NEW t \in Tabs, ServeRotation(t) PROVE CookiesFit'
  <2>1. \/ UNCHANGED <<jar, answer>>
        \/ UNCHANGED jar /\ Reply(Wire(t), Answer("OK", Len(session) + 1))
    BY <1>16 DEF ServeRotation
  <2>2. Len(session) + 1 \in DOMAIN session'
    <3>1. PICK row, i : session' = Append([session EXCEPT ![i].rotated = TRUE], row)
      BY <1>16 DEF ServeRotation, Rotate
    <3>2. PICK s : s = [session EXCEPT ![i].rotated = TRUE]
      OBVIOUS
    <3>3. DOMAIN s = 1 .. Len(session) /\ Len(s) = Len(session) /\ Len(session) \in Nat
      BY <1>7, <3>2
    <3>4. DOMAIN Append(s, row) = 1 .. (Len(s) + 1)
      BY <3>3
    <3> QED BY <3>1, <3>2, <3>3, <3>4
  <2> QED BY <1>10, <1>13, <2>1, <2>2, TabsCall
<1>17. ASSUME NEW t \in Tabs, ServeLogin(t) PROVE CookiesFit'
  <2> DEFINE r == request[Form(t)]
  <2>1. \/ UNCHANGED <<jar, answer>>
        \/ UNCHANGED jar /\ Reply(Form(t), Answer("REFUSED", 0))
        \/ /\ UNCHANGED jar /\ Reply(Form(t), Answer("OK", Len(session) + 1))
           /\ session' = Append(session, NewSession(r.user, r.hash, Len(session) + 1, 0))
    BY <1>17 DEF ServeLogin
  <2>2. ASSUME NEW row, session' = Append(session, row) PROVE Len(session) + 1 \in DOMAIN session'
    BY <1>7, <2>2
  <2> QED BY <1>10, <1>12, <1>13, <2>1, <2>2, TabsCall
<1>18. ASSUME NEW t \in Tabs, TabRefresh(t) \/ TabTold(t) \/ \E u \in Users : TabLogin(t, u)
       PROVE  CookiesFit'
  BY <1>10, <1>18 DEF TabRefresh, TabTold, TabLogin
<1>19. CASE BrowserNext
  BY <1>11, <1>14, <1>15, <1>16, <1>17, <1>18, <1>19, Zenon DEF BrowserNext
<1>20. CASE ~BrowserNext
  <2>1. UNCHANGED <<jar, answer>>
    BY <1>20 DEF UserNext, DeadlockVictim, RequestFails, userVars, browserVars
  <2> QED BY <1>10, <2>1
<1> QED BY <1>19, <1>20

LEMMA UserStepInv == UserInv /\ [UserNext]_userVars => UserInv'
  BY EveryStep, MoveKeepsTables, RolesKept, CookiesKept DEF UserInv

-----------------------------------------------------------------------------
(* The inductive invariant holds, for any accounts, callers and scenarios. *)
THEOREM UserInvHolds == UserSpec => []UserInv
  BY UserInitInv, UserStepInv, PTL DEF UserSpec

(* The tables keep their types, and an account that has ever been active   *)
(* has a password and exactly one user.activated event.                    *)
THEOREM AccountsTyped == UserSpec => []AccountsTypeOK
<1>1. UserInv => AccountsTypeOK
  BY SessionTyped DEF UserInv, TablesInv, TableTypes, AccountsFit, AccountFits, SessionsFit, FamiliesNamed,
                      AccountsTypeOK
<1> QED BY <1>1, UserInvHolds, PTL

(* A password change or a suspension ends every session, re-verification   *)
(* and link that rested on what was before.                                *)
THEOREM OldCredentialsAreEnded == UserSpec => []OldCredentialsEnd
<1>1. UserInv => OldCredentialsEnd
  BY DEF UserInv, TablesInv, SessionsFit, LinksFit, OldCredentialsEnd
<1> QED BY <1>1, UserInvHolds, PTL

(* A sign-in has at most one usable token, and a sign-out or a reuse ends  *)
(* it for good.                                                            *)
THEOREM FamiliesAreSound == UserSpec => []FamiliesSound
<1>1. UserInv => FamiliesSound
  BY DEF UserInv, TablesInv, SessionsFit, FamiliesNamed, OneUnrotated, FamiliesSound, OneCurrentToken, Live
<1> QED BY <1>1, UserInvHolds, PTL

(* No administrator suspends more accounts in an hour than the limit, and  *)
(* no suspended one suspends anybody.                                      *)
THEOREM SuspensionsAreLimited == UserSpec => []SuspensionsLimited
<1>1. UserInv => SuspensionsLimited
  BY DEF UserInv, TablesInv, WithinLimit, RequestsFit, RequestFits, SuspendFits, Revoking, Callers,
         SuspensionsLimited
<1> QED BY <1>1, UserInvHolds, PTL

-----------------------------------------------------------------------------
(* Who changes a role.                                                     *)
LEMMA OnlyRoleChanges ==
    ASSUME UserInv, UserNext, NEW u \in Users, account[u].status # "ABSENT",
           account'[u].admin # account[u].admin
    PROVE  \E c \in Clients : RequestRoleChange(c) \/ ApproveRoleRequest(c)
<1>1. account \in [Users -> AccountRows] /\ AccountsFit
  BY DEF UserInv, TablesInv, TableTypes
<1>2. ASSUME UNCHANGED account PROVE FALSE
  BY <1>2
<1>3. ASSUME NEW v, NEW row, account' = [account EXCEPT ![v] = row], row.admin = account[v].admin
      PROVE  FALSE
  BY <1>1, <1>3
<1>4. ASSUME NEW c \in Clients, NEW v \in Users, Register(c, v) PROVE FALSE
  <2>1. account' = [account EXCEPT ![v] = NewUser] /\ NewUser.admin = FALSE
    BY <1>4 DEF Register, NewUser, Absent
  <2>2. account[v].status = "ABSENT" \/ account[v].status = "PENDING_ACTIVATION"
    BY <1>4 DEF Register, Lapsed
  <2>3. account[v].status = "PENDING_ACTIVATION" => account[v].admin = FALSE
    BY <1>1 DEF AccountsFit, AccountFits, AccountRows
  <2> QED BY <1>1, <1>3, <2>1, <2>2, <2>3
<1>5. ASSUME NEW c \in Clients, NEW v \in Users, SeedAdmin(c, v) PROVE FALSE
  <2>1. PICK row : account[v].status = "ABSENT" /\ account' = [account EXCEPT ![v] = row]
    BY <1>5 DEF SeedAdmin
  <2> QED BY <1>1, <2>1
<1>6. ASSUME NEW c \in Clients, SetPasswordFromEmailedLink(c) PROVE FALSE
  <2> DEFINE v == request[c].user
             row == IF Activates(v) THEN [SetPassword(account[v]) EXCEPT !.status = "ACTIVE"]
                                    ELSE SetPassword(account[v])
  <2>1. account' = [account EXCEPT ![v] = row]
    BY <1>6 DEF SetPasswordFromEmailedLink
  <2>2. CASE v \in Users
    <3>1. account[v] \in AccountRows
      BY <1>1, <2>2
    <3>2. row.admin = account[v].admin
      BY <3>1 DEF SetPassword, AccountRows
    <3> HIDE DEF row
    <3> QED BY <1>3, <2>1, <3>2
  <2>3. CASE v \notin Users
    <3> HIDE DEF row, v
    <3> QED BY <1>1, <2>1, <2>3
  <2> QED BY <2>2, <2>3
<1>7. ASSUME NEW c \in Clients, ChangeCommits(c) PROVE FALSE
  <2>1. account' = [account EXCEPT ![request[c].user].password = @ + 1,
                                   ![request[c].user].mustChange = FALSE]
    BY <1>7 DEF ChangeCommits
  <2>2. account[u] \in AccountRows
    BY <1>1
  <2>3. account'[u].admin = account[u].admin
    BY <1>1, <2>1, <2>2 DEF AccountRows
  <2> QED BY <2>3
<1>8. ASSUME NEW v, NEW status, SetStatus(v, status) PROVE FALSE
  <2>1. account[u] \in AccountRows
    BY <1>1
  <2>2. account'[u].admin = account[u].admin
    BY <1>1, <1>8, <2>1 DEF SetStatus, AccountRows
  <2> QED BY <2>2
<1>9. CASE AccountsNext
  <2>1. \/ UNCHANGED account
        \/ \E c \in Clients : \/ \E v \in Users : Register(c, v) \/ SeedAdmin(c, v)
                              \/ SetPasswordFromEmailedLink(c)
    BY <1>9 DEF AccountsNext, ResendActivation, RequestPasswordReset, ReadLink, ClaimLink, LinkExpires,
                accountVars
  <2> QED BY <1>2, <1>4, <1>5, <1>6, <2>1
<1>10. CASE SessionsNext
  <2>1. UNCHANGED account \/ \E c \in Clients : ChangeCommits(c)
    BY <1>10 DEF SessionsNext, Login, ChangePassword, Refresh, Logout, StepUp, StartSession,
                 RefreshCommits, RevokeCommits, ReplacePassword, MarkSteppedUp, SignInExpires,
                 StepUpLapses, accountVars
  <2> QED BY <1>2, <1>7, <2>1
<1>11. CASE AdminNext
  <2>1. ASSUME NEW c \in Clients,
               \/ Suspend(c) \/ RaiseOncePerHour(c) \/ ReadUser(c) \/ TakeSnapshot(c)
               \/ RejectRoleRequest(c)
               \/ \E k, i, v, role : AdminRequest(c, k, i, v, role)
               \/ \E k, i, q : DecisionRequest(c, k, i, q)
        PROVE  UNCHANGED account
    BY <2>1 DEF Suspend, RaiseOncePerHour, ReadUser, TakeSnapshot, RejectRoleRequest,
                AdminRequest, DecisionRequest, Guard, accountVars
  <2>2. ASSUME NEW q, RoleRequestLapses(q) PROVE UNCHANGED account
    BY <2>2 DEF RoleRequestLapses, accountVars
  <2>3. ASSUME NEW c \in Clients, SuspendCommits(c) \/ Reactivate(c) PROVE FALSE
    BY <1>2, <1>8, <2>3 DEF SuspendCommits, Reactivate
  <2> QED BY <1>2, <1>11, <2>1, <2>2, <2>3 DEF AdminNext
<1>12. CASE BrowserNext
  <2>1. ASSUME NEW t \in Tabs,
               \/ TabRefresh(t) \/ Rotates(t) \/ ServeRotation(t) \/ ServeRevocation(t)
               \/ TabRefreshed(t) \/ TabGivesUp(t)
               \/ \E v \in Users : TabLogin(t, v)
               \/ ServeLogin(t) \/ TabSignedIn(t) \/ TabSignInFails(t)
               \/ ServeLogout(t) \/ TabTold(t)
        PROVE  UNCHANGED account
    BY <2>1 DEF TabRefresh, Rotates, ServeRotation, ServeRevocation, TabRefreshed, TabGivesUp, TabLogin,
                ServeLogin, TabSignedIn, TabSignInFails, ServeLogout, TabTold, accountVars
  <2>2. ASSUME NEW t \in Tabs,
               TabLogout(t) \/ RetryLogout(t) \/ TabSignedOut(t) \/ TabSignOutFails(t)
        PROVE  UNCHANGED account
    BY <2>2 DEF TabLogout, RetryLogout, AskLogout, TabSignedOut, TabSignOutFails, SignsOut, accountVars
  <2> QED BY <1>2, <1>12, <2>1, <2>2, Zenon DEF BrowserNext
<1>13. ASSUME NEW c \in Callers, NEW d \in Callers, DeadlockVictim(c, d) PROVE FALSE
  BY <1>2, <1>13 DEF DeadlockVictim, accountVars
<1>14. ASSUME NEW c \in Clients, RequestFails(c) PROVE FALSE
  BY <1>2, <1>14 DEF RequestFails, accountVars
<1> QED BY <1>9, <1>10, <1>11, <1>12, <1>13, <1>14 DEF UserNext

(* RoleRules lets nobody change their own role, and only a seeded          *)
(* administrator take one away.                                            *)
LEMMA RoleRulesAllow ==
    ASSUME UserInv, NEW a, NEW u \in Users, NEW role \in Roles, NEW holders, ActiveAdmin(a),
           RoleRules(a, u, role, holders) = "ALLOWED"
    PROVE  /\ a # u
           /\ role = "ADMIN" => account[u].status = "ACTIVE"
           /\ role # "ADMIN" => account[a].seeded
<1>1. role \in {"ADMIN", "STUDENT"}
  BY DEF Roles
<1>2. /\ ~((role = "ADMIN") = account[u].admin)
      /\ role = "ADMIN" => account[u].status = "ACTIVE"
      /\ role = "STUDENT" => a # u /\ account[a].seeded
  BY DEF RoleRules
<1>3. account[a].admin
  BY DEF ActiveAdmin
<1>4. CASE role = "STUDENT"
  BY <1>2, <1>4
<1>5. CASE role = "ADMIN"
  <2>1. account \in [Users -> AccountRows]
    BY DEF UserInv, TablesInv, TableTypes
  <2>2. account[u].admin \in BOOLEAN
    BY <2>1 DEF AccountRows
  <2> QED BY <1>2, <1>3, <1>5, <2>2
<1> QED BY <1>1, <1>4, <1>5

(* What a role change that the rules allow does to the account it changes. *)
Given(u, v, a, role) ==
    /\ v = u /\ a # u /\ ActiveAdmin(a) /\ account'[u].admin = (role = "ADMIN")
    /\ IF account'[u].admin THEN account'[u].status = "ACTIVE"
       ELSE account[a].seeded /\ account'[a].admin /\ account'[a].status = "ACTIVE"

LEMMA RoleGiven ==
    ASSUME UserInv, NEW u \in Users, NEW v \in Users, NEW a \in Users, NEW role \in Roles, NEW holders,
           account'[u].admin # account[u].admin,
           account' = [account EXCEPT ![v] = WithRole(@, role)],
           ActiveAdmin(a), RoleRules(a, v, role, holders) = "ALLOWED"
    PROVE  Given(u, v, a, role)
<1>1. account \in [Users -> AccountRows]
  BY DEF UserInv, TablesInv, TableTypes
<1>2. v = u
  BY <1>1
<1>3. account[u] \in AccountRows /\ account'[u] = WithRole(account[u], role)
  BY <1>1, <1>2
<1>4. account'[u].admin = (role = "ADMIN") /\ account'[u].status = account[u].status
  BY <1>3 DEF WithRole, AccountRows
<1>5. /\ a # u
      /\ role = "ADMIN" => account[u].status = "ACTIVE"
      /\ role # "ADMIN" => account[a].seeded
  BY <1>2, RoleRulesAllow
<1>6. account'[a] = account[a]
  BY <1>1, <1>2, <1>5
<1> QED BY <1>2, <1>4, <1>5, <1>6 DEF ActiveAdmin, Given

(* The two-person rule: approveRoleRequest looks at both administrators    *)
(* again under their locks, and requestRoleChange acts alone only where    *)
(* nobody else holds the role; roleRulesAllow is asked both times.         *)
THEOREM TwoPersonRuleHolds == UserSpec => TwoPersonRule
<1>1. ASSUME UserInv, UserNext PROVE RolesAgreed
  <2> SUFFICES ASSUME NEW u \in Users, account[u].status # "ABSENT",
                      account'[u].admin # account[u].admin
               PROVE  \E c \in Clients : (SecondWord(c, u) \/ LoneWord(c, u)) /\ Wished(c, u)
    BY DEF RolesAgreed
  <2>1. PICK c \in Clients : RequestRoleChange(c) \/ ApproveRoleRequest(c)
    BY <1>1, OnlyRoleChanges
  <2>2. c \in Callers
    BY DEF Callers
  <2> DEFINE r == request[c]
             q == r.link
             o == roleRequest[q]
  <2>3. CASE RequestRoleChange(c)
    <3>1. /\ r.kind = "ROLE" /\ Others(c) = {} /\ PendingFor(r.user) = {}
          /\ ActiveAdmin(r.actor) /\ RoleRules(r.actor, r.user, r.role, Listed(c)) = "ALLOWED"
          /\ account' = [account EXCEPT ![r.user] = WithRole(@, r.role)]
      BY <2>3 DEF RequestRoleChange, Waits, ApplyRoleChange
    <3>2. r.user \in Users /\ r.actor \in Users /\ r.role \in Roles
      BY <1>1, <2>2, <3>1 DEF UserInv, TablesInv, RequestsFit, RequestFits, OtherFits
    <3>3. Author(c) = r.actor
      BY <3>1 DEF Author
    <3>4. r.user = u /\ account'[u].admin = (r.role = "ADMIN") /\ Wished(c, u)
      <4>1. Given(u, r.user, r.actor, r.role)
        BY <1>1, <3>1, <3>2, RoleGiven
      <4> QED BY <3>3, <4>1 DEF Given, Wished, RightlyHeld
    <3>5. Holders \cap r.holders \subseteq {r.actor, u}
      BY <3>1, <3>4 DEF Others, Listed
    <3>6. LoneWord(c, u)
      BY <3>1, <3>4, <3>5 DEF LoneWord
    <3> QED BY <3>4, <3>6
  <2>4. CASE ApproveRoleRequest(c)
    <3>1. /\ r.kind = "APPROVE" /\ Open(q) /\ r.actor \notin {o.by, o.target}
          /\ ActiveAdmin(r.actor) /\ ActiveAdmin(o.by)
          /\ RoleRules(o.by, o.target, o.role, Listed(c)) = "ALLOWED"
          /\ Decided(q, "APPROVED")
          /\ account' = [account EXCEPT ![o.target] = WithRole(@, o.role)]
      BY <2>4 DEF ApproveRoleRequest, Waits, StillAsks, ApplyRoleChange
    <3>2. /\ roleRequest \in Seq(RoleRow) /\ q \in DOMAIN roleRequest /\ AskedFor(q) \in audit
      BY <1>1, <2>2, <3>1 DEF UserInv, RolesFit
    <3>3. o \in RoleRow
      BY <3>2
    <3>4. o.target \in Users /\ o.by \in Users /\ o.role \in Roles
      BY <3>3 DEF RoleRow
    <3>5. roleRequest'[q].status = "APPROVED"
      BY <3>1, <3>2, <3>3 DEF Decided, RoleRow
    <3>6. Author(c) = o.by
      BY <3>1 DEF Author
    <3>7. o.target = u /\ account'[u].admin = (o.role = "ADMIN") /\ Wished(c, u)
      <4>1. Given(u, o.target, o.by, o.role)
        BY <1>1, <3>1, <3>4, RoleGiven
      <4> QED BY <3>6, <4>1 DEF Given, Wished, RightlyHeld
    <3>8. SecondWord(c, u)
      BY <3>1, <3>2, <3>5, <3>6, <3>7 DEF SecondWord
    <3> QED BY <3>7, <3>8
  <2> QED BY <2>1, <2>3, <2>4
<1>2. UserInv /\ [UserNext]_userVars => [RolesAgreed]_userVars
  BY <1>1
<1> QED BY <1>2, UserInvHolds, PTL DEF UserSpec, TwoPersonRule

-----------------------------------------------------------------------------
(* The tabs of one browser at the User Service: a tab is told of reuse     *)
(* only if a token was lost, and a sign-out lasts.                         *)

Doings == {"NOTHING", "QUEUED", "ROTATING", "REVOKING"}
Forms == {"NOTHING", "SIGNING_IN", "SIGNING_OUT", "RETRYING"}
TabRow == [user : Users \cup {NoUser}, epoch : Nat, doing : Doings, since : Nat, form : Forms]

BrowserTypes ==
    tab \in [Tabs -> TabRow] /\ astray \in Nat /\ left \in {"IN", "OUT", "OVERLAPPED"}

(* One tab waits for an answer to its refresh, and holds the lock; the     *)
(* answer is the only one, and comes after the request.                    *)
WireFits(t) ==
    /\ Waiting(t) <=> lock = t
    /\ answer[Wire(t)] # NoAnswer => Waiting(t) /\ request[Wire(t)] = Idle
    /\ tab[t].doing = "QUEUED" => request[Wire(t)] = Idle
    /\ tab[t].since <= tab[t].epoch

WiresFit == \A t \in Tabs : WireFits(t)

(* A token on its way to the browser is nobody's yet.                      *)
Carries(k) == answer[k].kind = "OK"

Rotating(t) == request[Wire(t)].kind = "REFRESH"

AnswersFresh ==
    \A k \in Callers :
        /\ ~Carries(k) => answer[k].row = 0
        /\ Carries(k) =>
              /\ answer[k].row \in DOMAIN session /\ answer[k].row # jar
              /\ \A m \in Callers : Carries(m) /\ answer[m].row = answer[k].row => m = k
              /\ \A t \in Tabs : Rotating(t) => request[Wire(t)].row # answer[k].row

(* While no successor has been lost the browser has, or is about to get,   *)
(* the token that can be used next.                                        *)
NothingAstray ==
    astray = 0 =>
        /\ jar # 0 /\ session[jar].rotated => \E t \in Tabs : Carries(Wire(t))
        /\ \A k \in Callers : Carries(k) => ~session[answer[k].row].rotated
        /\ \A t \in Tabs : Rotating(t) => ~session[request[Wire(t)].row].rotated
        /\ \A t \in Tabs : Wire(t) \notin reusedBy

(* A refresh under way may still sign the tab in.                          *)
MayRevive(t) ==
    /\ Waiting(t)
    /\ Carries(Wire(t)) \/ (Rotating(t) /\ request[Wire(t)].phase = "ROTATING")

LeftForGood ==
    left = "OUT" => (pending \/ jar = 0) /\ \A t \in Tabs : ~MayRevive(t)

(* A tab that no message is on its way to has forgotten the account, and   *)
(* will not take it from a refresh that began before.                      *)
Heard(t) == tab[t].user = NoUser /\ (MayRevive(t) => tab[t].epoch # tab[t].since)

SigningOut == \E s \in Tabs : tab[s].form = "SIGNING_OUT"

TabsHear == left # "IN" => SigningOut \/ \A t \in Tabs \ told : Heard(t)

BrowserInv ==
    BrowserTypes /\ WiresFit /\ AnswersFresh /\ NothingAstray /\ LeftForGood /\ TabsHear

-----------------------------------------------------------------------------
(* The connections of the tabs are distinct, and none is a client's.       *)
LEMMA WiresApart ==
    ASSUME NEW t \in Tabs, NEW s \in Tabs
    PROVE  /\ Wire(t) \in Callers /\ Form(t) \in Callers
           /\ Wire(t) = Wire(s) => t = s
           /\ Wire(t) # Form(s)
           /\ Wire(t) \notin Clients /\ Form(t) \notin Clients
<1>1. Wire(t) \in Tabs \X {"REFRESH", "FORM"} /\ Form(t) \in Tabs \X {"REFRESH", "FORM"}
  BY DEF Wire, Form
<1> QED BY <1>1, UserAssumption DEF Wire, Form, Callers

SameRotated == \A i \in DOMAIN session : session'[i].rotated = session[i].rotated

(* A step of somebody else's: it takes nothing from the browser, and if it *)
(* rotates a token that token was lost to the browser.                     *)
Elsewhere ==
    /\ UNCHANGED browserVars
    /\ \A t \in Tabs : request'[Wire(t)] = request[Wire(t)]
    /\ astray' \in Nat /\ (astray' = 0 => astray = 0 /\ SameRotated)
    /\ \A t \in Tabs : Wire(t) \in reusedBy' => Wire(t) \in reusedBy

LEMMA ElsewhereKeeps ==
    ASSUME UserInv, BrowserInv, Elsewhere, DOMAIN session \subseteq DOMAIN session'
    PROVE  BrowserInv'
<1>1. /\ UNCHANGED <<jar, pending, lock, tab, answer, told, left>>
      /\ \A t \in Tabs : request'[Wire(t)] = request[Wire(t)]
  BY DEF Elsewhere, browserVars
<1>2. /\ jar # 0 => jar \in DOMAIN session
      /\ \A t \in Tabs : Rotating(t) => request[Wire(t)].row \in DOMAIN session
  BY WiresApart DEF UserInv, TablesInv, RequestsFit, RequestFits, RefreshFits, Rotating, CookiesFit, Tokens
<1>3. BrowserTypes'
  BY <1>1 DEF BrowserInv, BrowserTypes, Elsewhere
<1>4. WiresFit'
  BY <1>1 DEF BrowserInv, WiresFit, WireFits, Waiting
<1>5. AnswersFresh'
  BY <1>1 DEF BrowserInv, AnswersFresh, Carries, Rotating
<1>6. NothingAstray'
  BY <1>1, <1>2 DEF BrowserInv, AnswersFresh, NothingAstray, Carries, Rotating, Elsewhere, SameRotated
<1>7. LeftForGood'
  BY <1>1 DEF BrowserInv, LeftForGood, MayRevive, Waiting, Carries, Rotating
<1>8. TabsHear'
  BY <1>1 DEF BrowserInv, TabsHear, SigningOut, Heard, MayRevive, Waiting, Carries, Rotating
<1> QED BY <1>3, <1>4, <1>5, <1>6, <1>7, <1>8 DEF BrowserInv

(* A client's step.                                                        *)
LEMMA ClientsElsewhere ==
    ASSUME UserInv, BrowserTypes, UNCHANGED browserVars,
           \/ AccountsNext \/ SessionsNext \/ AdminNext
           \/ \E c \in Clients : RequestFails(c)
           \/ UNCHANGED userVars
    PROVE  Elsewhere
<1>1. /\ astray \in Nat /\ session \in Seq(SessionRows) /\ request \in [Callers -> Request]
  BY DEF UserInv, TablesInv, TableTypes, RequestTypes, BrowserTypes
<1>2. /\ Len(session) \in Nat /\ DOMAIN session = 1 .. Len(session)
      /\ \A i \in DOMAIN session : session[i] \in SessionRows
  BY <1>1, SessionTyped
<1>3. ASSUME NEW c \in Clients, NEW r, Enter(c, r)
      PROVE  \A t \in Tabs : request'[Wire(t)] = request[Wire(t)]
  BY <1>1, <1>3, WiresApart DEF Enter
<1>4. ASSUME NEW c \in Clients, Done(c)
      PROVE  \A t \in Tabs : request'[Wire(t)] = request[Wire(t)]
  BY <1>1, <1>4, WiresApart DEF Done
<1>5. ASSUME UNCHANGED <<session, reusedBy, astray>>,
             \A t \in Tabs : request'[Wire(t)] = request[Wire(t)]
      PROVE  Elsewhere
  BY <1>1, <1>5 DEF Elsewhere, SameRotated
<1>6. ASSUME NEW rows, session' = Revoked(rows) PROVE SameRotated
  <2> SUFFICES ASSUME NEW i \in DOMAIN session PROVE session'[i].rotated = session[i].rotated
    BY DEF SameRotated
  <2>1. session[i] \in SessionRows
    BY <1>2
  <2>2. session'[i] = IF i \in rows THEN [session[i] EXCEPT !.revoked = TRUE] ELSE session[i]
    BY <1>6 DEF Revoked
  <2> QED BY <2>1, <2>2 DEF SessionRows
<1>7. ASSUME NEW i, NEW n, session' = [session EXCEPT ![i].stepped = n] PROVE SameRotated
  <2> SUFFICES ASSUME NEW j \in DOMAIN session PROVE session'[j].rotated = session[j].rotated
    BY DEF SameRotated
  <2>1. session[j] \in SessionRows
    BY <1>2
  <2>2. session'[j] = IF i = j THEN [session[j] EXCEPT !.stepped = n] ELSE session[j]
    BY <1>7
  <2> QED BY <2>1, <2>2 DEF SessionRows
<1>8. ASSUME UNCHANGED astray, SameRotated, \A t \in Tabs : request'[Wire(t)] = request[Wire(t)],
             \A t \in Tabs : Wire(t) \in reusedBy' => Wire(t) \in reusedBy
      PROVE  Elsewhere
  BY <1>1, <1>8 DEF Elsewhere
<1>9. CASE AccountsNext
  <2>1. ASSUME NEW c \in Clients, NEW u \in Users,
               \/ Register(c, u) \/ ResendActivation(c, u) \/ RequestPasswordReset(c, u)
               \/ SeedAdmin(c, u)
        PROVE  Elsewhere
    BY <1>5, <2>1 DEF Register, ResendActivation, RequestPasswordReset, SeedAdmin, sessionVars
  <2>2. ASSUME NEW c \in Clients, NEW l \in links, ReadLink(c, l) PROVE Elsewhere
    BY <1>3, <1>5, <2>2 DEF ReadLink, sessionVars
  <2>3. ASSUME NEW c \in Clients, ClaimLink(c) PROVE Elsewhere
    BY <1>3, <1>4, <1>5, <2>3 DEF ClaimLink, sessionVars
  <2>4. ASSUME NEW c \in Clients, SetPasswordFromEmailedLink(c) PROVE Elsewhere
    BY <1>4, <1>6, <1>8, <2>4 DEF SetPasswordFromEmailedLink
  <2>5. ASSUME NEW l \in links, LinkExpires(l) PROVE Elsewhere
    BY <1>5, <2>5 DEF LinkExpires, sessionVars
  <2> QED BY <1>9, <2>1, <2>2, <2>3, <2>4, <2>5 DEF AccountsNext
<1>10. CASE SessionsNext
  <2>1. ASSUME NEW c \in Clients, NEW u \in Users, Login(c, u) \/ ChangePassword(c, u) PROVE Elsewhere
    BY <1>3, <1>5, <2>1 DEF Login, ChangePassword, sessionVars
  <2>2. ASSUME NEW c \in Clients, NEW i \in DOMAIN session, Refresh(c, i) PROVE Elsewhere
    <3>1. (\E r : Enter(c, r)) \/ Done(c)
      BY <2>2 DEF Refresh, LockByHash
    <3> QED BY <1>3, <1>4, <1>5, <2>2, <3>1 DEF Refresh, sessionVars
  <2>3. ASSUME NEW c \in Clients, NEW i \in DOMAIN session, Logout(c, i) \/ StepUp(c, i) PROVE Elsewhere
    BY <1>3, <1>5, <2>3 DEF Logout, StepUp, sessionVars
  <2>4. ASSUME NEW c \in Clients, StartSession(c) PROVE Elsewhere
    <3>1. UNCHANGED session \/ \E row : session' = Append(session, row)
      BY <2>4 DEF StartSession
    <3>2. SameRotated
      BY <1>2, <3>1 DEF SameRotated
    <3> QED BY <1>4, <1>8, <2>4, <3>2 DEF StartSession
  <2>5. ASSUME NEW c \in Clients, RefreshCommits(c) PROVE Elsewhere
    <3>1. astray' = astray + 1 /\ UNCHANGED reusedBy /\ Done(c)
      BY <2>5 DEF RefreshCommits
    <3>2. astray' \in Nat /\ astray' # 0
      BY <1>1, <3>1
    <3> QED BY <1>4, <3>1, <3>2 DEF Elsewhere
  <2>6. ASSUME NEW c \in Clients, RevokeCommits(c) PROVE Elsewhere
    <3>1. SameRotated
      BY <1>6, <2>6 DEF RevokeCommits, FamilyRevoked, AfterRevocation
    <3>2. reusedBy' \in {reusedBy, reusedBy \cup {c}} /\ UNCHANGED astray /\ Done(c)
      BY <2>6 DEF RevokeCommits, FamilyRevoked
    <3>3. \A t \in Tabs : Wire(t) # c
      BY WiresApart
    <3> QED BY <1>4, <1>8, <3>1, <3>2, <3>3
  <2>7. ASSUME NEW c \in Clients, ReplacePassword(c) PROVE Elsewhere
    BY <1>3, <1>4, <1>5, <2>7 DEF ReplacePassword, sessionVars
  <2>8. ASSUME NEW c \in Clients, ChangeCommits(c) PROVE Elsewhere
    BY <1>4, <1>6, <1>8, <2>8 DEF ChangeCommits
  <2>9. ASSUME NEW c \in Clients, MarkSteppedUp(c) PROVE Elsewhere
    <3>1. SameRotated
      BY <1>7, <2>9 DEF MarkSteppedUp, SameRotated
    <3> QED BY <1>4, <1>8, <2>9, <3>1 DEF MarkSteppedUp
  <2>10. ASSUME NEW i \in DOMAIN session, SignInExpires(i) PROVE Elsewhere
    BY <1>5, <2>10 DEF SignInExpires
  <2>11. ASSUME NEW i \in DOMAIN session, StepUpLapses(i) PROVE Elsewhere
    BY <1>7, <1>8, <2>11 DEF StepUpLapses
  <2> QED BY <1>10, <2>1, <2>2, <2>3, <2>4, <2>5, <2>6, <2>7, <2>8, <2>9, <2>10, <2>11 DEF SessionsNext
<1>11. CASE AdminNext
  <2>1. ASSUME NEW c \in Clients,
               \/ \E k, i, u, role : AdminRequest(c, k, i, u, role)
               \/ \E k, i, q : DecisionRequest(c, k, i, q)
        PROVE  Elsewhere
    <3>1. (\E r : Enter(c, r)) /\ UNCHANGED <<session, reusedBy, astray>>
      BY <2>1 DEF AdminRequest, DecisionRequest, Guard, sessionVars
    <3> QED BY <1>3, <1>5, <3>1
  <2>2. ASSUME NEW c \in Clients, Suspend(c) \/ TakeSnapshot(c) PROVE Elsewhere
    <3>1. Done(c) \/ \E r : Enter(c, r)
      BY <2>2 DEF Suspend, TakeSnapshot
    <3>2. UNCHANGED <<session, reusedBy, astray>>
      BY <2>2 DEF Suspend, TakeSnapshot, sessionVars
    <3> QED BY <1>3, <1>4, <1>5, <3>1, <3>2
  <2>3. ASSUME NEW c \in Clients,
               \/ RaiseOncePerHour(c) \/ Reactivate(c) \/ ReadUser(c) \/ RequestRoleChange(c)
               \/ ApproveRoleRequest(c) \/ RejectRoleRequest(c)
        PROVE  Elsewhere
    <3>1. Done(c) /\ UNCHANGED <<session, reusedBy, astray>>
      BY <2>3 DEF RaiseOncePerHour, Reactivate, ReadUser, RequestRoleChange, ApproveRoleRequest,
                  RejectRoleRequest, sessionVars
    <3> QED BY <1>4, <1>5, <3>1
  <2>4. ASSUME NEW c \in Clients, SuspendCommits(c) PROVE Elsewhere
    <3>1. Done(c) \/ \E r : Enter(c, r)
      BY <2>4 DEF SuspendCommits
    <3>2. SameRotated
      BY <1>6, <2>4 DEF SuspendCommits
    <3>3. UNCHANGED <<astray, reusedBy>>
      BY <2>4 DEF SuspendCommits
    <3> QED BY <1>3, <1>4, <1>8, <3>1, <3>2, <3>3
  <2>5. ASSUME NEW q \in DOMAIN roleRequest, RoleRequestLapses(q) PROVE Elsewhere
    BY <1>5, <2>5 DEF RoleRequestLapses, sessionVars
  <2> QED BY <1>11, <2>1, <2>2, <2>3, <2>4, <2>5 DEF AdminNext
<1>12. ASSUME NEW c \in Clients, RequestFails(c) PROVE Elsewhere
  BY <1>4, <1>5, <1>12 DEF RequestFails, sessionVars
<1>13. CASE UNCHANGED userVars
  BY <1>5, <1>13 DEF userVars, sessionVars
<1> QED BY <1>9, <1>10, <1>11, <1>12, <1>13

-----------------------------------------------------------------------------
(* What the two invariants say of the browser's variables.                 *)
LEMMA BrowserFacts ==
    ASSUME UserInv, BrowserInv
    PROVE  /\ tab \in [Tabs -> TabRow] /\ astray \in Nat /\ request \in [Callers -> Request]
           /\ answer \in [Callers -> [kind : {"NONE", "OK", "REFUSED", "DONE"}, row : Tokens]]
           /\ session \in Seq(SessionRows) /\ 0 \notin DOMAIN session
           /\ jar # 0 => jar \in DOMAIN session
           /\ \A t \in Tabs : Rotating(t) => request[Wire(t)].row \in DOMAIN session
<1>1. session \in Seq(SessionRows)
  BY DEF UserInv, TablesInv, TableTypes
<1>2. 0 \notin DOMAIN session
  BY <1>1
<1>3. \A t \in Tabs : Rotating(t) => request[Wire(t)].row \in DOMAIN session
  BY WiresApart DEF UserInv, TablesInv, RequestsFit, RequestFits, RefreshFits, Rotating
<1> QED
  BY <1>1, <1>2, <1>3 DEF UserInv, TablesInv, RequestTypes, CookiesFit, Tokens, BrowserInv, BrowserTypes

(* An answer arrives or is lost: nobody else's token becomes the cookie,   *)
(* and if the successor of the cookie is lost that is counted.             *)
LEMMA AnswerTaken ==
    ASSUME UserInv, BrowserInv, UNCHANGED <<session, request, reusedBy>>,
           NEW k \in Callers, Reply(k, NoAnswer), jar' \in {0, jar, answer[k].row},
           astray' = 0 => astray = 0,
           astray' = 0 /\ jar' = jar /\ Carries(k) => \A t \in Tabs : k # Wire(t)
    PROVE  AnswersFresh' /\ NothingAstray'
<1>1. /\ answer'[k].kind # "OK" /\ answer'[k].row = 0
      /\ \A m \in Callers \ {k} : answer'[m] = answer[m]
  BY BrowserFacts DEF Reply, NoAnswer
<1>2. AnswersFresh
  BY DEF BrowserInv
<1>3. AnswersFresh'
  <2> SUFFICES ASSUME NEW m \in Callers
               PROVE  /\ ~Carries(m)' => answer'[m].row = 0
                      /\ Carries(m)' =>
                            /\ answer'[m].row \in DOMAIN session' /\ answer'[m].row # jar'
                            /\ \A n \in Callers : Carries(n)' /\ answer'[n].row = answer'[m].row => n = m
                            /\ \A t \in Tabs : Rotating(t)' => request'[Wire(t)].row # answer'[m].row
    BY DEF AnswersFresh
  <2>1. CASE m = k
    BY <1>1, <2>1 DEF Carries
  <2>2. CASE m # k
    <3>1. answer'[m] = answer[m]
      BY <1>1, <2>2
    <3>2. Carries(m) => answer[m].row \notin {0, jar}
      BY <1>2, BrowserFacts DEF AnswersFresh
    <3>3. Carries(m) => answer[m].row # answer[k].row
      BY <1>2, <2>2, <3>2 DEF AnswersFresh
    <3> QED BY <1>1, <1>2, <3>1, <3>2, <3>3 DEF AnswersFresh, Carries, Rotating
  <2> QED BY <2>1, <2>2
<1>4. NothingAstray'
  <2> SUFFICES ASSUME astray' = 0
               PROVE  /\ jar' # 0 /\ session'[jar'].rotated => \E t \in Tabs : Carries(Wire(t))'
                      /\ \A m \in Callers : Carries(m)' => ~session'[answer'[m].row].rotated
                      /\ \A t \in Tabs : Rotating(t)' => ~session'[request'[Wire(t)].row].rotated
                      /\ \A t \in Tabs : Wire(t) \notin reusedBy'
    BY DEF NothingAstray
  <2>1. /\ jar # 0 /\ session[jar].rotated => \E t \in Tabs : Carries(Wire(t))
        /\ \A m \in Callers : Carries(m) => ~session[answer[m].row].rotated
        /\ \A t \in Tabs : Rotating(t) => ~session[request[Wire(t)].row].rotated
        /\ \A t \in Tabs : Wire(t) \notin reusedBy
    BY DEF BrowserInv, NothingAstray
  <2>2. jar' # 0 /\ session'[jar'].rotated => \E t \in Tabs : Carries(Wire(t))'
    <3> SUFFICES ASSUME jar' # 0, session[jar'].rotated PROVE \E t \in Tabs : Carries(Wire(t))'
      OBVIOUS
    <3>1. jar' = jar
      BY <1>2, <2>1 DEF AnswersFresh
    <3>2. PICK t \in Tabs : Carries(Wire(t))
      BY <2>1, <3>1
    <3>3. Wire(t) # k
      BY <3>1, <3>2
    <3>4. Carries(Wire(t))'
      BY <1>1, <3>2, <3>3, WiresApart DEF Carries
    <3> QED BY <3>4
  <2> QED BY <1>1, <2>1, <2>2 DEF Carries, Rotating
<1> QED BY <1>3, <1>4

(* The flags and messages change, the service hears nothing.               *)
LEMMA AnswersStand ==
    ASSUME UserInv, BrowserInv, UNCHANGED <<session, request, reusedBy, astray, jar, answer>>
    PROVE  AnswersFresh' /\ NothingAstray'
  BY DEF BrowserInv, AnswersFresh, NothingAstray, Carries, Rotating

(* A refresh begins.                                                       *)
LEMMA TabRefreshKeeps == ASSUME UserInv, BrowserInv, NEW t \in Tabs, TabRefresh(t) PROVE BrowserInv'
<1>1. /\ tab[t].doing = "NOTHING" /\ request[Wire(t)] = Idle /\ answer[Wire(t)] = NoAnswer
      /\ tab' = [tab EXCEPT ![t].doing = "QUEUED", ![t].since = tab[t].epoch]
      /\ UNCHANGED <<session, reusedBy, request, astray, jar, pending, lock, answer, told, left>>
  BY DEF TabRefresh, sessionVars
<1>2. tab \in [Tabs -> TabRow] /\ tab[t] \in TabRow
  BY BrowserFacts
<1>3. /\ tab'[t].doing = "QUEUED" /\ tab'[t].since = tab[t].epoch /\ tab'[t].epoch = tab[t].epoch
      /\ tab'[t].user = tab[t].user /\ tab'[t].form = tab[t].form /\ tab[t].epoch \in Nat
      /\ tab' \in [Tabs -> TabRow] /\ \A s \in Tabs \ {t} : tab'[s] = tab[s]
  BY <1>1, <1>2 DEF TabRow, Doings
<1>4. BrowserTypes'
  BY <1>1, <1>3 DEF BrowserInv, BrowserTypes
<1>5. WiresFit'
  BY <1>1, <1>3 DEF BrowserInv, WiresFit, WireFits, Waiting
<1>6. AnswersFresh' /\ NothingAstray'
  BY <1>1, AnswersStand
<1>7. \A s \in Tabs : MayRevive(s)' => s # t /\ MayRevive(s)
  BY <1>1, <1>3 DEF MayRevive, Waiting, Carries, Rotating
<1>8. LeftForGood'
  BY <1>1, <1>7 DEF BrowserInv, LeftForGood
<1>9. TabsHear'
  BY <1>1, <1>3, <1>7 DEF BrowserInv, TabsHear, SigningOut, Heard
<1> QED BY <1>4, <1>5, <1>6, <1>8, <1>9 DEF BrowserInv

(* What the tab shows once a refresh has ended, for whichever reason: the  *)
(* lock is free, and nothing is left to revive it.                         *)
LEMMA RefreshEnds ==
    ASSUME UserInv, BrowserInv, NEW t \in Tabs, Waiting(t), NEW row \in TabRow,
           row.doing = "NOTHING", row.since <= row.epoch, row.form = tab[t].form,
           tab' = [tab EXCEPT ![t] = row], lock' = NoTab, Reply(Wire(t), NoAnswer),
           UNCHANGED <<request, told, left>>,
           left # "IN" /\ Heard(t) => row.user = NoUser
    PROVE  /\ tab' \in [Tabs -> TabRow] /\ WiresFit' /\ TabsHear'
           /\ \A s \in Tabs : MayRevive(s)' => MayRevive(s)
<1>1. /\ tab' \in [Tabs -> TabRow] /\ tab'[t] = row /\ \A s \in Tabs \ {t} : tab'[s] = tab[s]
  BY BrowserFacts
<1>2. /\ answer'[Wire(t)] = NoAnswer /\ \A s \in Tabs \ {t} : answer'[Wire(s)] = answer[Wire(s)]
  BY BrowserFacts, WiresApart DEF Reply
<1>3. lock = t /\ \A s \in Tabs \ {t} : ~Waiting(s)
  BY DEF BrowserInv, WiresFit, WireFits
<1>4. WiresFit'
  BY <1>1, <1>2, <1>3, BrowserAssumption DEF BrowserInv, WiresFit, WireFits, Waiting
<1>5. \A s \in Tabs : ~MayRevive(s)'
  BY <1>1, <1>3 DEF MayRevive, Waiting
<1>6. TabsHear'
  BY <1>1, <1>5 DEF BrowserInv, TabsHear, SigningOut, Heard
<1> QED BY <1>1, <1>4, <1>5, <1>6

(* The tab's own record, after a refresh.                                  *)
LEMMA RowsAfter ==
    ASSUME NEW t \in Tabs, tab[t] \in TabRow, tab[t].since <= tab[t].epoch
    PROVE  /\ \A u \in Users \cup {NoUser} :
                 LET row == Signed(t, u)
                 IN  /\ row \in TabRow /\ row.doing = "NOTHING" /\ row.since <= row.epoch
                     /\ row.form = tab[t].form /\ row.user = u
           /\ LET row == Ended(t)
              IN  /\ row \in TabRow /\ row.doing = "NOTHING" /\ row.since <= row.epoch
                  /\ row.form = tab[t].form /\ row.user = NoUser
<1>1. tab[t].since \in Nat /\ tab[t].epoch \in Nat /\ tab[t].epoch + 1 \in Nat
  BY DEF TabRow
<1>2. "NOTHING" \in Doings
  BY DEF Doings
<1>3. ASSUME NEW u \in Users \cup {NoUser}, NEW row, row = Signed(t, u)
      PROVE  /\ row \in TabRow /\ row.doing = "NOTHING" /\ row.since <= row.epoch
             /\ row.form = tab[t].form /\ row.user = u
  BY <1>2, <1>3 DEF Signed, TabRow
<1>4. ASSUME NEW row, row = Ended(t)
      PROVE  /\ row \in TabRow /\ row.doing = "NOTHING" /\ row.since <= row.epoch
             /\ row.form = tab[t].form /\ row.user = NoUser
  <2>1. row = [user |-> NoUser, epoch |-> tab[t].epoch + 1, doing |-> "NOTHING", since |-> tab[t].since,
               form |-> tab[t].form]
    BY <1>4 DEF Ended, TabRow
  <2>2. row \in TabRow
    BY <1>1, <1>2, <2>1 DEF TabRow
  <2> QED BY <1>1, <2>1, <2>2
<1> QED BY <1>3, <1>4

(* The answer of a refresh arrives.                                        *)
LEMMA TabRefreshedKeeps == ASSUME UserInv, BrowserInv, NEW t \in Tabs, TabRefreshed(t) PROVE BrowserInv'
<1> DEFINE a == answer[Wire(t)]
           row == AfterRefresh(t, a)
<1>1. /\ Waiting(t) /\ a # NoAnswer /\ jar' = a.row
      /\ pending' = IF a.kind = "DONE" THEN FALSE ELSE pending
      /\ tab' = [tab EXCEPT ![t] = row] /\ lock' = NoTab /\ Reply(Wire(t), NoAnswer)
      /\ UNCHANGED <<session, reusedBy, request, astray, told, left>>
  BY DEF TabRefreshed, sessionVars
<1>2. Wire(t) \in Callers /\ tab[t] \in TabRow
  BY BrowserFacts, WiresApart
<1>3. /\ a.kind = "OK" => a.row \in DOMAIN session /\ a.row # jar /\ session[a.row].user \in Users
      /\ a.kind # "OK" => a.row = 0
  BY <1>2, BrowserFacts, SessionTyped DEF BrowserInv, AnswersFresh, Carries
<1>4. tab[t].since <= tab[t].epoch /\ tab[t].since \in Nat /\ tab[t].epoch \in Nat
  BY <1>2 DEF BrowserInv, WiresFit, WireFits, TabRow
<1>5. /\ row \in TabRow /\ row.doing = "NOTHING" /\ row.since <= row.epoch /\ row.form = tab[t].form
      /\ \/ tab[t].epoch # tab[t].since /\ row.user = tab[t].user
         \/ tab[t].epoch = tab[t].since /\ a.kind = "OK"
         \/ row.user = NoUser
  <2>1. CASE tab[t].epoch # tab[t].since
    <3>1. row = Signed(t, tab[t].user) /\ tab[t].user \in Users \cup {NoUser}
      <4>1. tab[t].user \in Users \cup {NoUser}
        BY <1>2 DEF TabRow
      <4> QED BY <2>1, <4>1 DEF AfterRefresh
    <3> QED BY <1>2, <1>4, <2>1, <3>1, RowsAfter
  <2>2. CASE tab[t].epoch = tab[t].since /\ a.kind = "OK"
    <3>1. row = Signed(t, session[a.row].user) /\ session[a.row].user \in Users \cup {NoUser}
      BY <1>3, <2>2 DEF AfterRefresh
    <3> QED BY <1>2, <1>4, <2>2, <3>1, RowsAfter
  <2>3. CASE tab[t].epoch = tab[t].since /\ a.kind # "OK"
    <3>1. row = Ended(t)
      BY <2>3 DEF AfterRefresh
    <3> QED BY <1>2, <1>4, <3>1, RowsAfter
  <2> QED BY <2>1, <2>2, <2>3
<1>6. a.kind = "OK" => MayRevive(t)
  <2>1. Waiting(t)
    BY <1>1
  <2> QED BY <2>1 DEF MayRevive, Carries
<1>7. left # "IN" /\ Heard(t) => row.user = NoUser
  BY <1>5, <1>6 DEF Heard
<1> HIDE DEF row
<1>8. /\ tab' \in [Tabs -> TabRow] /\ WiresFit' /\ TabsHear'
      /\ \A s \in Tabs : MayRevive(s)' => MayRevive(s)
  BY <1>1, <1>5, <1>7, RefreshEnds
<1>9. AnswersFresh' /\ NothingAstray'
  BY <1>1, <1>2, <1>3, AnswerTaken DEF Carries
<1>10. LeftForGood'
  BY <1>1, <1>3, <1>6, <1>8 DEF BrowserInv, LeftForGood
<1> QED BY <1>1, <1>8, <1>9, <1>10 DEF BrowserInv, BrowserTypes

(* The tab gives up; a token that was on its way is lost.                  *)
LEMMA TabGivesUpKeeps == ASSUME UserInv, BrowserInv, NEW t \in Tabs, TabGivesUp(t) PROVE BrowserInv'
<1> DEFINE a == answer[Wire(t)]
           row == IF tab[t].doing = "REVOKING" /\ tab[t].epoch = tab[t].since
                  THEN Ended(t) ELSE Signed(t, tab[t].user)
<1>1. /\ Waiting(t) /\ tab' = [tab EXCEPT ![t] = row] /\ lock' = NoTab /\ Reply(Wire(t), NoAnswer)
      /\ astray' = IF a.kind = "OK" THEN astray + 1 ELSE astray
      /\ UNCHANGED <<session, reusedBy, request, jar, pending, told, left>>
  BY DEF TabGivesUp, sessionVars
<1>2. Wire(t) \in Callers /\ tab[t] \in TabRow /\ astray \in Nat
  BY BrowserFacts, WiresApart
<1>3. tab[t].since <= tab[t].epoch /\ tab[t].since \in Nat /\ tab[t].epoch \in Nat
  BY <1>2 DEF BrowserInv, WiresFit, WireFits, TabRow
<1>4. /\ row \in TabRow /\ row.doing = "NOTHING" /\ row.since <= row.epoch /\ row.form = tab[t].form
      /\ row.user \in {NoUser, tab[t].user}
  <2>1. tab[t].user \in Users \cup {NoUser} /\ row \in {Ended(t), Signed(t, tab[t].user)}
    BY <1>2 DEF TabRow
  <2> QED BY <1>2, <1>3, <2>1, RowsAfter
<1>5. left # "IN" /\ Heard(t) => row.user = NoUser
  BY <1>4 DEF Heard
<1> HIDE DEF row
<1>6. /\ tab' \in [Tabs -> TabRow] /\ WiresFit' /\ TabsHear'
      /\ \A s \in Tabs : MayRevive(s)' => MayRevive(s)
  BY <1>1, <1>4, <1>5, RefreshEnds
<1>7. astray' \in Nat /\ (astray' = 0 => astray = 0 /\ a.kind # "OK")
  BY <1>1, <1>2
<1>8. AnswersFresh' /\ NothingAstray'
  BY <1>1, <1>2, <1>7, AnswerTaken DEF Carries
<1>9. LeftForGood'
  BY <1>1, <1>6 DEF BrowserInv, LeftForGood
<1> QED BY <1>1, <1>6, <1>7, <1>8, <1>9 DEF BrowserInv, BrowserTypes

(* The tab's form or its account changes, its refresh goes on.             *)
LEMMA RowsApart ==
    ASSUME UserInv, BrowserInv, NEW t \in Tabs, NEW row \in TabRow, tab' = [tab EXCEPT ![t] = row],
           row.doing = tab[t].doing, row.since = tab[t].since, tab[t].epoch <= row.epoch,
           UNCHANGED lock, \A s \in Tabs : request'[Wire(s)] = request[Wire(s)],
           \A s \in Tabs : answer'[Wire(s)] = answer[Wire(s)]
    PROVE  /\ tab' \in [Tabs -> TabRow] /\ tab'[t] = row /\ (\A s \in Tabs \ {t} : tab'[s] = tab[s])
           /\ WiresFit' /\ \A s \in Tabs : MayRevive(s)' <=> MayRevive(s)
<1>1. tab' \in [Tabs -> TabRow] /\ tab'[t] = row /\ \A s \in Tabs \ {t} : tab'[s] = tab[s]
  BY BrowserFacts
<1>2. tab[t].since <= row.epoch
  <2>1. tab[t] \in TabRow
    BY BrowserFacts
  <2>2. tab[t].since \in Nat /\ tab[t].epoch \in Nat /\ row.epoch \in Nat
    BY <2>1 DEF TabRow
  <2>3. tab[t].since <= tab[t].epoch
    BY DEF BrowserInv, WiresFit, WireFits
  <2> QED BY <2>2, <2>3
<1>3. WiresFit'
  BY <1>1, <1>2 DEF BrowserInv, WiresFit, WireFits, Waiting
<1>4. \A s \in Tabs : MayRevive(s)' <=> MayRevive(s)
  BY <1>1 DEF MayRevive, Waiting, Carries, Rotating
<1> QED BY <1>1, <1>3, <1>4

(* Only the wires' answers count for the wires.                            *)
LEMMA FormAnswers ==
    ASSUME UserInv, BrowserInv, NEW t \in Tabs, NEW a, Reply(Form(t), a)
    PROVE  /\ Form(t) \in Callers /\ answer'[Form(t)] = a
           /\ \A k \in Callers \ {Form(t)} : answer'[k] = answer[k]
           /\ \A s \in Tabs : answer'[Wire(s)] = answer[Wire(s)]
<1>1. answer \in [Callers -> [kind : {"NONE", "OK", "REFUSED", "DONE"}, row : Tokens]]
  BY BrowserFacts
<1> QED BY <1>1, WiresApart DEF Reply

(* The record a sign-in, a sign-out or the news of one leaves.             *)
Rewritten(old, u, e, f) == [old EXCEPT !.user = u, !.epoch = e, !.form = f]

LEMMA RowRewritten ==
    ASSUME NEW old \in TabRow, NEW u \in Users \cup {NoUser}, NEW e \in Nat, NEW f \in Forms
    PROVE  LET row == Rewritten(old, u, e, f)
           IN  /\ row \in TabRow /\ row.doing = old.doing /\ row.since = old.since
               /\ row.user = u /\ row.epoch = e /\ row.form = f
<1>1. PICK row : row = Rewritten(old, u, e, f)
  OBVIOUS
<1>2. row = [user |-> u, epoch |-> e, doing |-> old.doing, since |-> old.since, form |-> f]
  BY <1>1 DEF TabRow, Rewritten
<1>3. old.doing \in Doings /\ old.since \in Nat
  BY DEF TabRow
<1>4. row \in TabRow
  BY <1>2, <1>3 DEF TabRow
<1> QED BY <1>1, <1>2, <1>4

(* A tab signs in.                                                         *)
LEMMA TabSignedInKeeps == ASSUME UserInv, BrowserInv, NEW t \in Tabs, TabSignedIn(t) PROVE BrowserInv'
<1> DEFINE a == answer[Form(t)]
           row == [tab[t] EXCEPT !.user = session[a.row].user, !.epoch = @ + 1, !.form = "NOTHING"]
<1>1. /\ a.kind = "OK" /\ Reply(Form(t), NoAnswer) /\ jar' = a.row /\ left' = "IN"
      /\ tab' = [tab EXCEPT ![t].user = session[a.row].user, ![t].epoch = @ + 1, ![t].form = "NOTHING"]
      /\ UNCHANGED <<session, reusedBy, request, astray, lock, told>>
  BY DEF TabSignedIn, sessionVars
<1>2. tab \in [Tabs -> TabRow] /\ tab[t] \in TabRow /\ Form(t) \in Callers
  BY BrowserFacts, WiresApart
<1>3. session[a.row].user \in Users
  BY <1>1, <1>2, BrowserFacts, SessionTyped DEF BrowserInv, AnswersFresh, Carries
<1>4. tab' = [tab EXCEPT ![t] = row]
  BY <1>1, <1>2
<1>5. /\ row \in TabRow /\ row.doing = tab[t].doing /\ row.since = tab[t].since
      /\ tab[t].epoch <= row.epoch
  <2>1. tab[t].epoch \in Nat /\ "NOTHING" \in Forms
    BY <1>2 DEF TabRow, Forms
  <2>2. PICK e \in Nat : e = tab[t].epoch + 1
    BY <2>1
  <2>3. row = [tab[t] EXCEPT !.user = session[a.row].user, !.epoch = e, !.form = "NOTHING"]
    BY <2>2
  <2>4. PICK old \in TabRow, u \in Users \cup {NoUser} : old = tab[t] /\ u = session[a.row].user
    BY <1>2, <1>3
  <2>5. row = [old EXCEPT !.user = u, !.epoch = e, !.form = "NOTHING"]
    BY <2>3, <2>4
  <2> HIDE DEF row
  <2>6. /\ row \in TabRow /\ row.doing = old.doing /\ row.since = old.since /\ row.epoch = e
    <3>1. PICK f \in Forms : f = "NOTHING"
      BY <2>1
    <3>2. row = [old EXCEPT !.user = u, !.epoch = e, !.form = f]
      BY <2>5, <3>1
    <3>3. row = Rewritten(old, u, e, f)
      BY <3>2 DEF Rewritten
    <3>4. PICK new : new = Rewritten(old, u, e, f)
      OBVIOUS
    <3>5. new \in TabRow /\ new.doing = old.doing /\ new.since = old.since /\ new.epoch = e
      BY <3>4, RowRewritten
    <3> QED BY <3>3, <3>4, <3>5
  <2> QED BY <2>1, <2>2, <2>4, <2>6
<1> HIDE DEF row
<1>6. tab' \in [Tabs -> TabRow] /\ WiresFit'
  <2>1. \A s \in Tabs : answer'[Wire(s)] = answer[Wire(s)]
    BY <1>1, FormAnswers
  <2> QED BY <1>1, <1>4, <1>5, <2>1, RowsApart
<1>7. AnswersFresh' /\ NothingAstray'
  <2>1. \A s \in Tabs : Form(t) # Wire(s)
    BY WiresApart
  <2> QED BY <1>1, <1>2, <2>1, AnswerTaken
<1> QED BY <1>1, <1>6, <1>7 DEF BrowserInv, BrowserTypes, LeftForGood, TabsHear

LEMMA TabSignInFailsKeeps ==
    ASSUME UserInv, BrowserInv, NEW t \in Tabs, TabSignInFails(t) PROVE BrowserInv'
<1> DEFINE row == [tab[t] EXCEPT !.form = "NOTHING"]
<1>1. /\ tab[t].form = "SIGNING_IN" /\ Reply(Form(t), NoAnswer)
      /\ tab' = [tab EXCEPT ![t].form = "NOTHING"]
      /\ UNCHANGED <<session, reusedBy, request, astray, jar, pending, lock, told, left>>
  BY DEF TabSignInFails, sessionVars
<1>2. tab \in [Tabs -> TabRow] /\ tab[t] \in TabRow /\ Form(t) \in Callers
  BY BrowserFacts, WiresApart
<1>3. tab' = [tab EXCEPT ![t] = row]
  BY <1>1, <1>2
<1>4. /\ row \in TabRow /\ row.doing = tab[t].doing /\ row.since = tab[t].since
      /\ row.epoch = tab[t].epoch /\ row.user = tab[t].user /\ tab[t].epoch <= row.epoch
  BY <1>2 DEF TabRow, Forms
<1> HIDE DEF row
<1>5. /\ tab' \in [Tabs -> TabRow] /\ tab'[t] = row /\ (\A s \in Tabs \ {t} : tab'[s] = tab[s])
      /\ WiresFit' /\ \A s \in Tabs : MayRevive(s)' <=> MayRevive(s)
  <2>1. \A s \in Tabs : answer'[Wire(s)] = answer[Wire(s)]
    BY <1>1, FormAnswers
  <2> QED BY <1>1, <1>3, <1>4, <2>1, RowsApart
<1>6. AnswersFresh' /\ NothingAstray'
  <2>1. \A s \in Tabs : Form(t) # Wire(s)
    BY WiresApart
  <2> QED BY <1>1, <1>2, <2>1, AnswerTaken
<1>7. LeftForGood'
  BY <1>1, <1>5 DEF BrowserInv, LeftForGood
<1>8. TabsHear'
  BY <1>1, <1>4, <1>5 DEF BrowserInv, TabsHear, SigningOut, Heard
<1> QED BY <1>1, <1>5, <1>6, <1>7, <1>8 DEF BrowserInv, BrowserTypes

(* A tab learns that another has signed out.                               *)
LEMMA TabToldKeeps == ASSUME UserInv, BrowserInv, NEW t \in Tabs, TabTold(t) PROVE BrowserInv'
<1> DEFINE row == [tab[t] EXCEPT !.user = NoUser, !.epoch = @ + 1]
<1>1. /\ told' = told \ {t}
      /\ tab' = [tab EXCEPT ![t].user = NoUser, ![t].epoch = @ + 1]
      /\ UNCHANGED <<session, reusedBy, request, astray, jar, pending, lock, answer, left>>
  BY DEF TabTold, sessionVars
<1>2. tab \in [Tabs -> TabRow] /\ tab[t] \in TabRow
  BY BrowserFacts
<1>3. tab' = [tab EXCEPT ![t] = row]
  BY <1>1, <1>2
<1>4. /\ row \in TabRow /\ row.doing = tab[t].doing /\ row.since = tab[t].since
      /\ row.epoch = tab[t].epoch + 1 /\ row.user = NoUser /\ row.form = tab[t].form
  <2>1. tab[t].epoch \in Nat
    BY <1>2 DEF TabRow
  <2>2. PICK e \in Nat : e = tab[t].epoch + 1
    BY <2>1
  <2>3. PICK old \in TabRow : old = tab[t]
    BY <1>2
  <2>4. PICK f \in Forms : f = old.form
    BY DEF TabRow
  <2>5. row = [old EXCEPT !.user = NoUser, !.epoch = e, !.form = f]
    BY <2>2, <2>3, <2>4 DEF TabRow
  <2> HIDE DEF row
  <2>6. /\ row \in TabRow /\ row.doing = old.doing /\ row.since = old.since /\ row.epoch = e
        /\ row.user = NoUser /\ row.form = f
    <3>1. PICK u \in Users \cup {NoUser} : u = NoUser
      OBVIOUS
    <3>2. row = [old EXCEPT !.user = u, !.epoch = e, !.form = f]
      BY <2>5, <3>1
    <3>3. row = Rewritten(old, u, e, f)
      BY <3>2 DEF Rewritten
    <3> QED BY <3>1, <3>3, RowRewritten
  <2> QED BY <2>2, <2>3, <2>4, <2>6
<1>5. tab[t].epoch <= row.epoch /\ row.epoch # row.since
  <2>1. tab[t].since <= tab[t].epoch
    BY DEF BrowserInv, WiresFit, WireFits
  <2>2. tab[t].epoch \in Nat /\ tab[t].since \in Nat
    BY <1>2 DEF TabRow
  <2> QED BY <1>4, <2>1, <2>2
<1> HIDE DEF row
<1>6. /\ tab' \in [Tabs -> TabRow] /\ tab'[t] = row /\ (\A s \in Tabs \ {t} : tab'[s] = tab[s])
      /\ WiresFit' /\ \A s \in Tabs : MayRevive(s)' <=> MayRevive(s)
  BY <1>1, <1>3, <1>4, <1>5, RowsApart
<1>7. AnswersFresh' /\ NothingAstray'
  BY <1>1, AnswersStand
<1>8. LeftForGood'
  BY <1>1, <1>6 DEF BrowserInv, LeftForGood
<1>9. TabsHear'
  BY <1>1, <1>4, <1>5, <1>6 DEF BrowserInv, TabsHear, SigningOut, Heard
<1> QED BY <1>1, <1>6, <1>7, <1>8, <1>9 DEF BrowserInv, BrowserTypes

(* A sign-out ends in the tab, and its message goes to the others.         *)
LEMMA SignsOutKeeps ==
    ASSUME UserInv, BrowserInv, NEW t \in Tabs, NEW done \in BOOLEAN, SignsOut(t, done)
    PROVE  BrowserInv'
<1> DEFINE out == tab[t].form = "SIGNING_OUT"
           row == [tab[t] EXCEPT !.user = IF out THEN NoUser ELSE @,
                                 !.epoch = IF out THEN @ + 1 ELSE @, !.form = "NOTHING"]
<1>1. /\ jar' = (IF done THEN 0 ELSE jar) /\ pending' = (IF done THEN FALSE ELSE pending)
      /\ tab' = [tab EXCEPT ![t].user = IF out THEN NoUser ELSE @,
                            ![t].epoch = IF out THEN @ + 1 ELSE @, ![t].form = "NOTHING"]
      /\ told' = IF out THEN told \cup (Tabs \ {t}) ELSE told
      /\ Reply(Form(t), NoAnswer)
      /\ UNCHANGED <<session, reusedBy, request, astray, lock, left>>
  BY DEF SignsOut, FlagAfter, sessionVars
<1>2. tab \in [Tabs -> TabRow] /\ tab[t] \in TabRow /\ Form(t) \in Callers
  BY BrowserFacts, WiresApart
<1>3. tab' = [tab EXCEPT ![t] = row]
  BY <1>1, <1>2
<1>4. /\ row \in TabRow /\ row.doing = tab[t].doing /\ row.since = tab[t].since
      /\ out => row.epoch = tab[t].epoch + 1 /\ row.user = NoUser
      /\ ~out => row.epoch = tab[t].epoch /\ row.user = tab[t].user
  <2>1. tab[t].epoch \in Nat /\ "NOTHING" \in Forms
    BY <1>2 DEF TabRow, Forms
  <2>2. PICK old \in TabRow : old = tab[t]
    BY <1>2
  <2>3. PICK e \in Nat : e = IF out THEN old.epoch + 1 ELSE old.epoch
    BY <2>1, <2>2
  <2>4. old.user \in Users \cup {NoUser}
    BY DEF TabRow
  <2>5. PICK u \in Users \cup {NoUser} : u = IF out THEN NoUser ELSE old.user
    BY <2>4
  <2>6. row = [old EXCEPT !.user = u, !.epoch = e, !.form = "NOTHING"]
    BY <2>2, <2>3, <2>5
  <2> HIDE DEF row
  <2>7. /\ row \in TabRow /\ row.doing = old.doing /\ row.since = old.since /\ row.epoch = e
        /\ row.user = u
    <3>1. PICK f \in Forms : f = "NOTHING"
      BY <2>1
    <3>2. row = [old EXCEPT !.user = u, !.epoch = e, !.form = f]
      BY <2>6, <3>1
    <3>3. row = Rewritten(old, u, e, f)
      BY <3>2 DEF Rewritten
    <3> QED BY <3>3, RowRewritten
  <2> QED BY <2>2, <2>3, <2>5, <2>7
<1>5. tab[t].epoch <= row.epoch /\ (out => row.epoch # row.since)
  <2>1. tab[t].since <= tab[t].epoch
    BY DEF BrowserInv, WiresFit, WireFits
  <2>2. tab[t].epoch \in Nat /\ tab[t].since \in Nat
    BY <1>2 DEF TabRow
  <2> QED BY <1>4, <2>1, <2>2
<1> HIDE DEF row
<1>6. /\ tab' \in [Tabs -> TabRow] /\ tab'[t] = row /\ (\A s \in Tabs \ {t} : tab'[s] = tab[s])
      /\ WiresFit' /\ \A s \in Tabs : MayRevive(s)' <=> MayRevive(s)
  <2>1. \A s \in Tabs : answer'[Wire(s)] = answer[Wire(s)]
    BY <1>1, FormAnswers
  <2> QED BY <1>1, <1>3, <1>4, <1>5, <2>1, RowsApart
<1>7. AnswersFresh' /\ NothingAstray'
  <2>1. \A s \in Tabs : Form(t) # Wire(s)
    BY WiresApart
  <2>2. jar' \in {0, jar, answer[Form(t)].row}
    BY <1>1
  <2> QED BY <1>1, <1>2, <2>1, <2>2, AnswerTaken
<1>8. LeftForGood'
  BY <1>1, <1>6 DEF BrowserInv, LeftForGood
<1>9. TabsHear'
  <2>1. CASE out
    BY <1>1, <1>4, <1>5, <1>6, <2>1 DEF TabsHear, Heard
  <2>2. CASE ~out
    BY <1>1, <1>4, <1>6, <2>2 DEF BrowserInv, TabsHear, SigningOut, Heard
  <2> QED BY <2>1, <2>2
<1> QED BY <1>1, <1>6, <1>7, <1>8, <1>9 DEF BrowserInv, BrowserTypes

LEMMA TabSignedOutKeeps ==
    ASSUME UserInv, BrowserInv, NEW t \in Tabs, TabSignedOut(t) \/ TabSignOutFails(t) PROVE BrowserInv'
  BY SignsOutKeeps DEF TabSignedOut, TabSignOutFails

-----------------------------------------------------------------------------
(* The service at work.                                                    *)

(* The tabs, the cookie and the flags stand still, and no refresh can      *)
(* revive more than before.                                                *)
LEMMA FlagsStand ==
    ASSUME BrowserInv, UNCHANGED <<tab, jar, pending, told, left>>,
           \A t \in Tabs : MayRevive(t)' => MayRevive(t)
    PROVE  LeftForGood' /\ TabsHear'
<1>1. LeftForGood'
  BY DEF BrowserInv, LeftForGood
<1>2. TabsHear'
  BY DEF BrowserInv, TabsHear, SigningOut, Heard
<1> QED BY <1>1, <1>2

(* An answer is sent, with no token or with one that is new.               *)
LEMMA AnswerSent ==
    ASSUME UserInv, BrowserInv, DOMAIN session \subseteq DOMAIN session', 0 \notin DOMAIN session', SameRotated,
           UNCHANGED <<jar, astray>>, NEW k \in Callers,
           \A m \in Callers \ {k} : answer'[m] = answer[m],
           \/ answer'[k] = answer[k]
           \/ answer'[k].kind # "OK" /\ answer'[k].row = 0
           \/ /\ answer'[k].row \in DOMAIN session' \ DOMAIN session
              /\ answer'[k].kind = "OK" /\ ~session'[answer'[k].row].rotated,
           \A t \in Tabs : Carries(Wire(t)) => Carries(Wire(t))',
           \A t \in Tabs :
               Rotating(t)' => \/ Rotating(t) /\ request'[Wire(t)].row = request[Wire(t)].row
                               \/ /\ request'[Wire(t)].row = jar /\ jar # 0
                                  /\ astray = 0 => ~session[jar].rotated,
           \A t \in Tabs : Wire(t) \in reusedBy' => astray # 0 \/ Wire(t) \in reusedBy
    PROVE  AnswersFresh' /\ NothingAstray'
<1>1. /\ jar # 0 => jar \in DOMAIN session
      /\ \A t \in Tabs : Rotating(t) => request[Wire(t)].row \in DOMAIN session
      /\ 0 \notin DOMAIN session
  BY BrowserFacts
<1>2. AnswersFresh /\ NothingAstray
  BY DEF BrowserInv
<1>3. \A t \in Tabs : Rotating(t)' => request'[Wire(t)].row \in DOMAIN session
  BY <1>1
<1>4. AnswersFresh'
  <2> SUFFICES ASSUME NEW m \in Callers
               PROVE  /\ ~Carries(m)' => answer'[m].row = 0
                      /\ Carries(m)' =>
                            /\ answer'[m].row \in DOMAIN session' /\ answer'[m].row # jar'
                            /\ \A n \in Callers : Carries(n)' /\ answer'[n].row = answer'[m].row => n = m
                            /\ \A t \in Tabs : Rotating(t)' => request'[Wire(t)].row # answer'[m].row
    BY DEF AnswersFresh
  <2>1. ASSUME answer'[m] = answer[m], Carries(m)
        PROVE  /\ answer[m].row \in DOMAIN session /\ answer[m].row # jar
               /\ \A n \in Callers : Carries(n)' /\ answer'[n].row = answer[m].row => n = m
               /\ \A t \in Tabs : Rotating(t)' => request'[Wire(t)].row # answer[m].row
    <3>1. /\ answer[m].row \in DOMAIN session /\ answer[m].row # jar
          /\ \A n \in Callers : Carries(n) /\ answer[n].row = answer[m].row => n = m
          /\ \A t \in Tabs : Rotating(t) => request[Wire(t)].row # answer[m].row
      BY <1>2, <2>1 DEF AnswersFresh
    <3>2. \A t \in Tabs : Rotating(t)' => request'[Wire(t)].row # answer[m].row
      BY <3>1
    <3>3. ASSUME NEW n \in Callers, Carries(n)', answer'[n].row = answer[m].row PROVE n = m
      <4>1. answer'[n] = answer[n]
        BY <3>1, <3>3 DEF Carries
      <4> QED BY <3>1, <3>3, <4>1 DEF Carries
    <3> QED BY <3>1, <3>2, <3>3
  <2>2. CASE answer'[m] = answer[m]
    BY <1>2, <2>1, <2>2 DEF AnswersFresh, Carries
  <2>3. CASE m = k /\ answer'[k].kind # "OK" /\ answer'[k].row = 0
    BY <2>3 DEF Carries
  <2>4. CASE /\ m = k /\ answer'[k].row \in DOMAIN session' \ DOMAIN session /\ answer'[k].kind = "OK"
    <3>1. \A n \in Callers \ {k} : Carries(n)' => answer'[n].row \in DOMAIN session
      BY <1>2 DEF AnswersFresh, Carries
    <3>2. jar # answer'[k].row
      BY <1>1, <2>4
    <3> QED BY <1>3, <2>4, <3>1, <3>2 DEF Carries
  <2> QED BY <2>2, <2>3, <2>4
<1>5. NothingAstray'
  <2> SUFFICES ASSUME astray = 0
               PROVE  /\ jar' # 0 /\ session'[jar'].rotated => \E t \in Tabs : Carries(Wire(t))'
                      /\ \A m \in Callers : Carries(m)' => ~session'[answer'[m].row].rotated
                      /\ \A t \in Tabs : Rotating(t)' => ~session'[request'[Wire(t)].row].rotated
                      /\ \A t \in Tabs : Wire(t) \notin reusedBy'
    BY DEF NothingAstray
  <2>1. /\ jar # 0 /\ session[jar].rotated => \E t \in Tabs : Carries(Wire(t))
        /\ \A m \in Callers : Carries(m) => ~session[answer[m].row].rotated
        /\ \A t \in Tabs : Rotating(t) => ~session[request[Wire(t)].row].rotated
        /\ \A t \in Tabs : Wire(t) \notin reusedBy
    BY <1>2 DEF NothingAstray
  <2>2. jar' # 0 /\ session'[jar'].rotated => \E t \in Tabs : Carries(Wire(t))'
    BY <1>1, <2>1 DEF SameRotated
  <2>3. ASSUME NEW m \in Callers, Carries(m)' PROVE ~session'[answer'[m].row].rotated
    <3>1. CASE answer'[m] = answer[m]
      <4>1. Carries(m) /\ answer[m].row \in DOMAIN session
        BY <1>2, <2>3, <3>1 DEF Carries, AnswersFresh
      <4> QED BY <2>1, <3>1, <4>1 DEF SameRotated
    <3>2. CASE answer'[m] # answer[m]
      BY <2>3, <3>2 DEF Carries
    <3> QED BY <3>1, <3>2
  <2>4. ASSUME NEW t \in Tabs, Rotating(t)' PROVE ~session'[request'[Wire(t)].row].rotated
    BY <1>1, <2>1, <2>4 DEF SameRotated
  <2> QED BY <2>1, <2>2, <2>3, <2>4
<1> QED BY <1>4, <1>5

(* A request goes on or ends; the others keep what they had.               *)
LEMMA RequestMoves ==
    ASSUME UserInv, NEW t \in Tabs, NEW r
    PROVE  /\ Enter(Wire(t), r) => /\ request'[Wire(t)] = r
                                   /\ \A s \in Tabs \ {t} : request'[Wire(s)] = request[Wire(s)]
           /\ Enter(Form(t), r) => \A s \in Tabs : request'[Wire(s)] = request[Wire(s)]
           /\ Done(Wire(t)) => /\ request'[Wire(t)] = Idle
                               /\ \A s \in Tabs \ {t} : request'[Wire(s)] = request[Wire(s)]
           /\ Done(Form(t)) => \A s \in Tabs : request'[Wire(s)] = request[Wire(s)]
<1>1. request \in [Callers -> Request]
  BY DEF UserInv, TablesInv, RequestTypes
<1> QED BY <1>1, WiresApart DEF Enter, Done

(* A tab's refresh is answered, or ends unheard.                           *)
LEMMA WireServed ==
    ASSUME UserInv, BrowserInv, NEW t \in Tabs, request[Wire(t)] # Idle, Done(Wire(t)),
           UNCHANGED <<tab, lock>>,
           UNCHANGED answer \/ (Waiting(t) /\ \E a : Reply(Wire(t), a))
    PROVE  /\ WiresFit' /\ answer[Wire(t)] = NoAnswer
           /\ \A k \in Callers \ {Wire(t)} : answer'[k] = answer[k]
           /\ \A s \in Tabs \ {t} : answer'[Wire(s)] = answer[Wire(s)] /\ (MayRevive(s)' <=> MayRevive(s))
<1>1. answer[Wire(t)] = NoAnswer /\ tab[t].doing # "QUEUED"
  BY DEF BrowserInv, WiresFit, WireFits
<1>2. \A k \in Callers \ {Wire(t)} : answer'[k] = answer[k]
  BY BrowserFacts DEF Reply
<1>3. \A s \in Tabs \ {t} : Wire(s) \in Callers \ {Wire(t)}
  BY WiresApart
<1>4. \A s \in Tabs \ {t} : request'[Wire(s)] = request[Wire(s)] /\ answer'[Wire(s)] = answer[Wire(s)]
  BY <1>2, <1>3, RequestMoves
<1>5. request'[Wire(t)] = Idle
  BY RequestMoves
<1>6. WiresFit'
  <2> SUFFICES ASSUME NEW s \in Tabs PROVE WireFits(s)'
    BY DEF WiresFit
  <2>1. WireFits(s)
    BY DEF BrowserInv, WiresFit
  <2>2. CASE s # t
    BY <1>4, <2>1, <2>2 DEF WireFits, Waiting
  <2>3. CASE s = t
    BY <1>1, <1>5, <2>1, <2>3 DEF WireFits, Waiting
  <2> QED BY <2>2, <2>3
<1>7. \A s \in Tabs \ {t} : MayRevive(s)' <=> MayRevive(s)
  BY <1>4 DEF MayRevive, Waiting, Carries, Rotating
<1> QED BY <1>1, <1>2, <1>4, <1>6, <1>7

(* The service rotates the token of a tab.                                 *)
LEMMA ServeRotationKeeps ==
    ASSUME UserInv, BrowserInv, NEW t \in Tabs, ServeRotation(t) PROVE BrowserInv'
<1> DEFINE r == request[Wire(t)]
           n == Len(session) + 1
<1>1. /\ r.kind = "REFRESH" /\ r.phase = "ROTATING" /\ Done(Wire(t))
      /\ session' = Append([session EXCEPT ![r.row].rotated = TRUE], Continuation(r.row))
      /\ \/ Waiting(t) /\ Reply(Wire(t), Answer("OK", n)) /\ UNCHANGED astray
         \/ ~Waiting(t) /\ UNCHANGED answer /\ astray' = astray + 1
      /\ UNCHANGED <<reusedBy, jar, pending, lock, tab, told, left>>
  BY DEF ServeRotation, Rotate
<1>2. /\ astray \in Nat /\ Wire(t) \in Callers /\ r.row \in DOMAIN session
      /\ answer \in [Callers -> [kind : {"NONE", "OK", "REFUSED", "DONE"}, row : Tokens]]
      /\ jar # 0 => jar \in DOMAIN session
      /\ \A s \in Tabs : Rotating(s) => request[Wire(s)].row \in DOMAIN session
  BY <1>1, BrowserFacts, WiresApart DEF Rotating
<1>3. /\ n \notin DOMAIN session /\ n # 0 /\ n \in DOMAIN session'
      /\ DOMAIN session \subseteq DOMAIN session' /\ ~session'[n].rotated
      /\ \A i \in DOMAIN session \ {r.row} : session'[i].rotated = session[i].rotated
  <2>1. /\ session \in Seq(SessionRows) /\ session[r.row] \in SessionRows
    BY <1>2, BrowserFacts, SessionTyped
  <2>2. PICK old \in Seq(SessionRows) : old = [session EXCEPT ![r.row].rotated = TRUE]
    <3>1. PICK new \in SessionRows : new = [session[r.row] EXCEPT !.rotated = TRUE]
      BY <2>1 DEF SessionRows
    <3>2. PICK i \in DOMAIN session : i = r.row
      BY <1>2
    <3>3. [session EXCEPT ![i].rotated = TRUE] = [session EXCEPT ![i] = new]
      BY <2>1, <3>1, <3>2
    <3>4. [session EXCEPT ![i] = new] \in Seq(SessionRows)
      BY <2>1
    <3> QED BY <3>2, <3>3, <3>4
  <2>3. /\ DOMAIN old = DOMAIN session /\ Len(old) = Len(session)
        /\ \A i \in DOMAIN session \ {r.row} : old[i] = session[i]
    <3>1. DOMAIN old = DOMAIN session
      BY <2>2
    <3>2. Len(old) = Len(session)
      BY <2>1, <3>1
    <3>3. ASSUME NEW i \in DOMAIN session \ {r.row} PROVE old[i] = session[i]
      BY <2>2, <3>3
    <3> QED BY <3>1, <3>2, <3>3
  <2>4. PICK next \in SessionRows : next = Continuation(r.row) /\ ~next.rotated
    <3>1. PICK now \in SessionRows : now = session[r.row]
      BY <2>1
    <3>2. PICK then : then = [now EXCEPT !.rotated = FALSE]
      OBVIOUS
    <3>3. then \in SessionRows /\ ~then.rotated
      BY <3>2 DEF SessionRows
    <3>4. then = Continuation(r.row)
      BY <3>1, <3>2 DEF Continuation
    <3> QED BY <3>3, <3>4
  <2>5. session' = Append(old, next)
    BY <1>1, <2>2, <2>4
  <2> QED BY <2>1, <2>3, <2>4, <2>5
<1>4. r # Idle
  BY <1>1 DEF Idle
<1>5. /\ WiresFit' /\ answer[Wire(t)] = NoAnswer
      /\ \A k \in Callers \ {Wire(t)} : answer'[k] = answer[k]
      /\ \A s \in Tabs \ {t} : answer'[Wire(s)] = answer[Wire(s)] /\ (MayRevive(s)' <=> MayRevive(s))
  BY <1>1, <1>4, WireServed
<1>6. /\ answer'[Wire(t)] = Answer("OK", n) \/ (answer'[Wire(t)] = NoAnswer /\ astray' # 0)
      /\ astray' \in Nat /\ (astray' = 0 => astray = 0)
  BY <1>1, <1>2, <1>5 DEF Reply
<1>7. \A s \in Tabs : Rotating(s)' => s # t /\ Rotating(s) /\ request'[Wire(s)] = request[Wire(s)]
  <2>1. request'[Wire(t)] = Idle /\ \A s \in Tabs \ {t} : request'[Wire(s)] = request[Wire(s)]
    BY <1>1, RequestMoves
  <2> QED BY <2>1 DEF Rotating, Idle
<1>8. Rotating(t) /\ AnswersFresh /\ NothingAstray
  BY <1>1 DEF Rotating, BrowserInv
<1> HIDE DEF n, r
<1>9. AnswersFresh'
  <2> SUFFICES ASSUME NEW m \in Callers
               PROVE  /\ ~Carries(m)' => answer'[m].row = 0
                      /\ Carries(m)' =>
                            /\ answer'[m].row \in DOMAIN session' /\ answer'[m].row # jar'
                            /\ \A k \in Callers : Carries(k)' /\ answer'[k].row = answer'[m].row => k = m
                            /\ \A s \in Tabs : Rotating(s)' => request'[Wire(s)].row # answer'[m].row
    BY DEF AnswersFresh
  <2>1. \A k \in Callers \ {Wire(t)} : Carries(k)' => answer'[k].row \in DOMAIN session
    BY <1>5, <1>8 DEF AnswersFresh, Carries
  <2>2. CASE m = Wire(t)
    BY <1>1, <1>2, <1>3, <1>6, <1>7, <2>1, <2>2 DEF Carries, Answer, NoAnswer
  <2>3. CASE m # Wire(t)
    <3>1. answer'[m] = answer[m] /\ (Carries(m)' <=> Carries(m))
      BY <1>5, <2>3 DEF Carries
    <3>2. \A k \in Callers : Carries(m)' /\ Carries(k)' /\ answer'[k].row = answer'[m].row => k = m
      <4>1. CASE Carries(m)
        <5>1. answer[m].row \in DOMAIN session
          BY <1>8, <4>1 DEF AnswersFresh
        <5>2. \A k \in Callers \ {Wire(t)} : answer'[k] = answer[k] /\ (Carries(k)' <=> Carries(k))
          BY <1>5 DEF Carries
        <5>3. \A k \in Callers : Carries(k) /\ answer[k].row = answer[m].row => k = m
          BY <1>8, <4>1 DEF AnswersFresh
        <5>4. Carries(Wire(t))' => answer'[Wire(t)].row \notin DOMAIN session
          BY <1>1, <1>3, <1>6 DEF Carries, Answer, NoAnswer
        <5> QED BY <3>1, <5>1, <5>2, <5>3, <5>4
      <4> QED BY <3>1, <4>1
    <3>3. \A s \in Tabs : Carries(m)' /\ Rotating(s)' => request'[Wire(s)].row # answer'[m].row
      BY <1>7, <1>8, <3>1 DEF AnswersFresh
    <3>4. Carries(m)' => answer'[m].row \in DOMAIN session' /\ answer'[m].row # jar'
      BY <1>1, <1>3, <1>8, <3>1 DEF AnswersFresh
    <3>5. ~Carries(m)' => answer'[m].row = 0
      BY <1>8, <3>1 DEF AnswersFresh
    <3> QED BY <3>2, <3>3, <3>4, <3>5
  <2> QED BY <2>2, <2>3
<1>10. NothingAstray'
  <2> SUFFICES ASSUME astray' = 0
               PROVE  /\ jar' # 0 /\ session'[jar'].rotated => \E s \in Tabs : Carries(Wire(s))'
                      /\ \A m \in Callers : Carries(m)' => ~session'[answer'[m].row].rotated
                      /\ \A s \in Tabs : Rotating(s)' => ~session'[request'[Wire(s)].row].rotated
                      /\ \A s \in Tabs : Wire(s) \notin reusedBy'
    BY DEF NothingAstray
  <2>1. astray = 0 /\ answer'[Wire(t)] = Answer("OK", n)
    BY <1>6
  <2>2. Carries(Wire(t))'
    BY <2>1 DEF Carries, Answer
  <2>3. ASSUME NEW m \in Callers, Carries(m)' PROVE ~session'[answer'[m].row].rotated
    <3>1. CASE m = Wire(t)
      BY <1>3, <2>1, <3>1 DEF Answer
    <3>2. CASE m # Wire(t)
      <4>1. answer'[m] = answer[m] /\ Carries(m)
        BY <1>5, <2>3, <3>2 DEF Carries
      <4>2. answer[m].row \in DOMAIN session /\ answer[m].row # r.row
        BY <1>8, <4>1 DEF AnswersFresh, r
      <4> QED BY <1>3, <1>8, <2>1, <4>1, <4>2 DEF NothingAstray
    <3> QED BY <3>1, <3>2
  <2>4. ASSUME NEW s \in Tabs, Rotating(s)' PROVE ~session'[request'[Wire(s)].row].rotated
    <3>1. s # t /\ Rotating(s) /\ request'[Wire(s)] = request[Wire(s)]
      BY <1>7, <2>4
    <3>2. request[Wire(s)].row # r.row
      BY <1>8, <3>1, WiresApart DEF UserInv, TablesInv, LocksExclusive, Rotating, r
    <3> QED BY <1>2, <1>3, <1>8, <2>1, <3>1, <3>2 DEF NothingAstray
  <2> QED BY <1>1, <1>8, <2>1, <2>2, <2>3, <2>4 DEF NothingAstray
<1>11. \A s \in Tabs : MayRevive(s)' => MayRevive(s)
  <2>1. MayRevive(t)' => MayRevive(t)
    BY <1>1, <1>8 DEF MayRevive, Waiting, r
  <2> QED BY <1>5, <2>1
<1>12. LeftForGood' /\ TabsHear'
  BY <1>1, <1>11, FlagsStand
<1> QED BY <1>1, <1>5, <1>6, <1>9, <1>10, <1>12 DEF BrowserInv, BrowserTypes

(* Revoking rows rotates none and adds none.                               *)
LEMMA RevokingRotatesNone ==
    ASSUME UserInv, NEW c \in Callers, FamilyRevoked(c)
    PROVE  SameRotated /\ DOMAIN session' = DOMAIN session
<1>1. session' = Revoked(ToRevoke(c))
  BY DEF FamilyRevoked, AfterRevocation
<1>2. \A i \in DOMAIN session : session[i] \in SessionRows
  BY SessionTyped DEF UserInv, TablesInv, TableTypes
<1>3. DOMAIN session' = DOMAIN session
  BY <1>1 DEF Revoked
<1>4. SameRotated
  <2> SUFFICES ASSUME NEW i \in DOMAIN session PROVE session'[i].rotated = session[i].rotated
    BY DEF SameRotated
  <2>1. session[i] \in SessionRows
    BY <1>2
  <2>2. session'[i] \in {[session[i] EXCEPT !.revoked = TRUE], session[i]}
    BY <1>1 DEF Revoked
  <2> QED BY <2>1, <2>2 DEF SessionRows
<1> QED BY <1>3, <1>4

(* The service ends a tab's family: it signed out before, or it is told of *)
(* a reuse, which only a lost successor explains.                          *)
LEMMA ServeRevocationKeeps ==
    ASSUME UserInv, BrowserInv, NEW t \in Tabs, ServeRevocation(t) PROVE BrowserInv'
<1> DEFINE r == request[Wire(t)]
<1>1. /\ r.kind \in {"LOGOUT", "REFRESH"} /\ FamilyRevoked(Wire(t)) /\ Done(Wire(t))
      /\ reusedBy' = IF r.kind = "REFRESH" /\ session[r.row].rotated
                     THEN reusedBy \cup {Wire(t)} ELSE reusedBy
      /\ \/ Waiting(t) /\ \E kind \in {"DONE", "REFUSED"} : Reply(Wire(t), Answer(kind, 0))
         \/ UNCHANGED answer
      /\ UNCHANGED <<astray, jar, pending, lock, tab, told, left>>
  BY DEF ServeRevocation, FamilyRevoked
<1>2. /\ Wire(t) \in Callers /\ 0 \notin DOMAIN session
      /\ answer \in [Callers -> [kind : {"NONE", "OK", "REFUSED", "DONE"}, row : Tokens]]
  BY BrowserFacts, WiresApart
<1>3. r # Idle
  BY <1>1 DEF Idle
<1>4. /\ WiresFit' /\ answer[Wire(t)] = NoAnswer
      /\ \A k \in Callers \ {Wire(t)} : answer'[k] = answer[k]
      /\ \A s \in Tabs \ {t} : answer'[Wire(s)] = answer[Wire(s)] /\ (MayRevive(s)' <=> MayRevive(s))
  BY <1>1, <1>3, WireServed
<1>5. answer'[Wire(t)].kind # "OK" /\ answer'[Wire(t)].row = 0
  BY <1>1, <1>2, <1>4 DEF Reply, Answer, NoAnswer
<1>6. /\ request'[Wire(t)] = Idle /\ ~Rotating(t)'
      /\ \A s \in Tabs \ {t} : request'[Wire(s)] = request[Wire(s)]
  <2>1. request'[Wire(t)] = Idle /\ \A s \in Tabs \ {t} : request'[Wire(s)] = request[Wire(s)]
    BY <1>1, RequestMoves
  <2> QED BY <2>1 DEF Rotating, Idle
<1>7. \A s \in Tabs : Wire(s) \in reusedBy' => astray # 0 \/ Wire(s) \in reusedBy
  <2>1. Rotating(t) /\ session[r.row].rotated => astray # 0
    BY DEF BrowserInv, NothingAstray
  <2> QED BY <1>1, <2>1, WiresApart DEF Rotating
<1>8. SameRotated /\ DOMAIN session' = DOMAIN session
  BY <1>1, <1>2, RevokingRotatesNone
<1>9. AnswersFresh' /\ NothingAstray'
  <2>1. \A s \in Tabs : Carries(Wire(s)) => Carries(Wire(s))'
    BY <1>4 DEF Carries, NoAnswer
  <2>2. \A s \in Tabs : Rotating(s)' => Rotating(s) /\ request'[Wire(s)].row = request[Wire(s)].row
    BY <1>6 DEF Rotating
  <2> QED BY <1>1, <1>2, <1>4, <1>5, <1>7, <1>8, <2>1, <2>2, AnswerSent
<1>10. \A s \in Tabs : MayRevive(s)' => MayRevive(s)
  <2>1. ~MayRevive(t)'
    BY <1>5, <1>6 DEF MayRevive, Carries
  <2> QED BY <1>4, <2>1
<1>11. LeftForGood' /\ TabsHear'
  BY <1>1, <1>10, FlagsStand
<1> QED BY <1>1, <1>4, <1>9, <1>11 DEF BrowserInv, BrowserTypes

(* What happens on the form's connection leaves the refreshes alone.       *)
LEMMA FormServed ==
    ASSUME UserInv, BrowserInv, NEW t \in Tabs, DOMAIN session \subseteq DOMAIN session',
           0 \notin DOMAIN session', SameRotated, UNCHANGED <<jar, astray>>,
           \A s \in Tabs : request'[Wire(s)] = request[Wire(s)],
           \A s \in Tabs : Wire(s) \in reusedBy' => Wire(s) \in reusedBy,
           \/ UNCHANGED answer
           \/ Reply(Form(t), Answer("DONE", 0)) \/ Reply(Form(t), Answer("REFUSED", 0))
           \/ \E i \in DOMAIN session' \ DOMAIN session :
                 Reply(Form(t), Answer("OK", i)) /\ ~session'[i].rotated
    PROVE  /\ AnswersFresh' /\ NothingAstray'
           /\ \A s \in Tabs : answer'[Wire(s)] = answer[Wire(s)]
<1>1. Form(t) \in Callers /\ answer \in [Callers -> [kind : {"NONE", "OK", "REFUSED", "DONE"}, row : Tokens]]
  BY BrowserFacts, WiresApart
<1>2. /\ \A k \in Callers \ {Form(t)} : answer'[k] = answer[k]
      /\ \A s \in Tabs : answer'[Wire(s)] = answer[Wire(s)]
  BY <1>1, WiresApart DEF Reply
<1>3. \/ answer'[Form(t)] = answer[Form(t)]
      \/ answer'[Form(t)].kind # "OK" /\ answer'[Form(t)].row = 0
      \/ /\ answer'[Form(t)].row \in DOMAIN session' \ DOMAIN session
         /\ answer'[Form(t)].kind = "OK" /\ ~session'[answer'[Form(t)].row].rotated
  BY <1>1 DEF Reply, Answer
<1>4. /\ \A s \in Tabs : Carries(Wire(s)) => Carries(Wire(s))'
      /\ \A s \in Tabs : Rotating(s)' => Rotating(s) /\ request'[Wire(s)].row = request[Wire(s)].row
  BY <1>2 DEF Carries, Rotating
<1>5. AnswersFresh' /\ NothingAstray'
  BY <1>1, <1>2, <1>3, <1>4, AnswerSent
<1> QED BY <1>2, <1>5

(* The service ends a sign-in or a sign-out of a tab.                      *)
LEMMA FormEnds ==
    ASSUME UserInv, BrowserInv, UNCHANGED <<astray, jar, pending, lock, tab, told, left>>,
           AnswersFresh' /\ NothingAstray',
           \A s \in Tabs : answer'[Wire(s)] = answer[Wire(s)],
           \A s \in Tabs : request'[Wire(s)] = request[Wire(s)]
    PROVE  BrowserInv'
<1>1. WiresFit'
  BY DEF BrowserInv, WiresFit, WireFits, Waiting
<1>2. \A s \in Tabs : MayRevive(s)' => MayRevive(s)
  BY DEF MayRevive, Waiting, Carries, Rotating
<1>3. LeftForGood' /\ TabsHear'
  BY <1>2, FlagsStand
<1> QED BY <1>1, <1>3 DEF BrowserInv, BrowserTypes

LEMMA ServeLogoutKeeps == ASSUME UserInv, BrowserInv, NEW t \in Tabs, ServeLogout(t) PROVE BrowserInv'
<1> DEFINE r == request[Form(t)]
<1>1. /\ FamilyRevoked(Form(t)) /\ Done(Form(t))
      /\ reusedBy' \in {reusedBy, reusedBy \cup {Form(t)}}
      /\ Reply(Form(t), Answer("DONE", 0)) \/ UNCHANGED answer
      /\ UNCHANGED <<astray, jar, pending, lock, tab, told, left>>
  BY DEF ServeLogout, FamilyRevoked
<1>2. \A s \in Tabs : request'[Wire(s)] = request[Wire(s)]
  BY <1>1, RequestMoves
<1>3. \A s \in Tabs : Wire(s) \in reusedBy' => Wire(s) \in reusedBy
  BY <1>1, WiresApart
<1>4. SameRotated /\ DOMAIN session' = DOMAIN session /\ 0 \notin DOMAIN session
  BY <1>1, WiresApart, RevokingRotatesNone, BrowserFacts
<1>5. AnswersFresh' /\ NothingAstray' /\ \A s \in Tabs : answer'[Wire(s)] = answer[Wire(s)]
  BY <1>1, <1>2, <1>3, <1>4, FormServed
<1> QED BY <1>1, <1>2, <1>5, FormEnds

LEMMA ServeLoginKeeps == ASSUME UserInv, BrowserInv, NEW t \in Tabs, ServeLogin(t) PROVE BrowserInv'
<1> DEFINE r == request[Form(t)]
           n == Len(session) + 1
           new == NewSession(r.user, r.hash, n, 0)
<1>1. /\ Done(Form(t)) /\ UNCHANGED <<reusedBy, astray, jar, pending, lock, tab, told, left>>
      /\ \/ UNCHANGED session /\ (UNCHANGED answer \/ Reply(Form(t), Answer("REFUSED", 0)))
         \/ session' = Append(session, new) /\ (UNCHANGED answer \/ Reply(Form(t), Answer("OK", n)))
  BY DEF ServeLogin
<1>2. /\ session \in Seq(SessionRows) /\ 0 \notin DOMAIN session
      /\ Len(session) \in Nat /\ DOMAIN session = 1 .. Len(session)
  BY BrowserFacts, SessionTyped
<1>3. new.rotated = FALSE
  BY DEF NewSession
<1>4. \A s \in Tabs : request'[Wire(s)] = request[Wire(s)]
  BY <1>1, RequestMoves
<1>5. session' = Append(session, new) =>
         /\ DOMAIN session' = 1 .. n /\ SameRotated /\ session'[n] = new
         /\ n \in DOMAIN session' \ DOMAIN session /\ DOMAIN session \subseteq DOMAIN session'
         /\ 0 \notin DOMAIN session'
  <2> HIDE DEF new
  <2> QED BY <1>2 DEF SameRotated
<1>6. UNCHANGED session => SameRotated
  BY DEF SameRotated
<1> HIDE DEF n, new
<1>7. AnswersFresh' /\ NothingAstray' /\ \A s \in Tabs : answer'[Wire(s)] = answer[Wire(s)]
  <2>1. CASE UNCHANGED session /\ (UNCHANGED answer \/ Reply(Form(t), Answer("REFUSED", 0)))
    BY <1>1, <1>2, <1>4, <1>6, <2>1, FormServed
  <2>2. CASE session' = Append(session, new) /\ (UNCHANGED answer \/ Reply(Form(t), Answer("OK", n)))
    <3>1. UNCHANGED answer \/ \E i \in DOMAIN session' \ DOMAIN session :
                                 Reply(Form(t), Answer("OK", i)) /\ ~session'[i].rotated
      BY <1>3, <1>5, <2>2
    <3>2. /\ DOMAIN session \subseteq DOMAIN session' /\ 0 \notin DOMAIN session' /\ SameRotated
      BY <1>5, <2>2
    <3> QED BY <1>1, <1>4, <3>1, <3>2, FormServed
  <2> QED BY <1>1, <2>1, <2>2
<1> QED BY <1>1, <1>4, <1>7, FormEnds

-----------------------------------------------------------------------------
(* What a tab asks for.                                                    *)

(* A form is filled in: the refreshes do not notice.                       *)
LEMMA FormAsked ==
    ASSUME UserInv, BrowserInv, NEW t \in Tabs, NEW doing \in Forms, tab' = [tab EXCEPT ![t].form = doing],
           UNCHANGED <<session, reusedBy, astray, jar, lock>>,
           UNCHANGED answer \/ Reply(Form(t), Answer("DONE", 0)),
           UNCHANGED request \/ \E r : Enter(Form(t), r)
    PROVE  /\ tab' \in [Tabs -> TabRow] /\ WiresFit' /\ AnswersFresh' /\ NothingAstray'
           /\ tab'[t].form = doing /\ \A s \in Tabs \ {t} : tab'[s] = tab[s]
           /\ \A s \in Tabs : /\ MayRevive(s)' <=> MayRevive(s)
                              /\ tab'[s].user = tab[s].user /\ tab'[s].epoch = tab[s].epoch
                              /\ tab'[s].since = tab[s].since
<1> DEFINE row == [tab[t] EXCEPT !.form = doing]
<1>1. tab \in [Tabs -> TabRow] /\ tab[t] \in TabRow
  BY BrowserFacts
<1>2. tab' = [tab EXCEPT ![t] = row]
  BY <1>1
<1>3. /\ row \in TabRow /\ row.doing = tab[t].doing /\ row.since = tab[t].since
      /\ row.epoch = tab[t].epoch /\ row.user = tab[t].user /\ row.form = doing
      /\ tab[t].epoch <= row.epoch
  BY <1>1 DEF TabRow
<1> HIDE DEF row
<1>4. \A s \in Tabs : request'[Wire(s)] = request[Wire(s)]
  BY RequestMoves
<1>5. AnswersFresh' /\ NothingAstray' /\ \A s \in Tabs : answer'[Wire(s)] = answer[Wire(s)]
  <2>1. 0 \notin DOMAIN session /\ SameRotated
    BY BrowserFacts DEF SameRotated
  <2> QED BY <1>4, <2>1, FormServed
<1>6. /\ tab' \in [Tabs -> TabRow] /\ tab'[t] = row /\ (\A s \in Tabs \ {t} : tab'[s] = tab[s])
      /\ WiresFit' /\ \A s \in Tabs : MayRevive(s)' <=> MayRevive(s)
  BY <1>2, <1>3, <1>4, <1>5, RowsApart
<1>7. ASSUME NEW s \in Tabs
      PROVE  /\ tab'[s].user = tab[s].user /\ tab'[s].epoch = tab[s].epoch
             /\ tab'[s].since = tab[s].since
  <2>1. CASE s = t
    BY <1>3, <1>6, <2>1
  <2>2. CASE s # t
    BY <1>6, <2>2
  <2> QED BY <2>1, <2>2
<1> QED BY <1>3, <1>5, <1>6, <1>7

LEMMA TabLoginKeeps ==
    ASSUME UserInv, BrowserInv, NEW t \in Tabs, NEW u \in Users, TabLogin(t, u) PROVE BrowserInv'
<1>1. /\ tab[t].form = "NOTHING" /\ (\E r : Enter(Form(t), r))
      /\ tab' = [tab EXCEPT ![t].form = "SIGNING_IN"] /\ "SIGNING_IN" \in Forms
      /\ UNCHANGED <<session, reusedBy, astray, jar, pending, lock, answer, told, left>>
  BY DEF TabLogin, sessionVars, Forms
<1>2. /\ tab' \in [Tabs -> TabRow] /\ WiresFit' /\ AnswersFresh' /\ NothingAstray'
      /\ tab'[t].form = "SIGNING_IN" /\ \A s \in Tabs \ {t} : tab'[s] = tab[s]
      /\ \A s \in Tabs : /\ MayRevive(s)' <=> MayRevive(s)
                         /\ tab'[s].user = tab[s].user /\ tab'[s].epoch = tab[s].epoch
                         /\ tab'[s].since = tab[s].since
  BY <1>1, FormAsked
<1>3. LeftForGood'
  BY <1>1, <1>2 DEF BrowserInv, LeftForGood
<1>4. TabsHear'
  BY <1>1, <1>2 DEF BrowserInv, TabsHear, SigningOut, Heard
<1> QED BY <1>1, <1>2, <1>3, <1>4 DEF BrowserInv, BrowserTypes

LEMMA TabLogoutKeeps ==
    ASSUME UserInv, BrowserInv, NEW t \in Tabs, TabLogout(t) \/ RetryLogout(t) PROVE BrowserInv'
<1>1. PICK doing \in Forms :
         /\ tab[t].form = "NOTHING" /\ tab' = [tab EXCEPT ![t].form = doing]
         /\ UNCHANGED answer \/ Reply(Form(t), Answer("DONE", 0))
         /\ UNCHANGED request \/ \E r : Enter(Form(t), r)
         /\ UNCHANGED <<session, reusedBy, astray, jar, lock, told>>
         /\ \/ /\ doing = "SIGNING_OUT" /\ pending' = TRUE
               /\ left' = IF \E u \in Tabs : Waiting(u) THEN "OVERLAPPED" ELSE "OUT"
            \/ doing = "RETRYING" /\ UNCHANGED <<pending, left>>
  <2>1. "SIGNING_OUT" \in Forms /\ "RETRYING" \in Forms
    BY DEF Forms
  <2>2. CASE TabLogout(t)
    BY <2>1, <2>2 DEF TabLogout, AskLogout, sessionVars
  <2>3. CASE RetryLogout(t)
    BY <2>1, <2>3 DEF RetryLogout, AskLogout, sessionVars
  <2> QED BY <2>2, <2>3
<1>2. /\ tab' \in [Tabs -> TabRow] /\ WiresFit' /\ AnswersFresh' /\ NothingAstray'
      /\ tab'[t].form = doing /\ \A s \in Tabs \ {t} : tab'[s] = tab[s]
      /\ \A s \in Tabs : /\ MayRevive(s)' <=> MayRevive(s)
                         /\ tab'[s].user = tab[s].user /\ tab'[s].epoch = tab[s].epoch
                         /\ tab'[s].since = tab[s].since
  BY <1>1, FormAsked
<1>3. LeftForGood' /\ TabsHear' /\ left' \in {"IN", "OUT", "OVERLAPPED"}
  <2>1. CASE /\ doing = "SIGNING_OUT" /\ pending' = TRUE
             /\ left' = IF \E u \in Tabs : Waiting(u) THEN "OVERLAPPED" ELSE "OUT"
    <3>1. LeftForGood'
      BY <1>2, <2>1 DEF LeftForGood, MayRevive
    <3>2. TabsHear'
      BY <1>2, <2>1 DEF TabsHear, SigningOut
    <3> QED BY <2>1, <3>1, <3>2
  <2>2. CASE doing = "RETRYING" /\ UNCHANGED <<pending, left>>
    <3>1. LeftForGood' /\ left' \in {"IN", "OUT", "OVERLAPPED"}
      BY <1>1, <1>2, <2>2 DEF BrowserInv, BrowserTypes, LeftForGood
    <3>2. TabsHear'
      BY <1>1, <1>2, <2>2 DEF BrowserInv, TabsHear, SigningOut, Heard
    <3> QED BY <3>1, <3>2
  <2> QED BY <1>1, <2>1, <2>2
<1> QED BY <1>1, <1>2, <1>3 DEF BrowserInv, BrowserTypes

(* What the tab that takes the lock sends.  Nobody else waits, so no token *)
(* is on its way to a refresh, and the cookie is the last one.             *)
LEMMA RotatesAsks ==
    ASSUME UserInv, BrowserInv, NEW t \in Tabs, Rotates(t)
    PROVE  /\ (\A s \in Tabs \ {t} : request'[Wire(s)] = request[Wire(s)])
           /\ Rotating(t)' => ~pending /\ jar # 0 /\ request'[Wire(t)].row = jar
           /\ Rotating(t)' /\ request'[Wire(t)].phase = "ROTATING" => Live(jar)
           /\ \/ UNCHANGED answer
              \/ /\ request'[Wire(t)] = Idle
                 /\ \E kind \in {"DONE", "REFUSED"} : Reply(Wire(t), Answer(kind, 0))
<1> DEFINE ask == [Idle EXCEPT !.kind = "REFRESH", !.phase = "ROTATING",
                               !.user = session[jar].user, !.row = jar]
           out == [Idle EXCEPT !.kind = "LOGOUT", !.row = jar, !.user = session[jar].user]
<1>1. request[Wire(t)] = Idle
  BY DEF Rotates, BrowserInv, WiresFit, WireFits
<1>2. jar # 0 => jar \in DOMAIN session
  BY BrowserFacts
<1>3. CASE jar = 0
  <2>1. /\ UNCHANGED request
        /\ \E kind \in {"DONE", "REFUSED"} : Reply(Wire(t), Answer(kind, 0))
    BY <1>3 DEF Rotates
  <2>2. ~Rotating(t)'
    BY <1>1, <2>1 DEF Rotating, Idle
  <2> QED BY <1>1, <2>1, <2>2
<1>4. CASE jar # 0 /\ pending
  <2>1. Enter(Wire(t), RevokeFamily(out, session[jar].family)) /\ UNCHANGED answer
    BY <1>4 DEF Rotates
  <2>2. RevokeFamily(out, session[jar].family).kind = "LOGOUT"
    BY DEF RevokeFamily, Idle
  <2>3. \A s \in Tabs \ {t} : request'[Wire(s)] = request[Wire(s)]
    BY <2>1, RequestMoves
  <2>4. request'[Wire(t)] = RevokeFamily(out, session[jar].family)
    BY <2>1, RequestMoves
  <2>5. ~Rotating(t)'
    BY <2>2, <2>4 DEF Rotating
  <2> QED BY <2>1, <2>3, <2>5
<1>5. CASE jar # 0 /\ ~pending
  <2>1. /\ LockByHash(Wire(t), jar)
        /\ IF RefreshOutcome(jar) = "INVALID"
           THEN Reply(Wire(t), Answer("REFUSED", 0)) ELSE UNCHANGED answer
    BY <1>5 DEF Rotates
  <2>2. CASE RefreshOutcome(jar) = "OK"
    <3>1. Enter(Wire(t), ask) /\ UNCHANGED answer
      BY <2>1, <2>2 DEF LockByHash
    <3>2. ask.row = jar
      BY DEF Idle
    <3>3. Live(jar)
      BY <1>2, <1>5, <2>2 DEF RefreshOutcome, Live
    <3> HIDE DEF ask
    <3>4. request'[Wire(t)] = ask /\ \A s \in Tabs \ {t} : request'[Wire(s)] = request[Wire(s)]
      BY <3>1, RequestMoves
    <3> QED BY <1>5, <3>1, <3>2, <3>3, <3>4
  <2>3. CASE RefreshOutcome(jar) \in {"REUSED", "INACTIVE"}
    <3> DEFINE r == RevokeFamily(ask, session[jar].family)
    <3>1. Enter(Wire(t), r) /\ UNCHANGED answer
      BY <2>1, <2>3 DEF LockByHash
    <3>2. r.row = jar /\ r.phase = "REVOKING"
      BY DEF RevokeFamily, Idle
    <3> HIDE DEF r
    <3>3. request'[Wire(t)] = r /\ \A s \in Tabs \ {t} : request'[Wire(s)] = request[Wire(s)]
      BY <3>1, RequestMoves
    <3> QED BY <1>5, <3>1, <3>2, <3>3
  <2>4. CASE RefreshOutcome(jar) = "INVALID"
    <3>1. Done(Wire(t)) /\ Reply(Wire(t), Answer("REFUSED", 0))
      BY <2>1, <2>4 DEF LockByHash
    <3>2. request'[Wire(t)] = Idle /\ \A s \in Tabs \ {t} : request'[Wire(s)] = request[Wire(s)]
      BY <3>1, RequestMoves
    <3>3. ~Rotating(t)'
      BY <3>2 DEF Rotating, Idle
    <3> QED BY <3>1, <3>2, <3>3
  <2> QED BY <2>2, <2>3, <2>4 DEF RefreshOutcome
<1> QED BY <1>3, <1>4, <1>5

LEMMA RotatesKeeps == ASSUME UserInv, BrowserInv, NEW t \in Tabs, Rotates(t) PROVE BrowserInv'
<1> DEFINE doing == IF pending THEN "REVOKING" ELSE "ROTATING"
<1>1. /\ tab[t].doing = "QUEUED" /\ lock = NoTab /\ lock' = t
      /\ tab' = [tab EXCEPT ![t].doing = doing]
      /\ left' = IF left = "OVERLAPPED" /\ ~pending /\ Live(jar) THEN "IN" ELSE left
      /\ UNCHANGED <<session, reusedBy, astray, jar, pending, told>>
  BY DEF Rotates, MayLock, sessionVars
<1>2. /\ tab \in [Tabs -> TabRow] /\ tab[t] \in TabRow /\ 0 \notin DOMAIN session
      /\ answer \in [Callers -> [kind : {"NONE", "OK", "REFUSED", "DONE"}, row : Tokens]]
  BY BrowserFacts
<1>3. /\ (\A s \in Tabs \ {t} : request'[Wire(s)] = request[Wire(s)])
      /\ Rotating(t)' => ~pending /\ jar # 0 /\ request'[Wire(t)].row = jar
      /\ Rotating(t)' /\ request'[Wire(t)].phase = "ROTATING" => Live(jar)
      /\ \/ UNCHANGED answer
         \/ /\ request'[Wire(t)] = Idle
            /\ \E kind \in {"DONE", "REFUSED"} : Reply(Wire(t), Answer(kind, 0))
  BY RotatesAsks
<1>4. \A s \in Tabs : ~Waiting(s) /\ answer[Wire(s)] = NoAnswer
  BY <1>1, BrowserAssumption DEF BrowserInv, WiresFit, WireFits
<1>5. /\ tab' \in [Tabs -> TabRow] /\ tab'[t].doing \in {"REVOKING", "ROTATING"}
      /\ tab'[t].user = tab[t].user /\ tab'[t].epoch = tab[t].epoch /\ tab'[t].since = tab[t].since
      /\ tab'[t].form = tab[t].form /\ \A s \in Tabs \ {t} : tab'[s] = tab[s]
  <2>1. doing \in {"REVOKING", "ROTATING"} /\ doing \in Doings
    BY DEF Doings
  <2> HIDE DEF doing
  <2> QED BY <1>1, <1>2, <2>1 DEF TabRow
<1>6. /\ \A k \in Callers \ {Wire(t)} : answer'[k] = answer[k]
      /\ answer'[Wire(t)].kind # "OK" /\ answer'[Wire(t)].row = 0
      /\ answer'[Wire(t)] # NoAnswer => request'[Wire(t)] = Idle
  BY <1>2, <1>3, <1>4, WiresApart DEF Reply, Answer, NoAnswer
<1>7. \A s \in Tabs \ {t} : Wire(s) \in Callers \ {Wire(t)} /\ answer'[Wire(s)] = answer[Wire(s)]
  BY <1>6, WiresApart
<1>8. WiresFit'
  <2> SUFFICES ASSUME NEW s \in Tabs PROVE WireFits(s)'
    BY DEF WiresFit
  <2>1. WireFits(s)
    BY DEF BrowserInv, WiresFit
  <2>2. CASE s = t
    BY <1>1, <1>5, <1>6, <2>1, <2>2 DEF WireFits, Waiting
  <2>3. CASE s # t
    BY <1>1, <1>3, <1>4, <1>5, <1>7, <2>1, <2>3 DEF WireFits, Waiting
  <2> QED BY <2>2, <2>3
<1>9. jar # 0 /\ astray = 0 => ~session[jar].rotated
  BY <1>4 DEF BrowserInv, NothingAstray, Carries, NoAnswer
<1>10. AnswersFresh' /\ NothingAstray'
  <2>1. SameRotated
    BY <1>1 DEF SameRotated
  <2>2. \A s \in Tabs : Carries(Wire(s)) => Carries(Wire(s))'
    BY <1>4 DEF Carries, NoAnswer
  <2>3. \A s \in Tabs :
           Rotating(s)' => \/ Rotating(s) /\ request'[Wire(s)].row = request[Wire(s)].row
                           \/ /\ request'[Wire(s)].row = jar /\ jar # 0
                              /\ astray = 0 => ~session[jar].rotated
    BY <1>3, <1>9 DEF Rotating
  <2>4. Wire(t) \in Callers
    BY WiresApart
  <2> QED BY <1>1, <1>2, <1>6, <2>1, <2>2, <2>3, <2>4, AnswerSent
<1>11. \A s \in Tabs : MayRevive(s)' => s = t /\ ~pending /\ jar # 0 /\ Live(jar)
  <2>1. MayRevive(t)' => ~pending /\ jar # 0 /\ Live(jar)
    BY <1>3, <1>6 DEF MayRevive, Carries
  <2>2. ASSUME NEW s \in Tabs \ {t} PROVE ~MayRevive(s)'
    BY <1>4, <1>5, <2>2 DEF MayRevive, Waiting
  <2> QED BY <2>1, <2>2
<1>12. LeftForGood'
  BY <1>1, <1>11 DEF BrowserInv, LeftForGood
<1>13. left' # "IN" => \A s \in Tabs : ~MayRevive(s)'
  BY <1>1, <1>11 DEF BrowserInv, BrowserTypes, LeftForGood
<1>14. TabsHear'
  BY <1>1, <1>5, <1>13 DEF BrowserInv, TabsHear, SigningOut, Heard
<1> QED BY <1>1, <1>2, <1>5, <1>8, <1>10, <1>12, <1>14 DEF BrowserInv, BrowserTypes

(* The database fails a refresh of a tab, which the tab hears as an error. *)
LEMMA VictimKeeps ==
    ASSUME UserInv, BrowserInv, NEW c \in Callers, NEW d \in Callers, DeadlockVictim(c, d)
    PROVE  BrowserInv'
<1>1. /\ Done(c) /\ request[c] # Idle
      /\ UNCHANGED <<session, reusedBy, astray, jar, pending, answer, told, left>>
  BY DEF DeadlockVictim, Entangled, Revoking, Idle, sessionVars
<1>2. request \in [Callers -> Request] /\ astray \in Nat /\ SameRotated /\ tab \in [Tabs -> TabRow]
  BY <1>1, BrowserFacts DEF SameRotated
<1>3. CASE UNCHANGED <<tab, lock>> /\ \A t \in Tabs : c # Wire(t)
  <2>1. \A t \in Tabs : request'[Wire(t)] = request[Wire(t)]
    BY <1>1, <1>2, <1>3 DEF Done
  <2>2. Elsewhere
    BY <1>1, <1>2, <1>3, <2>1 DEF Elsewhere, browserVars
  <2> QED BY <1>1, <2>2, ElsewhereKeeps
<1>4. ASSUME NEW t \in Tabs, c = Wire(t) PROVE BrowserInv'
  <2>1. /\ answer[Wire(t)] = NoAnswer /\ request'[Wire(t)] = Idle
        /\ tab[t].doing # "QUEUED" /\ \A s \in Tabs \ {t} : request'[Wire(s)] = request[Wire(s)]
    BY <1>1, <1>4, RequestMoves DEF BrowserInv, WiresFit, WireFits
  <2>2. /\ tab' \in [Tabs -> TabRow] /\ \A s \in Tabs \ {t} : tab'[s] = tab[s]
        /\ tab'[t].user = tab[t].user /\ tab'[t].epoch = tab[t].epoch /\ tab'[t].since = tab[t].since
        /\ tab'[t].form = tab[t].form
        /\ \/ Waiting(t) /\ lock' = NoTab /\ tab'[t].doing = "NOTHING"
           \/ ~Waiting(t) /\ lock' = lock /\ tab' = tab
    <3>1. c \in Tabs \X {"REFRESH"} /\ c[1] = t
      BY <1>4 DEF Wire
    <3>2. CASE ~Waiting(t)
      BY <1>2, <3>1, <3>2 DEF DeadlockVictim
    <3>3. CASE Waiting(t)
      <4>1. tab' = [tab EXCEPT ![t].doing = "NOTHING"] /\ lock' = NoTab
        BY <3>1, <3>3 DEF DeadlockVictim
      <4>2. tab[t] \in TabRow
        BY <1>2
      <4> QED BY <1>2, <3>3, <4>1, <4>2 DEF TabRow, Doings
    <3> QED BY <3>2, <3>3
  <2>3. WiresFit'
    <3> SUFFICES ASSUME NEW s \in Tabs PROVE WireFits(s)'
      BY DEF WiresFit
    <3>1. WireFits(s) /\ WireFits(t)
      BY DEF BrowserInv, WiresFit
    <3>2. CASE s = t
      BY <1>1, <2>1, <2>2, <3>1, <3>2, BrowserAssumption DEF WireFits, Waiting
    <3>3. CASE s # t
      BY <1>1, <2>1, <2>2, <3>1, <3>3, BrowserAssumption DEF WireFits, Waiting
    <3> QED BY <3>2, <3>3
  <2>4. ~Rotating(t)'
    BY <2>1 DEF Rotating, Idle
  <2>5. AnswersFresh' /\ NothingAstray'
    <3>1. 0 \notin DOMAIN session /\ \A s \in Tabs : Carries(Wire(s)) => Carries(Wire(s))'
      BY <1>1, BrowserFacts DEF Carries
    <3>2. \A s \in Tabs : Rotating(s)' => Rotating(s) /\ request'[Wire(s)].row = request[Wire(s)].row
      BY <2>1, <2>4 DEF Rotating
    <3> QED BY <1>1, <1>2, <3>1, <3>2, AnswerSent
  <2>6. \A s \in Tabs : MayRevive(s)' => MayRevive(s)
    <3>1. ~MayRevive(t)'
      BY <1>1, <2>1, <2>4 DEF MayRevive, Carries, NoAnswer
    <3>2. ASSUME NEW s \in Tabs \ {t} PROVE MayRevive(s)' => MayRevive(s)
      BY <1>1, <2>1, <2>2, <3>2 DEF MayRevive, Waiting, Carries, Rotating
    <3> QED BY <3>1, <3>2
  <2>7. LeftForGood'
    BY <1>1, <2>6 DEF BrowserInv, LeftForGood
  <2>8. TabsHear'
    BY <1>1, <2>2, <2>6 DEF BrowserInv, TabsHear, SigningOut, Heard
  <2> QED BY <1>1, <1>2, <2>2, <2>3, <2>5, <2>7, <2>8 DEF BrowserInv, BrowserTypes
<1>5. UNCHANGED <<tab, lock>> \/ \E t \in Tabs : c = Wire(t)
  <2>1. c \in Tabs \X {"REFRESH"} => \E t \in Tabs : c = Wire(t)
    BY DEF Wire
  <2> QED BY <2>1 DEF DeadlockVictim
<1> QED BY <1>3, <1>4, <1>5

-----------------------------------------------------------------------------
LEMMA BrowserInitInv == UserInit => BrowserInv
<1> SUFFICES ASSUME UserInit PROVE BrowserInv
  OBVIOUS
<1>1. /\ jar = 0 /\ pending = FALSE /\ lock = NoTab /\ told = {} /\ left = "IN" /\ astray = 0
      /\ tab = [t \in Tabs |-> [user |-> NoUser, epoch |-> 0, doing |-> "NOTHING",
                                since |-> 0, form |-> "NOTHING"]]
      /\ answer = [k \in Callers |-> NoAnswer] /\ request = [c \in Callers |-> Idle]
      /\ reusedBy = {}
  BY DEF UserInit, BrowserInit, TablesInit
<1>2. BrowserTypes
  BY <1>1 DEF BrowserTypes, TabRow, Doings, Forms
<1>3. /\ \A k \in Callers : ~Carries(k) /\ answer[k].row = 0
      /\ \A t \in Tabs : ~Rotating(t) /\ answer[Wire(t)] = NoAnswer /\ request[Wire(t)] = Idle
  BY <1>1, WiresApart DEF Carries, Rotating, NoAnswer, Idle
<1>4. WiresFit
  BY <1>1, <1>3, BrowserAssumption DEF WiresFit, WireFits, Waiting
<1>5. AnswersFresh /\ NothingAstray /\ LeftForGood /\ TabsHear
  BY <1>1, <1>3 DEF AnswersFresh, NothingAstray, LeftForGood, TabsHear
<1> QED BY <1>2, <1>4, <1>5 DEF BrowserInv

LEMMA BrowserStepInv == UserInv /\ BrowserInv /\ [UserNext]_userVars => BrowserInv'
<1> SUFFICES ASSUME UserInv, BrowserInv, [UserNext]_userVars PROVE BrowserInv'
  OBVIOUS
<1>1. DOMAIN session \subseteq DOMAIN session'
  BY EveryStep, SessionsGrow
<1>2. ASSUME UNCHANGED browserVars,
             \/ AccountsNext \/ SessionsNext \/ AdminNext
             \/ \E c \in Clients : RequestFails(c)
             \/ UNCHANGED userVars
      PROVE  BrowserInv'
  BY <1>1, <1>2, ClientsElsewhere, ElsewhereKeeps DEF BrowserInv
<1>3. CASE BrowserNext
  <2>1. ASSUME NEW t \in Tabs,
               \/ TabRefresh(t) \/ Rotates(t) \/ ServeRotation(t) \/ ServeRevocation(t)
               \/ TabRefreshed(t) \/ TabGivesUp(t)
        PROVE  BrowserInv'
    BY <2>1, TabRefreshKeeps, RotatesKeeps, ServeRotationKeeps, ServeRevocationKeeps, TabRefreshedKeeps,
       TabGivesUpKeeps
  <2>2. ASSUME NEW t \in Tabs,
               \/ \E u \in Users : TabLogin(t, u)
               \/ ServeLogin(t) \/ TabSignedIn(t) \/ TabSignInFails(t)
        PROVE  BrowserInv'
    BY <2>2, TabLoginKeeps, ServeLoginKeeps, TabSignedInKeeps, TabSignInFailsKeeps
  <2>3. ASSUME NEW t \in Tabs,
               \/ TabLogout(t) \/ RetryLogout(t) \/ ServeLogout(t) \/ TabSignedOut(t)
               \/ TabSignOutFails(t) \/ TabTold(t)
        PROVE  BrowserInv'
    BY <2>3, TabLogoutKeeps, ServeLogoutKeeps, TabSignedOutKeeps, TabToldKeeps
  <2> QED BY <1>3, <2>1, <2>2, <2>3, Zenon DEF BrowserNext
<1>4. CASE \E c, d \in Callers : DeadlockVictim(c, d)
  BY <1>4, VictimKeeps
<1>5. CASE (AccountsNext \/ SessionsNext) /\ UNCHANGED <<adminVars, browserVars>>
  BY <1>2, <1>5
<1>6. CASE AdminNext /\ UNCHANGED browserVars
  BY <1>2, <1>6
<1>7. CASE \E c \in Clients : RequestFails(c)
  <2>1. UNCHANGED browserVars
    BY <1>7 DEF RequestFails
  <2> QED BY <1>2, <1>7, <2>1
<1>8. CASE UNCHANGED userVars
  <2>1. UNCHANGED browserVars
    BY <1>8 DEF userVars
  <2> QED BY <1>2, <1>8, <2>1
<1> QED BY <1>3, <1>4, <1>5, <1>6, <1>7, <1>8, Zenon DEF UserNext

(* The inductive invariant of the browser holds, for any number of tabs.   *)
THEOREM BrowserInvHolds == UserSpec => []BrowserInv
<1>1. UserInit => BrowserInv
  BY BrowserInitInv
<1>2. UserInv /\ BrowserInv /\ [UserNext]_userVars => BrowserInv'
  BY BrowserStepInv
<1> QED BY <1>1, <1>2, UserInvHolds, PTL DEF UserSpec

(* The tabs of a browser are signed out when they should be, and only      *)
(* then: reuse is reported only if a token was lost on its way, a sign-out *)
(* that overlapped no refresh leaves no usable cookie behind, and no late  *)
(* answer signs a tab in again.                                            *)
THEOREM BrowserIsSound == UserSpec => []BrowserSound
<1>1. UserInv /\ BrowserInv => BrowserSound
  <2> SUFFICES ASSUME UserInv, BrowserInv PROVE BrowserSound
    OBVIOUS
  <2>1. astray \in Nat /\ 0 \notin DOMAIN session
    BY BrowserFacts
  <2>2. NoFalseReuse
    BY <2>1 DEF BrowserInv, NothingAstray, NoFalseReuse
  <2>3. SignOutSticks
    BY <2>1 DEF BrowserInv, LeftForGood, SignOutSticks, Live
  <2>4. SignedOutStays
    BY DEF BrowserInv, TabsHear, SigningOut, Heard, SignedOutStays
  <2> QED BY <2>2, <2>3, <2>4 DEF BrowserSound
<1> QED BY <1>1, UserInvHolds, BrowserInvHolds, PTL
=============================================================================
