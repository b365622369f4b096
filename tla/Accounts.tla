------------------------------ MODULE Accounts ------------------------------
(***************************************************************************)
(* users.service.ts, emailed-link.ts and seed.ts: accounts come into being *)
(* by registration or at boot, and a link sent to the inbox activates the  *)
(* account or resets its password.                                         *)
(***************************************************************************)
EXTENDS UserTables

(* A new link replaces the unused ones of its kind.                        *)
Issue(u, kind) ==
    /\ issued' = issued + 1
    /\ links' = (links \ UnconsumedOf(u, {kind}))
                  \cup {[id |-> issued + 1, user |-> u, kind |-> kind,
                         under |-> account[u].password, expired |-> FALSE]}

(* reviveExpiredRegistration: a pending account none of whose links is     *)
(* live.                                                                   *)
Lapsed(u) ==
    /\ account[u].status = "PENDING_ACTIVATION"
    /\ \A l \in UnconsumedOf(u, {"ACTIVATION"}) : l.expired

(* insertUser: pending, without a password.                                *)
NewUser == [Absent EXCEPT !.status = "PENDING_ACTIVATION"]

Register(c, u) ==
    /\ request[c] = Idle /\ Spend("REGISTER")
    /\ account[u].status = "ABSENT" \/ Lapsed(u)
    /\ RowFree(u, c)
    /\ account' = [account EXCEPT ![u] = NewUser]
    /\ Issue(u, "ACTIVATION")
    /\ UNCHANGED <<activations, sessionVars, request, astray>>

ResendActivation(c, u) ==
    /\ request[c] = Idle /\ Spend("RESEND")
    /\ account[u].status = "PENDING_ACTIVATION" /\ RowFree(u, c)
    /\ Issue(u, "ACTIVATION")
    /\ UNCHANGED <<account, activations, sessionVars, request, astray>>

(* Who may reset: a suspended account may not.                             *)
Resettable(u) == account[u].status \in {"PENDING_ACTIVATION", "ACTIVE"}

RequestPasswordReset(c, u) ==
    /\ request[c] = Idle /\ Spend("RESET")
    /\ Resettable(u) /\ RowFree(u, c)
    /\ Issue(u, "RESET")
    /\ UNCHANGED <<account, activations, sessionVars, request, astray>>

(* seedAdmins, for one configured address: an existing account is skipped. *)
SeedAdmin(c, u) ==
    /\ request[c] = Idle /\ Spend("SEED")
    /\ account[u].status = "ABSENT"
    /\ account' = [account EXCEPT ![u] =
                      [status |-> "ACTIVE", password |-> 1, mustChange |-> TRUE,
                       admin |-> TRUE, seeded |-> TRUE]]
    /\ activations' = [activations EXCEPT ![u] = @ + 1]
    /\ UNCHANGED <<links, issued, sessionVars, request, astray>>

(* The database clock passes a link's deadline.                            *)
LinkExpires(l) ==
    /\ Spend("EXPIRE")
    /\ ~l.expired
    /\ links' = (links \ {l}) \cup {[l EXCEPT !.expired = TRUE]}
    /\ UNCHANGED <<account, issued, activations, sessionVars, request, astray>>

Usable(l) == ~l.expired

(* activate and confirmPasswordReset read the link before they hash the    *)
(* password.                                                               *)
ReadLink(c, l) ==
    /\ request[c] = Idle /\ Spend("LINK")
    /\ Usable(l)
    /\ Enter(c, [Idle EXCEPT !.kind = "LINK", !.phase = "HASHING",
                             !.user = l.user, !.link = l.id])
    /\ UNCHANGED <<accountVars, sessionVars, astray>>

(* What the account must be for the link to work.                          *)
MayUse(kind, status) ==
    IF kind = "ACTIVATION" THEN status = "PENDING_ACTIVATION" ELSE status # "SUSPENDED"

(* A link is claimed by one conditional UPDATE.                            *)
Claimed(r) ==
    {l \in links : l.id = r.link /\ Usable(l) /\ MayUse(l.kind, account[r.user].status)}

(* Then they lock the account and claim the link, which may be gone.       *)
ClaimLink(c) ==
    LET r == request[c]
    IN  /\ r.kind = "LINK" /\ r.phase = "HASHING"
        /\ RowFree(r.user, c)
        /\ IF Claimed(r) = {} THEN Done(c) ELSE Enter(c, RevokeUser(r, {r.user}, TRUE))
        /\ UNCHANGED <<accountVars, sessionVars, astray, budget>>

ClearLinks(u) == links' = links \ UnconsumedOf(u, {"ACTIVATION", "RESET"})

(* Mutant: activation is not conditional on the status.                    *)
MutantActivates(u) == TRUE

Activates(u) == account[u].status = "PENDING_ACTIVATION"

SetPassword(row) == [row EXCEPT !.password = @ + 1, !.mustChange = FALSE]

(* setPasswordFromEmailedLink, and the commit.  Either kind of link proves *)
(* the inbox, so either activates the account.                             *)
SetPasswordFromEmailedLink(c) ==
    LET u == request[c].user
    IN  /\ request[c].kind = "LINK" /\ Revoking(c) /\ Revocable(c)
        /\ account' = [account EXCEPT ![u] = IF Activates(u) THEN [SetPassword(@) EXCEPT !.status = "ACTIVE"]
                                             ELSE SetPassword(@)]
        /\ activations' = [activations EXCEPT ![u] = IF Activates(u) THEN @ + 1 ELSE @]
        /\ ClearLinks(u)
        /\ session' = Revoked(ToRevoke(c))
        /\ escaped' = Escaped(c)
        /\ Done(c)
        /\ UNCHANGED <<issued, over, dead, reusedBy, astray, budget>>

AccountsNext ==
    \/ \E c \in Clients :
          \/ \E u \in Users : Register(c, u) \/ ResendActivation(c, u)
                                \/ RequestPasswordReset(c, u) \/ SeedAdmin(c, u)
          \/ \E l \in links : ReadLink(c, l)
          \/ ClaimLink(c)
          \/ SetPasswordFromEmailedLink(c)
    \/ \E l \in links : LinkExpires(l)
=============================================================================
