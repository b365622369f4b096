---------------------------- MODULE SignInLimits ----------------------------
(***************************************************************************)
(* rate-limiter.ts: fixed windows per key, in memory, and how login counts *)
(* an attempt, first for the client's address and then for the account.    *)
(***************************************************************************)
EXTENDS Quota, Integers, FiniteSets

CONSTANTS
    Addresses, Emails,
    PerIp, PerEmail,    \* loginPerIp, loginPerEmail
    LimitWindow,        \* 15 minutes
    MaxKeys             \* keys above which a limiter prunes

ASSUME LimitAssumption == {PerIp, PerEmail, LimitWindow, MaxKeys} \subseteq Nat

VARIABLES
    minute,     \* time
    windows,    \* per limiter: its open windows, by key
    tried       \* attempts that were let through

limitVars == <<minute, windows, tried>>

LimitsInit == minute = 0 /\ windows = [l \in {"IP", "EMAIL"} |-> {}] /\ tried = {}

Limit(l) == IF l = "IP" THEN PerIp ELSE PerEmail

Prune(ws) == {w \in ws : w.resetsAt > minute}

(* hit: the windows that the limiter has then, this key's among them.      *)
Counted(ws, key) ==
    LET kept == IF Cardinality(ws) > MaxKeys THEN Prune(ws) ELSE ws
        own  == {w \in kept : w.key = key /\ w.resetsAt > minute}
        next == IF own = {} THEN [key |-> key, count |-> 1, resetsAt |-> minute + LimitWindow]
                ELSE LET w == CHOOSE w \in own : TRUE IN [w EXCEPT !.count = @ + 1]
    IN  {w \in kept : w.key # key} \cup {next}

Allowed(l, ws, key) == \E w \in ws : w.key = key /\ w.count <= Limit(l)

(* login: an attempt over the address's limit does not count for the       *)
(* account.                                                                *)
LoginAttempt(ip, email) ==
    LET perIp    == Counted(windows["IP"], ip)
        perEmail == Counted(windows["EMAIL"], email)
    IN  /\ Use("LOGIN")
        /\ IF Allowed("IP", perIp, ip)
           THEN /\ windows' = [windows EXCEPT !["IP"] = perIp, !["EMAIL"] = perEmail]
                /\ tried' = IF Allowed("EMAIL", perEmail, email)
                            THEN tried \cup {[email |-> email, at |-> minute, no |-> quota["LOGIN"]]} ELSE tried
           ELSE windows' = [windows EXCEPT !["IP"] = perIp] /\ UNCHANGED tried
        /\ UNCHANGED minute

MinutePasses ==
    /\ Use("MINUTE")
    /\ minute' = minute + 1
    /\ UNCHANGED <<windows, tried>>

LimitsNext == MinutePasses \/ \E ip \in Addresses, email \in Emails : LoginAttempt(ip, email)

(* However attempts are spread over addresses and window edges, an account *)
(* sees at most twice its limit of passwords in any stretch of a window's  *)
(* length, pruned keys included.                                           *)
GuessesBounded ==
    \A t \in tried :
        Cardinality({s \in tried : s.email = t.email /\ s.at \in t.at .. t.at + LimitWindow - 1}) <= 2 * PerEmail
=============================================================================
