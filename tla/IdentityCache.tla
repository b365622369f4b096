--------------------------- MODULE IdentityCache ----------------------------
(***************************************************************************)
(* auth-client: one service instance's short memory of who a session       *)
(* belongs to.  The User Service is the truth; an answer is kept for       *)
(* CacheTtl, and dropped when an event says that the account changed.      *)
(* Each student has one session.                                           *)
(***************************************************************************)
EXTENDS Integers, Sequences, FiniteSets, FiniteSetsExt

CONSTANTS
    People,
    CacheTtl,           \* cacheTtlMs
    LookupTimeout,      \* timeoutMs
    MaxCacheEntries,    \* maxCacheEntries
    MaxLookups          \* bound: lookups made

ASSUME CacheAssumption ==
    /\ CacheTtl \in Nat /\ LookupTimeout \in Nat \ {0}
    /\ MaxCacheEntries \in Nat \ {0} /\ MaxLookups \in Nat

VARIABLES
    now,        \* time
    standing,   \* what the User Service would answer, by version
    since,      \* per student: since when that answer has been a refusal
    news,       \* identity events on their way, in either queue of the instance
    cache,      \* the answers kept, each with its place in the map's order
    inflight,   \* per student: the lookup a further caller would join, or 0
    lookups,    \* lookups made, by number
    heard       \* per student: the newest change an invalidation was for

identityVars == <<standing, since, news, cache, inflight, lookups, heard>>

IdentityInit ==
    /\ now = 0 /\ news = {} /\ cache = {} /\ lookups = <<>>
    /\ standing = [u \in People |-> [version |-> 1, ok |-> TRUE]]
    /\ since = [u \in People |-> 0]
    /\ inflight = [u \in People |-> 0] /\ heard = [u \in People |-> 0]

(* A suspension, a reinstatement or a change of role, which is announced,  *)
(* or the end of the session, which is not.                                *)
Changes(u, ok, announced) ==
    /\ standing' = [standing EXCEPT ![u] = [version |-> @.version + 1, ok |-> ok]]
    /\ since' = [since EXCEPT ![u] = IF standing[u].ok THEN now ELSE @]
    /\ news' = IF announced
               THEN news \cup {[queue |-> q, user |-> u, version |-> standing[u].version + 1] :
                                  q \in {"AUTH_STATUS", "SOCKET_STATUS"}}
               ELSE news
    /\ UNCHANGED <<cache, inflight, lookups, heard>>

(* The queue drops an event: it is too old, or the instance reconnected.   *)
EventDropped(m) ==
    /\ m \in news
    /\ news' = news \ {m}
    /\ UNCHANGED <<standing, since, cache, inflight, lookups, heard>>

(* The answer kept for u, if there is one that may still be used.          *)
Kept(u) == {e \in cache : e.user = u /\ e.expires > now}

Hit(u) == Kept(u) # {}

KeptAnswer(u) == CHOOSE e \in Kept(u) : TRUE

(* introspect without a usable answer: join the lookup, or make one.       *)
Joined(u) == IF inflight[u] # 0 THEN inflight[u] ELSE Len(lookups) + 1

Join(u) ==
    /\ inflight' = [inflight EXCEPT ![u] = Joined(u)]
    /\ lookups' = IF inflight[u] # 0 THEN lookups
                  ELSE Append(lookups, [user |-> u, phase |-> "ASKED", version |-> 0,
                                        ok |-> FALSE, until |-> now + LookupTimeout])
    /\ Len(lookups') <= MaxLookups

(* The User Service reads what it will answer.                             *)
Introspected(l) ==
    /\ lookups[l].phase = "ASKED"
    /\ lookups' = [lookups EXCEPT ![l].phase = "ANSWERED",
                                  ![l].version = standing[lookups[l].user].version,
                                  ![l].ok = standing[lookups[l].user].ok]
    /\ UNCHANGED <<standing, since, news, cache, inflight, heard>>

(* remember: room is made by dropping what has expired, then the oldest.   *)
(* An answer for a student who has one takes its place.                    *)
Remember(u, version, ok) ==
    LET full(c) == Cardinality(c) >= MaxCacheEntries
        usable  == IF full(cache) THEN {e \in cache : e.expires > now} ELSE cache
        room    == IF full(usable) THEN usable \ {e \in usable : \A d \in usable : e.place <= d.place}
                                   ELSE usable
        own     == {e \in room : e.user = u}
        place   == IF own # {} THEN (CHOOSE e \in own : TRUE).place
                               ELSE 1 + Max({0} \cup {e.place : e \in room})
    IN  IF CacheTtl = 0 THEN cache
        ELSE (room \ own) \cup {[user |-> u, version |-> version, ok |-> ok,
                                 expires |-> now + CacheTtl, place |-> place]}

(* Mutant: any answer is kept.                                             *)
MutantStillCurrent(l) == TRUE

(* A lookup that an invalidation detached is answered but not kept.        *)
StillCurrent(l) == inflight[lookups[l].user] = l

(* The answer arrives, or the lookup fails or times out.                   *)
Settled(l, phase) ==
    LET u == lookups[l].user
    IN  /\ phase = "ARRIVED" => lookups[l].phase = "ANSWERED"
        /\ lookups[l].phase \in {"ASKED", "ANSWERED"}
        /\ lookups' = [lookups EXCEPT ![l].phase = phase]
        /\ cache' = IF phase = "ARRIVED" /\ StillCurrent(l)
                    THEN Remember(u, lookups[l].version, lookups[l].ok) ELSE cache
        /\ inflight' = [inflight EXCEPT ![u] = IF @ = l THEN 0 ELSE @]
        /\ UNCHANGED <<standing, since, news, heard>>

(* UserStatusInvalidation, and SocketStatusEvents: invalidateUser.         *)
InvalidateUser(m) ==
    /\ m \in news
    /\ news' = news \ {m}
    /\ cache' = {e \in cache : e.user # m.user}
    /\ inflight' = [inflight EXCEPT ![m.user] = 0]
    /\ heard' = [heard EXCEPT ![m.user] = IF m.version > @ THEN m.version ELSE @]
    /\ UNCHANGED <<standing, since, lookups>>
=============================================================================
