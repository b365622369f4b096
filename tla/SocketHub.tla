------------------------------ MODULE SocketHub -----------------------------
(***************************************************************************)
(* socket-hub.ts and socket-status.ts: the chat sockets of one instance.   *)
(* A socket signs in with its first frame, is checked again from time to   *)
(* time, and is closed for one of many reasons, once.                      *)
(***************************************************************************)
EXTENDS IdentityCache, Quota

CONSTANTS
    MaxSockets,         \* bound: connections made; they are numbered
    NoPerson,
    AuthTimeout, RecheckEvery, TokenLife,
    PerUser, PerInstance, PendingPerInstance

ASSUME HubAssumption ==
    {MaxSockets, AuthTimeout, RecheckEvery, TokenLife, PerUser, PerInstance, PendingPerInstance} \subseteq Nat

VARIABLES
    socket,     \* per connection: its phase, user, timers and the lookup it awaits
    stopping,   \* the service has begun to stop
    ended       \* connections that were closed

Sockets == 1 .. MaxSockets

NotOpen == [phase |-> "NEW", user |-> NoPerson, alive |-> TRUE, timer |-> 0,
            expires |-> 0, waits |-> 0]

hubVars == <<socket, stopping, ended>>

HubInit ==
    /\ socket = [k \in Sockets |-> NotOpen]
    /\ stopping = FALSE /\ ended = {}

Held == {k \in Sockets : socket[k].phase \in {"AWAITING_AUTH", "AUTHENTICATING", "OPEN"}}
Pending == {k \in Held : socket[k].phase # "OPEN"}
ByUser(u) == {k \in Held : socket[k].phase = "OPEN" /\ socket[k].user = u}

Shut(s) == [s EXCEPT !.phase = "CLOSED", !.timer = 0, !.alive = TRUE]

Close(ks) == [k \in Sockets |-> IF k \in ks THEN Shut(socket[k]) ELSE socket[k]]

(* end, for each of ks.                                                    *)
End(ks) == socket' = Close(ks) /\ ended' = ended \cup ks

(* makeRoomToWait: the oldest that has not sent its auth frame.            *)
Evicted ==
    LET silent == {k \in Pending : socket[k].phase = "AWAITING_AUTH"}
    IN  IF Cardinality(Pending) < PendingPerInstance THEN {}
        ELSE {k \in silent : \A j \in silent : k <= j}

Connect(k) ==
    LET refused == \/ stopping
                   \/ Cardinality(Held) >= PerInstance
                   \/ Cardinality(Pending) >= PendingPerInstance /\ Evicted = {}
        fresh   == [NotOpen EXCEPT !.phase = "AWAITING_AUTH", !.timer = now + AuthTimeout]
    IN  /\ \A j \in Sockets : socket[j].phase = "NEW" <=> j >= k
        /\ Use("CONNECT")
        /\ IF refused
           THEN End({k})
           ELSE /\ socket' = [Close(Evicted) EXCEPT ![k] = fresh]
                /\ ended' = ended \cup Evicted
        /\ UNCHANGED <<identityVars, stopping>>

OwnFull(u) == Cardinality(ByUser(u)) >= PerUser

(* What authenticate's result makes of socket s: open counts the           *)
(* student's own sockets first, then looks at the token.                   *)
Resolved(s, ok) ==
    CASE ~ok -> Shut(s)
      [] ok /\ s.phase = "OPEN" -> [s EXCEPT !.timer = now + RecheckEvery, !.waits = 0]
      [] OTHER -> IF OwnFull(s.user) \/ s.expires <= now THEN Shut(s)
                  ELSE [s EXCEPT !.phase = "OPEN", !.timer = now + RecheckEvery, !.waits = 0]

Becomes(k, s) ==
    /\ socket' = [socket EXCEPT ![k] = s]
    /\ ended' = IF s.phase = "CLOSED" THEN ended \cup {k} ELSE ended

(* authenticate, for socket k in state s: at once from the cache, or once  *)
(* a lookup has ended.                                                     *)
Authenticate(k, s) ==
    IF Hit(s.user)
    THEN Becomes(k, Resolved(s, KeptAnswer(s.user).ok)) /\ UNCHANGED <<inflight, lookups>>
    ELSE Becomes(k, [s EXCEPT !.waits = Joined(s.user)]) /\ Join(s.user)

StillThere(k) == socket[k].phase # "CLOSED"

(* A lookup that socket k awaited has ended.                               *)
Resume(k) ==
    LET l == socket[k].waits
    IN  /\ l # 0 /\ lookups[l].phase \in {"ARRIVED", "FAILED"}
        /\ Becomes(k, [(IF StillThere(k)
                         THEN Resolved(socket[k], lookups[l].phase = "ARRIVED" /\ lookups[l].ok)
                         ELSE socket[k]) EXCEPT !.waits = 0])
        /\ UNCHANGED <<identityVars, stopping, quota>>

(* received: the auth frame of a student, with a token just issued.        *)
ReceivedAuth(k, u) ==
    /\ socket[k].phase = "AWAITING_AUTH" /\ Use("FRAME")
    /\ Authenticate(k, [socket[k] EXCEPT !.phase = "AUTHENTICATING", !.user = u,
                                         !.expires = now + TokenLife])
    /\ UNCHANGED <<standing, since, news, cache, heard, stopping>>

(* A malformed frame, or any after the first.                              *)
ReceivedOther(k) ==
    /\ k \in Held /\ Use("BAD_FRAME")
    /\ End({k})
    /\ UNCHANGED <<identityVars, stopping>>

Disconnected(k) ==
    /\ k \in Held /\ Use("DISCONNECT")
    /\ End({k})
    /\ UNCHANGED <<identityVars, stopping>>

(* The auth timer, the recheck and the token's expiry, on time.            *)
AuthTimesOut(k) ==
    /\ k \in Pending /\ socket[k].timer <= now
    /\ End({k})
    /\ UNCHANGED <<identityVars, stopping, quota>>

TokenExpires(k) ==
    /\ socket[k].phase = "OPEN" /\ socket[k].expires <= now
    /\ End({k})
    /\ UNCHANGED <<identityVars, stopping, quota>>

Recheck(k) ==
    /\ socket[k].phase = "OPEN" /\ socket[k].waits = 0 /\ socket[k].timer <= now
    /\ Authenticate(k, socket[k])
    /\ UNCHANGED <<standing, since, news, cache, heard, stopping, quota>>

(* beat: a socket that did not answer the last ping is dropped.            *)
Beat ==
    /\ Held # {} /\ Use("BEAT")
    /\ LET silent == {k \in Held : ~socket[k].alive}
       IN  /\ socket' = [k \in Sockets |-> IF k \in Held THEN [Close(silent)[k] EXCEPT !.alive = FALSE]
                                                         ELSE socket[k]]
           /\ ended' = ended \cup silent
    /\ UNCHANGED <<identityVars, stopping>>

Pong(k) ==
    /\ k \in Held /\ ~socket[k].alive
    /\ socket' = [socket EXCEPT ![k].alive = TRUE]
    /\ UNCHANGED <<identityVars, stopping, ended, quota>>

OnModuleDestroy ==
    /\ ~stopping /\ Use("STOP")
    /\ stopping' = TRUE
    /\ End(Held)
    /\ UNCHANGED identityVars

(* identityChanged, after the cached identity was dropped.                 *)
SocketStatusChanged(m) ==
    /\ m.queue = "SOCKET_STATUS"
    /\ InvalidateUser(m)
    /\ End(ByUser(m.user))
    /\ UNCHANGED <<stopping, quota>>

(* Time passes once every timer that is due has fired.                     *)
Tick ==
    /\ Use("TICK")
    /\ \A k \in Sockets :
          /\ k \in Held /\ socket[k].waits = 0 => socket[k].timer > now
          /\ k \in Pending => socket[k].timer > now
          /\ socket[k].phase = "OPEN" => socket[k].expires > now
          /\ socket[k].waits # 0 => lookups[socket[k].waits].phase \in {"ASKED", "ANSWERED"}
    /\ \A l \in DOMAIN lookups : lookups[l].phase \in {"ASKED", "ANSWERED"} => lookups[l].until > now
    /\ now' = now + 1
    /\ UNCHANGED <<identityVars, hubVars>>

IdentityStep ==
    \/ \E u \in People, ok \in BOOLEAN : Use("CHANGE") /\ Changes(u, ok, TRUE)
    \/ \E u \in People : Use("LOGOUT") /\ standing[u].ok /\ Changes(u, FALSE, FALSE)
    \/ \E m \in news : Use("LOSE") /\ EventDropped(m)
    \/ \E m \in news : m.queue = "AUTH_STATUS" /\ InvalidateUser(m) /\ UNCHANGED quota
    \/ \E l \in DOMAIN lookups :
          \/ Introspected(l) /\ UNCHANGED quota
          \/ Settled(l, "ARRIVED") /\ UNCHANGED quota
          \/ lookups[l].until > now /\ Use("UNAVAILABLE") /\ Settled(l, "FAILED")
          \/ lookups[l].until <= now /\ Settled(l, "FAILED") /\ UNCHANGED quota

SocketStep ==
    \/ \E k \in Sockets :
          \/ Connect(k) \/ ReceivedOther(k) \/ Disconnected(k) \/ AuthTimesOut(k) \/ TokenExpires(k)
          \/ Recheck(k) \/ Pong(k) \/ Resume(k)
          \/ \E u \in People : ReceivedAuth(k, u)
    \/ Beat \/ OnModuleDestroy
    \/ \E m \in news : SocketStatusChanged(m)

HubNext ==
    \/ IdentityStep /\ UNCHANGED <<now, hubVars>>
    \/ SocketStep /\ UNCHANGED now
    \/ Tick

-----------------------------------------------------------------------------
(* A cached answer never predates an identity event this instance has      *)
(* processed, a lookup under way at that moment included.                  *)
InvalidationsHold == \A e \in cache : e.version >= heard[e.user]

(* A student who is signed out or suspended keeps no socket beyond the     *)
(* recheck and the age an answer can reach, even if every event is lost or *)
(* comes while the socket is signing in.                                   *)
BarredSocketsClose ==
    \A k \in Sockets :
        socket[k].phase = "OPEN" /\ ~standing[socket[k].user].ok =>
            now <= since[socket[k].user] + RecheckEvery + CacheTtl + 2 * LookupTimeout

(* However connections, sign-ins and evictions interleave, the instance    *)
(* holds no more sockets, and lets no more wait, than its limits, and no   *)
(* student has more than theirs.                                           *)
SocketLimits ==
    /\ Cardinality(Held) <= PerInstance /\ Cardinality(Pending) <= PendingPerInstance
    /\ \A u \in People : Cardinality(ByUser(u)) <= PerUser

(* A socket that was closed, for whatever reason, stays closed, and none   *)
(* is held once the service stops.                                         *)
ClosedStays ==
    /\ \A k \in ended : socket[k].phase = "CLOSED"
    /\ stopping => Held = {}
=============================================================================
