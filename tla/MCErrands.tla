------------------------------ MODULE MCErrands ------------------------------
(* Two instances of ErrandSaga in one state graph, told apart by case:     *)
(*  - one errand among all the students, with a role change and a lost     *)
(*    message, from the first moment on;                                   *)
(*  - two errands at a time on the wallets of two students, of whom none   *)
(*    is an administrator, from the last moment people act on; no message  *)
(*    is lost.                                                             *)
(* A case decides who acts and from when; what they do is SagaNext.        *)
EXTENDS MCErrandSaga

VARIABLE case

OneErrand(o) == [orders |-> {o}, students |-> Users]
TwoErrands == [orders |-> Orders, students |-> InitialAdmins]

(* SagaInit with the clock, the administrators, the role changes made and  *)
(* the messages lost of the case: at their bounds, there are no more.      *)
CaseInit ==
    /\ order = [o \in Orders |-> NoRow]
    /\ requests = {}
    /\ answered = [o \in Orders |-> "FREE"]
    /\ checked = [o \in Orders |-> "NO"]
    /\ suspended = {} /\ news = {} /\ applied = {}
    /\ handling = [u \in Users |-> [phase |-> "IDLE", at |-> NoTime]]
    /\ listed = {} /\ outside = 0
    /\ orderAlerts = {}
    /\ CreditInit
    /\ probe = NoProbe
    /\ \/ /\ \E o \in Orders : case = OneErrand(o)
          /\ clock = 0 /\ admins = InitialAdmins /\ roles = 0 /\ lost = 0
       \/ /\ case = TwoErrands
          /\ clock = Horizon /\ admins = {} /\ roles = MaxRoles /\ lost = MaxLost

(* Only the case's orders exist and only its students have a part in them. *)
CaseNext ==
    /\ SagaNext
    /\ \A o \in Orders :
          order'[o] # order[o] =>
              o \in case.orders /\ {order'[o].requester, order'[o].courier} \subseteq case.students \cup {NoUser}
    /\ \A u \in Users \ case.students : available'[u] = available[u]
    /\ UNCHANGED case

CaseSpec == CaseInit /\ [][CaseNext]_<<sagaVars, case>>
=============================================================================
