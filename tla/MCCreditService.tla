--------------------------- MODULE MCCreditService ---------------------------
(* Three students and three orders.  o1 receives every kind of request,    *)
(* contradictory ones included; o1 and o2 compete for one wallet; o3 asks  *)
(* for more than Credit accepts.                                           *)
EXTENDS CreditService

CONSTANTS u1, u2, u3, o1, o2, o3

Msg(type, o, r, c, n) ==
    [type |-> type, order |-> o, requester |-> r, courier |-> c, amount |-> n]

MCInbound ==
    { Msg("RESERVATION_REQUESTED", o1, u1, NoUser, 2),
      Msg("RESERVATION_REQUESTED", o1, u2, NoUser, 2),
      Msg("COMPLETION_REQUESTED", o1, u1, u2, 2),
      Msg("COMPLETION_REQUESTED", o1, u1, u3, 2),
      Msg("COMPLETION_REQUESTED", o1, u1, u1, 2),
      Msg("RELEASE_REQUESTED", o1, u1, NoUser, 2),
      Msg("RESERVATION_REQUESTED", o2, u1, NoUser, 2),
      Msg("COMPLETION_REQUESTED", o2, u1, u2, 2),
      Msg("RELEASE_REQUESTED", o2, u1, NoUser, 2),
      Msg("RESERVATION_REQUESTED", o3, u2, NoUser, 3),
      Msg("RELEASE_REQUESTED", o3, u2, NoUser, 3) }
=============================================================================
