--------------------------- MODULE CreditMessages ---------------------------
(***************************************************************************)
(* The events Order and Credit exchange (platform/src/events/              *)
(* catalogue.ts).  A channel is the set of messages the broker may         *)
(* deliver: at least once, in any order.  Correlation and event ids,       *)
(* timestamps and resulting balances are left out; a transaction id is     *)
(* identified with its order and operation, which the ledger's unique keys *)
(* make one to one.                                                        *)
(***************************************************************************)
EXTENDS Integers

CONSTANTS Users,    \* students
          Orders,   \* order ids
          Rewards,  \* amounts an order may carry
          NoUser    \* the absent user

ASSUME MessageAssumption == Rewards \subseteq Nat \ {0} /\ NoUser \notin Users

VARIABLES requests,  \* events from Order that Credit may receive
          replies    \* events from Credit that Order may receive

RequestTypes == {"RESERVATION_REQUESTED", "COMPLETION_REQUESTED", "RELEASE_REQUESTED"}

Request == [type : RequestTypes, order : Orders, requester : Users,
            courier : Users \cup {NoUser}, amount : Rewards]

(* The payloads of the catalogue: only a completion names a courier.       *)
WellFormed == {m \in Request : (m.type = "COMPLETION_REQUESTED") <=> (m.courier # NoUser)}

Rejections == {"INSUFFICIENT_CREDITS", "AMOUNT_OUT_OF_RANGE", "CONFLICTING_REQUEST"}

ReplyTypes == {"CREDITS_RESERVED", "RESERVATION_REJECTED",
               "CREDITS_TRANSFERRED", "CREDITS_RELEASED"}

Reply == [type : ReplyTypes, order : Orders, requester : Users,
          courier : Users \cup {NoUser}, amount : Rewards,
          reason : Rejections \cup {"NONE"}, available : Nat]
=============================================================================
