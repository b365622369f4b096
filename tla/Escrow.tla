------------------------------- MODULE Escrow -------------------------------
(***************************************************************************)
(* What the Credit Service promises: every order holds at most one amount  *)
(* of its requester's spendable credits, and that amount leaves escrow at  *)
(* most once, to exactly one other student or back to the requester.       *)
(* There is no reserved column, no message and no replay here.             *)
(***************************************************************************)
EXTENDS Integers

CONSTANTS Users, Orders, NoUser, Amounts, Allocation

VARIABLES members,  \* users with a purse
          purse,    \* spendable credits
          escrow    \* per order: state, the requester it is held for, the
                    \* amount, and the payee once paid

vars == <<members, purse, escrow>>

Empty == [state |-> "EMPTY", holder |-> NoUser, amount |-> 0, payee |-> NoUser]

Init ==
    /\ members = {}
    /\ purse = [u \in Users |-> 0]
    /\ escrow = [o \in Orders |-> Empty]

Join(u) ==
    /\ u \notin members
    /\ members' = members \cup {u}
    /\ purse' = [purse EXCEPT ![u] = Allocation]
    /\ UNCHANGED escrow

Hold(o, u, n) ==
    /\ escrow[o].state = "EMPTY"
    /\ u \in members /\ purse[u] >= n
    /\ purse' = [purse EXCEPT ![u] = @ - n]
    /\ escrow' = [escrow EXCEPT ![o] =
           [state |-> "HELD", holder |-> u, amount |-> n, payee |-> NoUser]]
    /\ UNCHANGED members

Refuse(o, u, n) ==
    /\ escrow[o].state = "EMPTY"
    /\ escrow' = [escrow EXCEPT ![o] =
           [state |-> "REFUSED", holder |-> u, amount |-> n, payee |-> NoUser]]
    /\ UNCHANGED <<members, purse>>

Pay(o, c) ==
    /\ escrow[o].state = "HELD"
    /\ c \in members /\ c # escrow[o].holder
    /\ purse' = [purse EXCEPT ![c] = @ + escrow[o].amount]
    /\ escrow' = [escrow EXCEPT ![o] =
           [state |-> "PAID", holder |-> escrow[o].holder, amount |-> escrow[o].amount, payee |-> c]]
    /\ UNCHANGED members

Refund(o) ==
    /\ escrow[o].state = "HELD"
    /\ purse' = [purse EXCEPT ![escrow[o].holder] = @ + escrow[o].amount]
    /\ escrow' = [escrow EXCEPT ![o] =
           [state |-> "REFUNDED", holder |-> escrow[o].holder, amount |-> escrow[o].amount,
            payee |-> NoUser]]
    /\ UNCHANGED members

Next ==
    \/ \E u \in Users : Join(u)
    \/ \E o \in Orders, u \in Users, n \in Amounts : Hold(o, u, n) \/ Refuse(o, u, n)
    \/ \E o \in Orders, c \in Users : Pay(o, c)
    \/ \E o \in Orders : Refund(o)

Spec == Init /\ [][Next]_vars
=============================================================================
