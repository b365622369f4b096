---------------------------- MODULE CreditService ----------------------------
(***************************************************************************)
(* The Credit Service alone, against the worst broker: every request of    *)
(* Inbound may arrive at any time, any number of times and in any order,   *)
(* requests that contradict each other included.                           *)
(***************************************************************************)
EXTENDS CreditLedger, Functions

CONSTANT Inbound     \* the requests the broker may deliver

ASSUME InboundAssumption == Inbound \subseteq WellFormed

(* The books are sums over the tables.                                     *)
ASSUME TablesAssumption == IsFiniteSet(Users) /\ IsFiniteSet(Orders)

Init == CreditInit /\ requests = Inbound

Next == CreditNext

Spec == Init /\ [][Next]_creditVars

-----------------------------------------------------------------------------
(* Type invariant.  Balances are naturals: the database's non-negative     *)
(* checks (credit-service/src/db/schema.ts) never fire.                    *)
TypeOK ==
    /\ funded \subseteq Users
    /\ available \in [Users -> Nat]
    /\ reserved \in [Users -> Nat]
    /\ reservation \in [Orders -> ReserveRow]
    /\ terminal \in [Orders -> TerminalRow]
    /\ missed \subseteq requests
    /\ requests \subseteq Request
    /\ replies \subseteq Reply
    /\ alerts \subseteq Orders \X {"RESERVE", "TRANSFER", "RELEASE"} \X AlertCodes

(* Every reply Credit ever wrote agrees with what it durably recorded, so  *)
(* an order is never told both that its credits were paid out and that     *)
(* they were returned, nor two couriers, nor that a refused reservation is *)
(* held.  A rejection is contradicted only for a conflicting request.      *)
RepliesTruthful ==
    \A r \in replies :
        LET row == reservation[r.order] IN
        /\ r.type # "RESERVATION_REJECTED" =>
              row.outcome = "SUCCEEDED" /\ row.requester = r.requester /\ row.amount = r.amount
        /\ r.type = "CREDITS_TRANSFERRED" =>
              terminal[r.order].type = "TRANSFER" /\ terminal[r.order].courier = r.courier
        /\ r.type = "CREDITS_RELEASED" => terminal[r.order].type = "RELEASE"
        /\ (r.type = "RESERVATION_REJECTED" /\ r.reason # "CONFLICTING_REQUEST") =>
              row.outcome = "REJECTED" /\ row.reason = r.reason /\ row.available = r.available

(* A settlement has its reservation: credits leave escrow only for an      *)
(* order whose reservation succeeded, to a student other than its          *)
(* requester, and only if both have wallets; only a payment names a payee. *)
SettlementBacked ==
    \A o \in Orders :
        /\ reservation[o].outcome = "SUCCEEDED" => reservation[o].requester \in funded
        /\ terminal[o].type # "ABSENT" => reservation[o].outcome = "SUCCEEDED"
        /\ IF terminal[o].type = "TRANSFER"
           THEN terminal[o].courier \in funded \ {reservation[o].requester}
           ELSE terminal[o].courier = NoUser

(* A reservation that is still open after its debit missed owns its order: *)
(* no other delivery has decided the order, or holds it open, meanwhile.   *)
(* The unique key on (order, operation) is what the rejection it goes on   *)
(* to write relies on.                                                     *)
ClaimsExclusive ==
    \A m \in missed :
        /\ m.type = "RESERVATION_REQUESTED"
        /\ reservation[m.order].outcome = "ABSENT"
        /\ \A x \in missed : x.order = m.order => x = m

-----------------------------------------------------------------------------
(* The books, as credit-service/src/credits/invariants.ts recomputes them. *)

Held(o) ==
    IF reservation[o].outcome = "SUCCEEDED" /\ terminal[o].type = "ABSENT"
    THEN reservation[o].amount ELSE 0

HeldFor(u) == SumFunction([o \in Orders |-> IF reservation[o].requester = u THEN Held(o) ELSE 0])

(* What an entry adds to an account.                                       *)
Posting(t, u, account) ==
    (IF t.creditUser = u /\ t.creditAccount = account THEN t.amount ELSE 0)
    - (IF t.debitUser = u /\ t.debitAccount = account THEN t.amount ELSE 0)

LedgerBalance(u, account) == SumFunction([t \in journal |-> Posting(t, u, account)])

Issued == SumFunction([t \in journal |-> IF t.type = "ISSUE" THEN t.amount ELSE 0])

(* A wallet's reserved credits are exactly the sum of its unsettled        *)
(* reservations, so the "not backed by reserved credit" error of transfer  *)
(* and release cannot be reached by any interleaving of orders.            *)
ReservedBacked == \A u \in Users : reserved[u] = HeldFor(u)

(* A wallet equals its ledger on both accounts.                            *)
WalletMatchesLedger ==
    \A u \in Users : /\ available[u] = LedgerBalance(u, "AVAILABLE")
                     /\ reserved[u] = LedgerBalance(u, "RESERVED")

(* No credit is made or lost: wallets together hold what was issued, and   *)
(* each wallet was issued the allocation once.                             *)
CreditsConserved ==
    /\ SumFunction([u \in Users |-> available[u] + reserved[u]]) = Issued
    /\ Issued = InitialAllocation * Cardinality(funded)

(* The books balance, whichever orders interleave: reserved credits, the   *)
(* ledger and what was issued agree (ReservedBacked, WalletMatchesLedger,  *)
(* CreditsConserved), as invariants.ts recomputes them.                    *)
BooksBalance == ReservedBacked /\ WalletMatchesLedger /\ CreditsConserved

(* A reservation is refused for insufficient credits only when the wallet  *)
(* is short.  docs/adr/0007 says a debit that matches no row means a       *)
(* missing wallet or insufficient funds, "distinguished inside the same    *)
(* transaction", and that a missing wallet is retried.                     *)
RefusedMeansShort ==
    \A o \in Orders : reservation[o].reason = "INSUFFICIENT_CREDITS" =>
        reservation[o].available < reservation[o].amount

-----------------------------------------------------------------------------
(* The ledger implements the escrow it promises.                           *)

EscrowOf(o) ==
    LET row == reservation[o] IN
    [state |-> CASE row.outcome = "ABSENT" -> "EMPTY"
                 [] row.outcome = "REJECTED" -> "REFUSED"
                 [] row.outcome = "SUCCEEDED" /\ terminal[o].type = "ABSENT" -> "HELD"
                 [] row.outcome = "SUCCEEDED" /\ terminal[o].type = "TRANSFER" -> "PAID"
                 [] row.outcome = "SUCCEEDED" /\ terminal[o].type = "RELEASE" -> "REFUNDED",
     holder |-> row.requester, amount |-> row.amount, payee |-> terminal[o].courier]

E == INSTANCE Escrow WITH
        Amounts <- Rewards, Allocation <- InitialAllocation,
        members <- funded, purse <- available,
        escrow <- [o \in Orders |-> EscrowOf(o)]

(* Every step of the service is a step of the escrow or leaves it alone,   *)
(* replays and conflicting requests included.                              *)
EscrowSpec == E!Spec

=============================================================================
