# Verification of the errand platform

Students post errands, other students carry them, and credits held in escrow pay for them. The
platform is five services that share nothing but messages and HTTP calls, and a web application
that talks to all of them over a network that loses answers. This directory models the parts of it
where something can go wrong that a test would hardly reach:

- the *errand* (an *order*) of the Order Service and the *credits* of the Credit Service behind it;
- the *event platform* between the services: outbox, relay, consumer, inbox, dead letters, pruning;
- *accounts, sessions and administrators* of the User Service, with the tabs of a browser;
- what students and administrators have open in a *browser*, and the services behind it: chat and
  its sockets, the supplier catalogue, drafts, an errand's page with its live updates, lists, the
  admin console.

The modules are translated from the source at this commit. TLC checks them on small instances;
TLAPS proves most of the safety properties for all instances (section 5).

## 1. The system

| Component | State it keeps | Operations | Talks to |
|---|---|---|---|
| Credit ledger (`credit-service/src/credits`) | wallets (available, reserved), `credit_operations`, transactions with two ledger entries, audit alerts | issue, reserve, transfer, release, order status | Order, by events; User, by `user.activated` |
| Order rows (`order-service/src/orders`) | one row per order with status, version, courier, deadlines, release reason, referral; history; command keys | create, accept, seven participant commands, dispute decisions | Credit, by events; User and Supplier, by HTTP |
| Lifecycle scheduler | nothing of its own | expiry, pickup timeout, auto-confirmation, referral of undelivered errands and of disputes | order rows, User |
| Result and suspension consumers of Order | nothing of their own | apply reserved, rejected, transferred, released; apply a suspension | order rows, User |
| Credit reconciler | attempts, operator alerts | find an order that waits, ask Credit, re-issue or alert | order rows, Credit by HTTP |
| Event platform (`platform/src/events`) | outbox, inbox, dead letters | relay, consume, retry, dead-letter, redrive, prune | RabbitMQ |
| Accounts and sessions (`user-service/src/users`, `auth`) | accounts, emailed links, sessions in families | register, activate, reset, sign in, refresh, change password, re-enter it, sign out | everyone, by events |
| User administration (`user-service/src/admin`) | suspensions, role requests, audit records, alerts | suspend, reactivate, request, approve and reject a role change, recorded reads | accounts, sessions |
| Sign-in limits (`rate-limiter.ts`) | windows per address and account | check, record, prune | sign-in |
| Identity cache (`auth-client`) | introspections with their age, lookups under way | introspect, invalidate | User, by HTTP and events |
| Chat and its sockets (`chat-service`) | channels, messages, read positions; sockets | send, read, list, sweep; authenticate, recheck, close | Order, User |
| Live updates (`live-hub.ts`, `live/connection.ts`) | streams, viewers | nudge, reconnect, end after a lifetime | order rows, the errand's page |
| Supplier catalogue (`supplier-service`) | suppliers with opening hours, creation keys | create, update, deactivate, list | web application, Order |
| Web application (`web-app`) | browser session; draft; errand, chat, list and console pages | what a student does | all services |

What makes it hard:

- Messages are delivered at least once, in any order, and may be lost for good when a consumer
  uses up its attempts. Every handler must be repeatable, and every reply must be one that the
  other side can still take.
- A settlement is one way: a completion and a release of the same order must never both move
  credits, and an order must never end the way Credit did not settle it.
- Several handlers read something (a user's standing, a list of administrators, the clock, an
  order's status) and act on it later. Suspensions, withdrawals, timers and role changes happen
  in between.
- Transactions run READ COMMITTED: a statement sees what was committed when it began. `reserve`
  decides in two statements; a revocation does not see a row that a concurrent refresh inserts.
- The platform's steps straddle the broker and a database: a row is published and then marked, a
  message handled and then acknowledged, a dead letter sent and then stamped. Every gap can be
  hit by a crash or a lost connection, and makes a copy; the rows that recognise copies are
  pruned in the end.
- Verifying a password takes long and happens between two reads of the account it is about.
- A browser learns of the result of what it sent late, out of order or never, tries again, and
  must neither do it twice nor show what is not so. Tabs of one browser share one cookie.

The properties that make each component correct are in section 4. `PROJECT.json` lists the
hazards with their lines and the properties that would catch each one.

## 2. The modules

| Module | What it models |
|---|---|
| `CreditMessages` | The requests and replies of `catalogue.ts` and the two channels. |
| `CreditLedger` | `credit.repository.ts`: one action per outcome of a handler. |
| `CreditService` | The Credit Service alone, against any requests; its properties; the refinement mapping. |
| `Escrow` | Abstract: every order holds one amount at most once and gives it up at most once. |
| `OrderStateMachine` | The transition table of `order-state-machine.ts` as a set of rules. |
| `OrderService` | `orders.repository.ts`, the commands, the scheduler and the three consumers. |
| `ErrandFlow` | Order and Credit composed over the channels; the properties of errands. |
| `ErrandSaga` | The same with message loss and the reconciler. |
| `OutboxRelay` | `outbox.ts`, `publisher.ts`: rows of one outbox, claimed and published by several relays. |
| `EventDelivery` | The same with one durable queue, `consumer.ts`, `inbox.ts`, `dead-letters.ts` and `retention.ts`. |
| `UserTables` | The tables of the User Service, the locks its transactions hold, and the requests under way. |
| `Accounts` | Registration, activation, reset links and seeded administrators. |
| `Sessions` | Sign-in, refresh, password change, re-entry and sign-out (`sessions.service.ts`, `sessions.repository.ts`). |
| `Administration` | Suspensions, role requests and recorded reads (`admin.service.ts`, `admin.repository.ts`). |
| `BrowserSession` | The tabs of one browser (`session.ts`, `auth.tsx`). |
| `UserService` | The four composed, with deadlocks resolved by the database; the properties. |
| `Quota` | The bound on events the outside decides on, shared by the modules below. |
| `IdentityCache` | `identity-client.ts`: lookups, ageing answers, invalidation. |
| `SocketHub` | `socket-hub.ts`, `socket-status.ts` over the identity cache. |
| `Catalogue` | `supplier-service` and the page that edits it. |
| `OpeningHours` | `validation.ts` of opening hours, and the form that marks what was refused. |
| `Composer` | A draft and `POST /orders`. |
| `ErrandPage` | An errand's page, its live stream and its commands with their keys. |
| `Chat` | The Chat Service: sends, read positions, access, retention sweep. |
| `ChatPage` | A conversation in a tab (`chat-state.ts`, `use-chat.ts`) over `Chat`. |
| `PagedLists` | Feed, history and wallet, read page by page. |
| `SupplierPicker` | The search for a pickup point. |
| `SignInLimits` | `rate-limiter.ts` and how sign-in counts. |
| `StepUpPrompt` | The shared password prompt of the console. |
| `AdminPages` | Dead letters, a dispute, paged errands and an account in the console. |
| `Clients` | One specification of all of these parts; their properties. |
| `CreditServiceProofs`, `ErrandFlowProofs`, `ErrandSagaProofs`, `EventDeliveryProofs`, `UserServiceProofs`, `ClientsProofs` | Theorems about the module each is named after, and about those it is built on. |
| `PagesProofs`, `ListsProofs` | Theorems about `Clients`: the console and the conversation; the paged lists and the picker. |
| `MC...` | Instances, scenarios and symmetry. (`referred` and `deadline_moves_back` check `ErrandFlow` itself.) |

`CreditLedger` and `OrderService` share only the channel variables `requests` and `replies`.
`ErrandFlow` interleaves them; `ErrandSaga` adds `probe` (the reconciler) and `lost`.
`EventDelivery` extends `OutboxRelay`. The errand modules do not use either: they assume the
weakest channel, which these two modules implement with something to spare. `Accounts`,
`Sessions`, `Administration` and `BrowserSession` share the tables of `UserTables`. `SocketHub`
extends `IdentityCache`, `Composer` extends `Catalogue`, `ErrandPage` uses the transition table,
and `ChatPage` extends `Chat`; the parts of `Clients` share nothing else, so a behaviour follows
one of them and the others stand still.

### How state and steps correspond to the code

*Channels.* A channel is the set of messages the broker may hand over. A handled message stays:
that is at-least-once delivery in any order, and it is stronger than the inbox, on which no
property relies. The credit consumers run their handler on every delivery anyway
(`withReplayableInbox`). A request re-issued by the reconciler has a new event id and the same
content, so it is the same element.

*Transactions.* A handler is one database transaction. It locks the row it decides on
(`SELECT ... FOR UPDATE`, or the primary key it inserts), so it is one step. Exceptions, modelled
as several steps:

- `reserve`, when the conditional debit matches no row: `ReserveMiss`, then `ReserveRefuse` or
  `ReserveAbort`. Between them the transaction holds the unique key of the order, so other
  deliveries of that order wait (`Claimable`).
- a reservation reply: `AskRequester` takes the row lock and the answer, `Reserved` applies it,
  `AbandonReply` rolls back. `Unlocked` makes everyone else wait for the lock.
- a suspension: `ReceiveSuspension` (the transaction's `now()` is fixed), `AskSuspension`,
  `ApplySuspension` (locks all errands and applies), `AbandonSuspension` (rolled back, delivered
  again).
- the scheduler's referral of undelivered errands (`CheckUndelivered`, `ReferUndelivered`), where
  nothing is locked while it asks, and of disputes (`ListAdmins`, then clearing and assigning).
- the reconciler (`PickCandidate`, `AskCredit`, `RecordReconciliation`).

*Time.* `clock` is the database clock. A sweep reads it once; `SweepLag` is how old that reading
may be when a timer acts on it. A command's `now()` is taken as the clock of its step.

*Data.* An order's items, supplier, places, correlation ids and texts are left out. A credit
transaction id is identified with its order and operation. The free-text reason an administrator
must give is enforced by request validation and left out of the guards. `couriers` and
`decidedBy` stand for the rows of `order_status_history` that `participants` and the decision
list read.

*Refused commands* change nothing and are not steps. That includes commands with a stale version,
so the version guard of the clients is not used to make anything true.

*Dead letters.* A reply that a consumer of Order cannot apply and does not recognise as a repeat
is set aside for an operator. That changes no row; it is the predicate `Unparseable`, and
`NoFalseConflict` says that it never holds of a message Credit really sends.

*Outbox and relays.* An event is its row's `seq`. `outbox` is the committed state of a row
(absent, ready, backing off, published, pruned); `claim[r]` is the open transaction of one relay,
with the rows it locked, those still to publish, those marked and those recorded as failed. A
claim takes what `CLAIM_SQL` selects (`Claimable`); rows of one aggregate commit in `seq` order
because producers lock the aggregate they change. `Publish` is a confirmation, `PublishUnroutable`
the broker handing the event back (the relay goes on), `PublishFails` everything else: the claim
halts, and the broker may or may not have taken the message. `Commit` writes marks and failures
together; `Abort` is a crash or a failed commit. Payloads were validated on insertion, so the
relay's second validation always passes.

*Queue and consumer.* `queue`, `delayed` and `dlq` count copies, by event and attempt. A worker's
`job` is the message in hand with its phase and whether its channel is open. A handler's
transaction (`processOnce`) is one step, because the key of the inbox row makes copies take
turns. When the channel closes, the broker has the message again at once, while the handler runs
on and can only commit (`ChannelCloses`, `NotSettled`). The publication to a retry or dead-letter
exchange and the acknowledgement are separate steps.

*Dead letters and pruning.* `waiting` and `redriven` count the rows of `dead_letters`; a redrive
publishes (`redrive`) and then stamps (`RedriveCommits`) or fails to (`RedriveFails`). Time is one
step, `RetentionPasses`: an inbox row grows old only when nothing of its event is on its way,
because retention is days and delivery with all retries is minutes. A dead letter may wait for
longer than that, so redriven copies meet old rows. `PruneRaces` says whether the pruner may run
between a redrive and the handling of the redriven copy. It may in the code (section 6); with
`FALSE` the model assumes it does not.

*Requests to the User Service.* `request[c]` is a client's request with everything it has read so
far; each transaction, and each slow check of a password, is a step of its own, so anything may
commit between two of them. Row locks are explicit (`RowFree`, `SessionFree`), and a cycle of waits
ends as the database ends it, by failing one request. A password is a version number, never guessed.
A revocation fixes the rows it will update when its statement begins and waits for their locks, as
an UPDATE does; rows inserted meanwhile are not among them. Every hour-long limit of the runs falls
in one hour.

*Browser.* The tabs share the cookie (`jar`), the "sign-out pending" flag, the lock around a
refresh and the channel; each keeps the token it was last given. An answer may be lost after the
service has acted (`astray` counts tokens that never arrived).

*Clients.* A case names a part, the state it starts in, and by `quota` how often each kind of
outside event may happen: an action of a person, a lost request, a lost or late answer, a step of
time, a second actor. What the program does of itself (a timer, a read, an answer that arrives) is
not bounded by it. A request is kept with what the browser sent, and served later or never,
also after the page gave up on it; an answer carries what was read when it was served. A page's
state is the hook's state: what is on screen, the request it considers current, and the
revision, key or version by which it tells a late answer from a current one. Keys are numbered;
bodies are compared by value.

*Sockets and identities.* Time is a number. A cached answer has the time it expires and its place in
the map's order, by which the oldest goes when the cache is full; a lookup is shared by those who
ask meanwhile. Signatures and expiry of a token are one outcome.

*Opening hours.* A week has two days of three minutes, and the last minute of a day stands for
23:59, which the code treats as the end of the day. Lists of up to three periods, any of them
malformed, are judged; what the parser goes on to report after a malformed entry is left open.

*Chat.* `Me` is the courier and reads in a tab; `Other` asked for the errand. A send holds the
sender's and the channel's advisory locks; the sweep remembers where it was between pages.

*External parts.* In the errand modules the User Service is its answers: `suspended`, `admins`, and
the events in `news`, of which repetitions are merged. It may change at any moment within its
bounds. In `ErrandPage` the errand moves by the transition table, by whom is left open.

## 3. Runs, bounds and fairness

| Run | Instance | Checks |
|---|---|---|
| `credit` | 3 students, 3 orders, 11 requests (7,344 states) | `TypeOK`, `RepliesTruthful`, `SettlementBacked`, `ClaimsExclusive`, `BooksBalance`, `EscrowSpec` |
| `refused_means_short` | the same | expected violation, section 6 |
| `errand` | one errand of 3 students, 2 of them administrators, with 1 role change and 1 lost message; or 2 errands of 2 students (964,638) | `TypeOK`, `MoneyFollowsErrand`, `NoFalseConflict`, `PaidForReason` |
| `referred` | 1 order, 2 students, 3 outside events (173,844) | `SuspendedHoldNothing`, `DeadlinesKept`, `SuspendedReferred` |
| `deadline_moves_back` | the same | expected violation, section 6 |
| `settles` | 1 order, 2 students, 2 lost messages (37,236) | `NothingWaits` |
| `relay` | 4 events of 2 aggregates, 2 relays, batches of 2, 3 faults (23,956) | `SentInOrder`, `NoNeedlessCopy`, `PublishedWasSent`, `BacklogDrains` |
| `delivery` | 1 event, 2 workers, 2 attempts, 2 faults, 1 redrive (161,937) | `TypeOK`, `EffectOnce`, `NothingLost`, `EventsSettle` |
| `prune_race` | 1 worker, 1 fault, `PruneRaces` | expected violation, section 6 |
| `identity` | 3 accounts, 2 clients, 2 tabs, eleven scenarios (604,724) | `AccountsTypeOK`, `OldCredentialsEnd`, `FamiliesSound`, `SuspensionsLimited`, `BrowserSound`, `TwoPersonRule` |
| `overlapping_refresh` | the same | expected violation, section 6 |
| `clients` | 34 cases over eleven parts (1,014,600) | the eleven properties of `Clients` |

Bounds, all named constants. Of the errand: `Horizon` (last moment people act), `MaxClock`,
`MaxVersion` (row version up to which commands are taken), `MaxOutside` (suspensions,
reinstatements, handler crashes), `MaxRoles`, `MaxLost`, `SweepLag`. Of delivery: `LastEvent`,
`MaxFaults` (crashes, lost confirmations, commits, channels and acknowledgements together),
`MaxRedrives`; `MaxAttempts` is the code's own limit, 2 instead of 5. Of identity: the budget of a
scenario, by kind of request. Of the clients: the quota of a case. Timers, consumers and answers
are never bounded: they run to the end, so the bounds cut inputs and not reactions.

They are large enough for the cases that matter: `credit` delivers contradictory and repeated
requests for one order, three couriers, two orders that one wallet cannot both cover and an
amount out of range. In `errand` a courier can leave and another can take over before the
deadline. `MaxVersion = 9` lets a courier who left decide a dispute if nothing forbade it.
`MaxOutside = 3` is a suspension, a reinstatement and a second suspension, or a crash in between.
Two messages lost are a request and its reply. In the errand runs one student's wallet covers one
order, so with two orders a refusal, a refund and a replay of the refusal happen. The two cases of
`errand` (`MCErrands`) share a state graph: with one errand people act over two moments and
roles change, with two they act at the last moment only, nobody is an administrator and no message
is lost.
In `relay` a batch is smaller than the backlog and each aggregate has a row behind another. In
`delivery` one fault makes a second copy, and another hits either copy at any later gap; more
faults are left to the proofs of section 5. One event is enough, because events of one queue share
no row.

In `identity` each scenario holds the two or three kinds of request that touch the same rows, with
two under way at once: two registrations and the links they send; two reset links, a password
change and a sign-in; three refreshes, a sign-out and a password change of one family; two
suspensions, also of each other; two role requests, a suspension and their decisions; an
administrator alone; two, of whom each wants the other's role; three, with requests that wait for
the third; two tabs with and without a lost answer; a tab while the password is reset
elsewhere. In `clients` a case has two to four of the events that matter to its part, such as an
edit, a lost answer and a retry, or two pages, a change between them and a reload. Limits (sockets,
messages, guesses, cache entries, page sizes) are one or two, so that each is reached and passed.

Deadlock checking is on for `credit`. It is off where the clock and the inputs are bounded, since
those instances are meant to come to rest.

Symmetry: students and orders are interchangeable in the safety runs; where administrators are
fixed only students of the same kind are exchanged. In `identity` the two clients and the two tabs
are. Liveness runs use none.

Fairness (`OrderFairness`, `CreditFairness`, `SagaFairness`, `Fairness`, `PageFairness`):

- weak, for the clock, the timers, the consumers and the relay, which run on an interval or on
  redelivery until their work is done;
- strong, for `Reserved`, `ReserveRefuse`, `AskCredit` and `PickCandidate`, each of which can be
  cut off (a failed lookup, a rolled-back transaction, another candidate) and is then tried
  again: a handler is not cut off every time it runs;
- none for students, administrators and the User Service;
- for delivery, weak: the consumer declares its queue one day, relays poll, backoffs and delays
  pass, a ready message is delivered, a handler ends one way or another (which way is open),
  dead letters are parked, an open redrive commits. Faults are finite; operators, the pruner and
  producers owe nothing;
- for the errand's page, weak: a read is served and its answer arrives or fails, the poll timer
  fires while the tab is visible, frames arrive, a stream connects, is retried and ends. Nudges
  may all be lost. No other part of `Clients`, and nothing of `identity`, needs fairness.

## 4. Properties

A property named here may be a conjunction; its parts, named in parentheses, are definitions of
their own, each with what it says.

Credit alone:

- `RepliesTruthful`: whatever Credit told Order agrees with what it recorded, for ever.
- `SettlementBacked`: a settlement has its successful reservation, and pays somebody else.
- `ClaimsExclusive`: a reservation left open by a missed debit owns its order.
- `BooksBalance`: a wallet's reserved credits are the sum of its unsettled reservations, so the
  error "not backed by reserved credit" is unreachable (`ReservedBacked`); the books agree as
  `invariants.ts` recomputes them (`WalletMatchesLedger`, `CreditsConserved`).
- `EscrowSpec`: the service implements `Escrow`.

Order and Credit together:

- `MoneyFollowsErrand`: the order's status and Credit's rows agree in every reachable state.
- `NoFalseConflict`: no reply is dead-lettered, Credit raises no audit alert, and the reconciler
  raises no conflict, because none is real, also of two errands on one wallet.
- `TypeOK` includes `RowShape`: the checks of the orders table never fail.
- `PaidForReason`: a courier is paid for a recorded delivery or by the decision of an
  administrator who never took part in the errand.
- `DeadlinesKept`: an errand's acceptance deadline is moved by nothing but the suspension that
  removes its courier, by no more than the time held, and back only by a handler that began before
  the acceptance (section 6); nothing expires before its deadline.
- `SuspendedHoldNothing`: an applied suspension leaves no open or accepted errand, and none
  appears while it lasts.
- `SuspendedReferred`: a picked-up errand whose requester is suspended is referred in the end.
- `NothingWaits`: nothing waits for ever for a message (`PendingSettles`) or a person
  (`TimersFire`).

Event delivery:

- `SentInOrder`: one aggregate's events reach the broker in the order they were written.
- `NoNeedlessCopy`: healthy relays never send a row twice; every further copy is a confirmation
  or a mark that was lost.
- `PublishedWasSent`: no row is marked that the broker does not have.
- `BacklogDrains`: every committed event is published in the end.
- `NothingLost`: a committed event is applied, found stale, parked, or still on its way in the
  hands of somebody who must act.
- `EffectOnce`: its effect commits at most once.
- `EventsSettle`: it comes to rest; nothing circulates for ever.

Accounts, sessions and administrators:

- `AccountsTypeOK`: also, an account that was ever active has a password and was announced once.
- `OldCredentialsEnd`: a password change, however made, ends what was built on the old password
  (`PasswordEndsSessions`), a suspension ends every session (`BarredHaveNoSession`), and only the
  newest link works, and only for what it was asked for (`LinksCurrent`). Excepted is the row of a
  refresh that overlaps a revocation, section 6.
- `FamiliesSound`: one usable token at a time, seven days in all (`OneCurrentToken`); a sign-out or
  a reuse ends the family (`DeadFamilies`).
- `SuspensionsLimited`: the hourly limit holds with any number of requests at once, and nobody is
  suspended by an administrator who is suspended by then.
- `TwoPersonRule`: a role changes only by the wish of an active administrator who is not the
  account's owner. A second active administrator, who is neither, approves an open request that the
  trail names and that is spent with it (`SecondWord`); or the author acts alone, if nobody but the
  owner is left of those who held the role when the request looked, and no open request is bypassed
  (`LoneWord`). Who gains the role is active, and when it is taken away, the author is a seeded
  administrator and keeps it (`RightlyHeld`).
- `BrowserSound`: tabs never present a rotated token unless an answer was lost (`NoFalseReuse`), a
  sign-out leaves no usable cookie behind (`SignOutSticks`) and a late answer signs nobody in again
  (`SignedOutStays`).

Clients and the services behind them:

- `SocketsFollowAccounts`: no cached answer predates a processed event (`InvalidationsHold`), a
  barred student's socket closes though every event is lost (`BarredSocketsClose`), and what was
  closed stays closed (`ClosedStays`).
- `LimitsHold`: of sockets, of messages in a window over all channels, of guesses at a password
  (`SocketLimits`, `RateKept`, `GuessesBounded`: twice the limit across a window's edge).
- `RetriesHarmless`: `SuppliersOnce`, `ErrandsOnce`, `PostedAsShown`, `AppliedIsDone`.
- `ChannelsSound`: messages numbered without gap and stored once (`MessagesInOrder`), and a sweep
  that leaves nothing past retention (`SweepComplete`).
- `ConversationSound`: `ReadWasShown`, `UnreadExact`, `NothingLeft` (after a refusal),
  `OutgoingOnce`.
- `ListsComplete`: `ListedOnce`, `NothingSkipped`, `PagesComplete`, `PickerAnswers`.
- `ConsoleTruthful`: `NobodyStranded`, `RedrivesShown`, `ActionsShown`, `DecisionsTold`.
- `HoursKept`: the service refuses exactly the lists that are open twice at one minute of the week
  or malformed (`HoursSound`), and the form marks the period that was refused (`RefusalsPlaced`).
- `FormsKept`: a late answer closes no form opened since.
- `ShownForward`: the errand on screen never goes back to an earlier version.
- `CatchesUp`: a visible page does not stay behind for ever without saying so.

Each property has a mutant: a small change of one definition, of the kind a real mistake in that
code would be, under which TLC finds the property violated. The mutants stand before the
definitions they change, with names that start with `Mutant`.

## 5. Proofs

TLAPS proves the results below for every value of the constants that the named assumptions allow,
and for behaviours of any length. Each rests on an inductive invariant, tried with TLC on a small
instance before it was proved.

### The Credit Service (`CreditServiceProofs`)

For any sets of students, orders and amounts, any allocation and reservation limit, and any set of
well-formed inbound requests:

- `TypeCorrect`: `Spec => []TypeOK`. Wallets are natural numbers in every state.
- `SettledTruthHolds`: `Spec => []SettledTruth`, the inductive invariant
  `TypeOK /\ SettlementBacked /\ ClaimsExclusive /\ RepliesTruthful`. None of the last three is
  inductive alone: an old reply stays true because rows are final (`RowsAreFinal`), the refusal
  of an open reservation overwrites nothing because of `ClaimsExclusive`, and a replay repeats a
  settlement that `SettlementBacked` ties to its reservation.
- `RepliesAreTruthful`, `SettlementsAreBacked`, `ClaimsAreExclusive`: its parts.
- `BooksAlwaysBalance`, from `BooksInv`. Two things are added to make the sums inductive.
  `JournalFits`: an entry is in the journal only for something recorded, so the one a handler
  writes is new and adds its amount. `UnfundedEmpty`: a wallet that does not exist holds nothing,
  so issuing the allocation overwrites nothing. That a sum over a finite set changes by exactly
  the entry that changed is proved by looking at a smallest subset for which it would not.
- `SettlementsNeverFail`: the credits a transfer or a release takes out of escrow are there, so its
  conditional debit never misses.
- `ImplementsEscrow`: `Spec => EscrowSpec`. Initial states map to initial states; a hold, a
  refusal, a transfer and a release are the escrow's steps (`HoldStep`, `RefuseStep`, `PayStep`,
  `RefundStep`), everything else is a stutter (`Stutter`).

Assumptions: `MessageAssumption` (amounts are positive, `NoUser` is no student),
`CreditAssumption` (natural limits), `InboundAssumption` (a completion and nothing else names a
courier; `FlowTyped` proves that Order sends only such requests) and, for the sums,
`TablesAssumption` (finitely many students and orders).

### Errands (`ErrandFlowProofs`, `ErrandSagaProofs`)

For any students, orders, periods, administrators and deliveries: `FlowTyped`, `FlowMoney`,
`FlowPaidForReason`, `FlowDeadlines`, `FlowSuspended`, and the action properties `FlowVersioned` and
`FlowClosedFinal`. The inductive invariant `FlowInv` says, per order, what a status implies of the
columns of its row (`RowFits`, `TimesFit`) and of Credit's rows (`LedgerFits`), and per message that
a request restates the row it was sent for and a reply what the ledger holds (`RequestFits`,
`ReplyFits`). It is needed because messages are never taken back: a request that is handled a week
later must still ask for what the row waits for or was given. Every step of the Order Service moves
a row in one of a few ways, and the parts about rows are proved once against those.
`FlowDeadlines` is an action property from the same invariant: only one of these ways moves a
deadline that is set, and the handler that takes it still has the time its transaction began at.

`ErrandSagaProofs` adds lost messages and the reconciler: `SagaTyped`, `SagaMoney`,
`SagaPaidForReason`, `SagaNoFalseConflict`. The invariant is `FlowInv` and
`ProbeFits`: the candidate the reconciler holds was true when it was read, and while its version is
the row's it still is. Hence a conflict with Credit is only seen on a candidate that has moved on,
which the version check of the alert drops.

Assumptions: those of the messages and the ledger, `PeriodAssumption` and `LossAssumption`.

### The event platform (`EventDeliveryProofs`)

Proved of the relay, for any events, aggregates, relays, batch size and number of faults, is
that the invariant `RelayInv` holds, and from it `EventsAreSentInOrder`, `RelaysSendOnce` and
`MarksAreTrue`. What makes them inductive is the claims: the rows two relays hold are disjoint and
not yet published, so the row before a claimed one was marked by somebody and stays so; a row in a
claim's `done` was sent and is not spoiled yet, so every copy is either the one that will be
marked or is already counted in `spoiled`.

Of the consumers behind it, for any number of workers, attempts, faults and redrives:

- `DeliveryTyped`: type correctness.
- `NoEventIsLost`, from `DeliveryInv`. The strengthening is `Accounted`: every event that was sent
  has an effect, or was found stale, or has a copy on a queue or in an open worker's hands before
  it is dealt with, or a dead letter that no redrive is about to stamp. It is stronger than
  `NothingLost` where that is not inductive: a worker that has already passed its message on, and
  a dead letter whose redrive is under way, do not count.
- `EffectsHappenOnce`, under the assumption `~PruneRaces`, from `Recognised`: an applied event
  still has its inbox row, or nothing of it is left anywhere and nothing can send it again.

Assumptions: `RelayAssumption` (positive bounds, an aggregate for every event) and
`DeliveryAssumption` (`NoEvent` is no event).

### The User Service (`UserServiceProofs`)

For any accounts, callers, tabs and requests under way: `AccountsTyped`, `OldCredentialsAreEnded`,
`FamiliesAreSound`, `SuspensionsAreLimited`, and `TwoPersonRuleHolds` for the role changes. The
inductive invariant `UserInv` relates the tables to the requests between two of their statements:
what a request has read and locked (`RequestsFit`, `LocksExclusive`), which sessions of a family can
still be used (`SessionsFit`), that links and role requests in hand exist (`LinksFit`, `RolesFit`),
and that the trail names every role request as it was made (`RolesFit`). A handler writes in one statement what it decided on in an earlier one; that this is
still right is what the locks in the invariant show.

`BrowserIsSound` adds the tabs. `BrowserInv` follows a token from the service to the browser: one on
its way is nobody's yet (`AnswersFresh`); while no successor has been lost the browser has, or is
about to get, the token that can be used next (`NothingAstray`); once the browser has left, nothing
under way can sign a tab in again (`LeftForGood`); and every tab that no broadcast is on its way to
has forgotten the account (`TabsHear`).

Assumptions: `UserAssumption`, `ScenarioAssumption`, `AlertAssumption` (natural limits and bounds, a
scenario's accounts exist) and `BrowserAssumption` (`NoTab` is no tab).

### The clients (`ClientsProofs`, and, for the last three, `PagesProofs` and `ListsProofs`)

For any cases and quotas:

- `ChannelsAreSound`, from `ChatInv`: a send that holds its channel's row is the only one and is
  about to write the next number, which is not there yet (`SendFits`, `OneWriter`); a channel that
  was due when a retention run began is gone, on the page at hand, or beyond its cursor
  (`SweepFits`). The page lemmas (`FirstPage`, `PageFollows`) show that a cursor of the largest id
  of a page passes over nothing.
- `RetriesAreHarmless`, from `RetryInv`. Suppliers: the keys the page has used and was not told of
  are the one it holds. Drafts: at most one post is waited for, it carries the draft's key, and
  errands are unique by key. Commands: no version ahead of the errand's, so a command found stale
  can never be applied by a later retry. `FormsAreKept` and `ShownMovesForward` are action
  properties from the same invariant.
- `SocketsFollow`, from `HubInv`. The argument is about when an answer was last true (`TrueAt`). A
  lookup's answer was true at most `LookupTimeout` before it runs out; a cached one expires at most
  `CacheTtl` later; an open socket was let in, or kept, on such an answer at most `RecheckEvery`
  before its timer, and while it waits for a lookup it cannot outstay that lookup. Added up, a
  barred student keeps a socket for at most `RecheckEvery + CacheTtl + 2 * LookupTimeout` although
  every event is lost. With the event, `InvalidationsHold`: an answer is kept only if it is not
  older than what was heard, and a caller joins only a lookup that began after it.
- `LimitsAreKept`. Sockets: part of `HubInv`. Messages, from `RateInv`: a sender's own lock is held
  by one send at a time, so the room it found in the window is still there when it writes. Guesses,
  from `GuessInv`: every account has a latest window that holds all guesses since it began, and
  the one before had ended by then; any stretch of a window's length lies in the two. While the
  window is open the limiter still has it, because pruning takes only windows that are over.
- `ConsoleIsTruthful`, from `DeskInv` and `PromptInv`. What a page holds was read for what it asks
  now, or is being read (`ReadsInv`); a dialog keeps what it was opened on through every attempt,
  answered or not (`DialogsInv`). On these rest one part per page. Dead letters: a letter said to be
  redriven is, and no list or figure read since then shows it as waiting (`LettersInv`; that the
  success asks for both again, with a newer version, is why an older read cannot bring it back).
  Accounts: requests have IDs of their own, so a closed one never opens again, and an audit record
  is never lost (`Stands`, `ShownAfter`). Disputes (`DisputeInv`): a row the page was given is older
  than the row there is, or equal to it (`RowStands`); hence a dialog opened on the row there is may
  decide, and a decision refused with a conflict was asked on a row that is past for good
  (`Passed`), so no retry of it can be recorded later.
- `ConversationIsSound`, from `TalkInv` and `GivenInv`. Everything that is under way carries the
  access revision it began at, and none is ahead of the page's (`AccessInv`); so what comes after a
  refusal is of an older revision and dropped (`NothingLeft`). A page of messages that was fetched
  is a row of consecutive numbers (`PagesAreRows`, from `ChannelsSound`): one fetched after the
  cursor begins at the next number, and the page fetched first stays on screen while the gap below
  it is filled (`PagesFit`). This is why the cursor may jump to its end, and why what lies between
  the read position and the cursor is all there (`UnreadExact`). The read position only ever
  becomes a cursor, or zero when the channel is deleted, and cursors pass only what was shown
  (`ShownInv`). Every message carries the ID its client gave it, and the page never gives one again
  (`GivenInv`), so a message that is sent again is not on screen yet, and leaves the ones going out
  when it is (`OutgoingInv`).
- `ListsAreComplete`, one invariant per list. Feed, history and wallet (`ListInv`): entries are
  given IDs in order, and what is new or touched gets a place above all there has been (`given`), so
  it can only come above a cursor, never below. A reload therefore holds everything down to its last
  entry that was there when it began (`ReloadFits`), and so does a page after a cursor (`MoreFits`),
  although the list it is appended to may have been begun anew after the page was read. An entry
  that moved between two pages is the same entry by its ID, which is why merging by ID lists it once.
  The console's errands (`PagesInv`): every errand of the start that is still listed was shown, or
  lies below the page on screen, which then has a next one (`ShownOrBeyond`); and whatever lies at
  or above a cursor that was kept to go back to was shown before (`SeenAbove`), because a cursor is
  taken only from a page on screen. The answer on its way is to the cursor now in use (`ReadsInv`),
  so when it is shown the two add up. The picker (`PickerInv`): a page on its way was counted out of
  suppliers that are still offered and include those shown (`PageOut`), unless one was deactivated;
  hence if the total says that all are shown, they are.

Assumptions: `CasesAssumption`, `QuotasAssumption` (in a conversation the events allowed are
counted), `CatalogueAssumption`, `ChatAssumption`, `CacheAssumption`, `HubAssumption`,
`LimitAssumption`, all of them natural, mostly positive, limits and periods; `ListAssumption`,
`ErrandsAssumption` and `PickerAssumption` (finitely many numbered entries, errands and suppliers,
and pages that are not empty).

### Only model-checked

Liveness is out of the prover's reach: `NothingWaits`, `BacklogDrains`, `EventsSettle`,
`SuspendedReferred` and `CatchesUp`. Not proved: `HoursKept`, the one safety property left. It compares
a filter that runs through a list of periods with a count of the minutes they cover, and both of its
parts rest on a set of periods being put in order (`SetToSortSeq`): induction over data, which these
provers cannot do for an operator.

## 6. Findings

`refused_means_short`: `reserve` explains a debit that matched no row by reading the wallet again
(`credit-service/src/credits/credit.repository.ts`, the SELECT after the conditional UPDATE). Both
statements run in one transaction, but under READ COMMITTED each sees what was committed when it
started. A wallet that `user.activated` creates between them, or that a release refills, is then
reported as insufficient: the reservation is refused for good with a balance that covers it.
ADR 0007 says the two cases are "distinguished inside the same transaction" and that a missing
wallet is retried. No credit is lost; an errand is rejected that should have opened.

`deadline_moves_back`: when a suspended courier is removed, the requester gets back the time the
courier held the errand: `timestampPatch` (`order-service/src/orders/orders.repository.ts`) adds
`at - accepted_at` to the acceptance deadline. Its comment says so, the README of the service says
that the deadline "moves later", and OS-FR8.1.1 of `docs/traceability.md` that it is "extended".
But `at` is the `now()` of the handler's transaction, the time of its BEGIN, and the handler asks
the User Service and waits at its locks before it looks at the errand. A student may have accepted
in between; the difference is then negative and the deadline moves back by as long as the handler
had waited. In the run a handler that began at 0 reopens an errand accepted at 1 and due at 2 as
due at 1, so that it expires at once. Credits are not affected; the errand is cut short by at most
the time a handler takes.

`prune_race`: the pruner keeps an inbox row past its retention while a dead letter of its event
waits (`platform/src/events/retention.ts`, the `redriven_at IS NULL` clause). A redrive stamps the
dead letter when the broker has the message, not when a consumer has handled it. A prune between
the two deletes the row that would have recognised the copy, and the effect commits again. The
window is as long as the copy stays on the queue, retries included. It needs an event that was
applied although a second copy of it was parked, and a redrive after `inboxDays`. Handlers with a
business key of their own (the credit operations, the status guard of orders) refuse the repeat
all the same, so the inbox is not the only defence where money moves. `retention.test.ts` states
the intent: "A redrive of the waiting copy must still find that the event was applied."

`overlapping_refresh`: a revocation is one UPDATE over the sessions of the account or the family
(`user-service/src/auth/sessions.repository.ts`). If a refresh has locked its row by then, the
UPDATE waits, and looks at that row again when the refresh has committed, but the row the refresh
inserted was not there when the statement began and is not revoked. `changePassword`, `logout` and
the handling of a reused token are exposed; a suspension is not, because it locks the account FOR
UPDATE, which the insert's foreign key waits for. The comment in `sessions.service.ts` says "Every
session of the account is revoked". The properties of `identity` except that one row.

Smaller observations, met while modelling. Properties above say where they make an exception.

- User Service: `lockAdminIds` and `lockUsers` read roles in the snapshot their locking statement
  began with, so two role changes that overlap can each count the other's administrator.
- A refresh whose answer is lost is followed by a reuse, which signs the browser out, although
  `session.ts` says that "a network blip must not sign anyone out".
- An identity is stale for as long as the cache's lifetime plus the timeout of a lookup.
- Suppliers page: a late answer to an older key drops the newer one, so a retry can create a second
  supplier; "This supplier was deleted." is never shown, because a save overwrites an inactive row.
- Supplier form: removing a period while a save is under way marks the refusal at another period.
  A half-typed period is read as midnight, so a later one may be reported as overlapping too.
- Composer: what `composer.ts` says of `sentBody` is not so when the first send never arrived and a
  later, edited one was stored.
- Feed and history: a reload of several pages keeps errands that left and can leave a gap.
- Picker: a supplier deactivated between two pages makes the next page skip one.
- Console: a second press of Next while loading keeps the same cursor twice; redriving the only
  letter of a later page shows an empty list without a pager; a late success closes whichever
  dialog is open; a late answer to a suspension can cover a newer one to a reactivation; a decision
  whose answer was lost, repeated with another reason, is refused although it stands.
- Account page of a student: after a lost answer to a password change, the retry says that the
  current password is wrong; an answer to a profile change can put an older mode back.
- Ledger audit: the snapshot of a run is taken by the statement that takes its lock, so a second
  replica that waits for the lock ends in a serialization error and records a failed run.

## 7. What is not modelled, and the plan

Left out for good: layout, navigation, formatting and generated clients of the web application, the
edge, observability, receipts and the wording of mails. Left out of the present modules: the wait
alerts of the scheduler, how long an order must wait before the reconciler takes it, the ledger
audit job, text and retention of audit records, the bookkeeping of live streams (heartbeats, viewer
limits), console pages that only show a list they read once; of event delivery, the transient queues
(a failed message is dropped there by design), `withReplayableInbox`, the check of the sender,
several queues bound to one event (they share no state), and a publication the broker refuses while
the channel stays open, after which a message stays unsettled until the channel closes. The User
Service of the errand modules is still its answers; the modules of section 2 that model it are not
composed with them.

Next, in this order:

1. An abstract channel (at least once, applied once) that `EventDelivery` implements.
2. Statement-level wallet locks of transfer and release, for deadlock.
3. The scheduler's wait alerts and the ledger audit job.
