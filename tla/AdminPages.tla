----------------------------- MODULE AdminPages -----------------------------
(***************************************************************************)
(* Pages of the admin console and the routes behind them: the dead letters *)
(* of the two services with their redrive (DeadLetters.tsx, the figures of *)
(* OperationalAlerts.tsx, dead-letters.ts), one dispute and its decision   *)
(* (errands/[orderId]/page.tsx, orders.service.ts resolve), the lists of   *)
(* errands (PagedErrands.tsx, listForAdmin) and one account with its       *)
(* actions and its role requests (users/[userId]/page.tsx,                 *)
(* AccountActions.tsx, RoleRequestList.tsx).  All load with useAdminData   *)
(* and write through ReasonDialog.  One page is open, of a bootstrap       *)
(* administrator who is not the only one; how the User Service decides is  *)
(* Administration's.                                                       *)
(***************************************************************************)
EXTENDS Quota, FiniteSets, Sequences

CONSTANTS
    Letters,        \* dead letters, numbered as they are parked
    CreditLetters,  \* those of the Credit Service; the others are the Order Service's
    LettersPage,    \* PAGE_SIZE of the dead letters
    Errands,        \* errands that may be listed, numbered as they are posted
    ErrandsPage     \* pageSize of a list of errands

ASSUME ErrandsAssumption ==
    Errands \subseteq Nat /\ IsFiniteSet(Errands) /\ ErrandsPage \in Nat \ {0}

VARIABLES
    desk,       \* the open page, its dialog and what it tells the administrator
    hooks,      \* per useAdminData: what is asked, and what settled last
    loads,      \* reads whose answer is still wanted
    acts,       \* writes under way
    parked,     \* dead_letters
    dispute,    \* the errand's row, and the dialogs whose decision it recorded
    listed,     \* the errands the list's filter matches
    subject     \* the account, its open role request and its audit records

deskVars == <<desk, hooks, loads, acts, parked, dispute, listed, subject>>

Slots == {"ACCOUNT", "LIST", "FIGURE"}
Outcomes == {"COURIER", "REQUESTER"}
ServiceOf(l) == IF l \in CreditLetters THEN "credit" ELSE "order"

FirstKey == [service |-> "order", status |-> "WAITING", page |-> 1, before |-> 0]

NewLoad(s, request) == [slot |-> s, request |-> request, phase |-> "SENT", data |-> {}]

(* The loads of a page: an account's are the account, its audit records    *)
(* and the open role requests.                                             *)
SlotsOf(page) ==
    CASE page = "CLOSED" -> {}
      [] page = "LETTERS" -> {"LIST", "FIGURE"}
      [] page = "ACCOUNT" -> Slots
      [] OTHER -> {"LIST"}

(* The newest letter is yet to be parked, the newest errand to be posted.  *)
DeskInit(page) ==
    LET first == [version |-> 0, key |-> FirstKey]
    IN  /\ desk = [page |-> page, action |-> {}, ids |-> 0, notice |-> {}, changed |-> {}, latest |-> {},
                   after |-> <<>>, seen |-> {}]
        /\ hooks = [s \in Slots |-> [request |-> first, settled |-> {}]]
        /\ loads = {NewLoad(s, first) : s \in SlotsOf(page)}
        /\ acts = {}
        /\ parked = [l \in Letters |-> IF \E m \in Letters : m > l THEN "WAITING" ELSE "ABSENT"]
        /\ dispute = [version |-> 1, status |-> "DISPUTED", mine |-> TRUE, recorded |-> {}]
        /\ listed = {e \in Errands : \E f \in Errands : f > e}
        /\ subject = [status |-> "ACTIVE", admin |-> FALSE, asked |-> 0, open |-> {}, records |-> 0]

-----------------------------------------------------------------------------
(* useAdminData.                                                           *)
DataOf(s) == UNION {answer.data : answer \in hooks[s].settled}
Loading(s) == \A answer \in hooks[s].settled : answer.request # hooks[s].request
Failing(s) == \E answer \in hooks[s].settled : answer.failed /\ ~Loading(s)

(* live: no newer request has started.                                     *)
Superseded(l, requests) == requests[l.slot] # l.request

Request(requests) ==
    /\ hooks' = [s \in Slots |-> [hooks[s] EXCEPT !.request = requests[s]]]
    /\ loads' = {l \in loads : ~Superseded(l, requests)} \cup
                {NewLoad(s, requests[s]) : s \in {t \in Slots : requests[t] # hooks[t].request}}

Keyed(key) == [t \in Slots |-> IF t = "LIST" THEN [hooks[t].request EXCEPT !.key = key] ELSE hooks[t].request]
Reloaded == [t \in Slots |-> IF t = "LIST" THEN [hooks[t].request EXCEPT !.version = @ + 1] ELSE hooks[t].request]

Refresh ==
    /\ desk.page \notin {"CLOSED", "ACCOUNT"} /\ Use("DESK_REFRESH")
    /\ Request(Reloaded)
    /\ UNCHANGED <<desk, acts, parked, dispute, listed, subject>>

(* Those of a set of numbers, newest first, after the first so many.       *)
Newest(S, skip, count) ==
    {n \in S : LET newer == Cardinality({m \in S : m > n}) IN newer >= skip /\ newer < skip + count}

Matching(key) ==
    {l \in Letters : parked[l] # "ABSENT" /\ ServiceOf(l) = key.service /\ key.status \in {"ANY", parked[l]}}

ListLetters(key) ==
    LET found == Matching(key)
    IN  [items |-> {[letter |-> l, status |-> parked[l]] : l \in Newest(found, (key.page - 1) * LettersPage, LettersPage)},
         page |-> key.page, total |-> Cardinality(found)]

Before(e, cursor) == cursor = 0 \/ e < cursor

ListErrands(cursor) ==
    LET rest == {e \in listed : Before(e, cursor)}
    IN  [items |-> Newest(rest, 0, ErrandsPage), total |-> Cardinality(rest)]

DisputeRow == [version |-> dispute.version, status |-> dispute.status]

(* What the figure of the Order Service counts.                            *)
WaitingFigure == [items |-> {[letter |-> l, status |-> "WAITING"] : l \in Matching(FirstKey)},
                  page |-> 1, total |-> Cardinality(Matching(FirstKey))]

AccountRow(row) == [status |-> row.status, admin |-> row.admin]

ReadAccount(slot) ==
    CASE slot = "ACCOUNT" -> AccountRow(subject)
      [] slot = "FIGURE" -> [open |-> subject.open]
      [] OTHER -> [records |-> subject.records]

ReadOf(l) ==
    CASE desk.page = "ACCOUNT" -> ReadAccount(l.slot)
      [] desk.page = "LETTERS" /\ l.slot = "FIGURE" -> WaitingFigure
      [] desk.page = "LETTERS" /\ l.slot # "FIGURE" -> ListLetters(l.request.key)
      [] desk.page = "ERRANDS" -> ListErrands(l.request.key.before)
      [] OTHER -> DisputeRow

(* A read is answered; a dispute's only to the administrator it is         *)
(* referred to.                                                            *)
LoadServed(l) ==
    /\ l.phase = "SENT"
    /\ loads' = (loads \ {l}) \cup
                {IF desk.page = "DISPUTE" /\ ~dispute.mine THEN [l EXCEPT !.phase = "FAILED"]
                 ELSE [l EXCEPT !.phase = "ANSWERED", !.data = {ReadOf(l)}]}
    /\ UNCHANGED <<desk, hooks, acts, parked, dispute, listed, subject, quota>>

LoadFails(l) ==
    /\ l.phase = "SENT" /\ Use("DESK_READ_FAILS")
    /\ loads' = (loads \ {l}) \cup {[l EXCEPT !.phase = "FAILED"]}
    /\ UNCHANGED <<desk, hooks, acts, parked, dispute, listed, subject>>

LastOf(after) == IF after = <<>> THEN 0 ELSE after[Len(after)]
Shorter(after) == SubSeq(after, 1, Len(after) - 1)

StepsBack(l, after) == l.phase = "ANSWERED" /\ after # <<>> /\ \E d \in l.data : d.items = {}

(* The list of role requests, and its dialog, goes with the request.       *)
DialogStays(action, l) ==
    desk.page = "ACCOUNT" /\ l.slot = "FIGURE" /\ action.on # 0 =>
        \E d \in l.data : \E r \in d.open : r.id = action.on

(* setSettled.  A list of errands that comes back empty on a later page    *)
(* turns back a page as it renders.                                        *)
Settles(l) ==
    LET answer == [request |-> l.request, data |-> l.data, failed |-> l.phase = "FAILED"]
        back == desk.page = "ERRANDS" /\ l.request = hooks[l.slot].request /\ StepsBack(l, desk.after)
        next == [hooks[l.slot].request EXCEPT !.key.before = LastOf(Shorter(desk.after))]
    IN  /\ l.phase # "SENT"
        /\ hooks' = [hooks EXCEPT ![l.slot] = [request |-> IF back THEN next ELSE @.request, settled |-> {answer}]]
        /\ loads' = (loads \ {l}) \cup IF back THEN {NewLoad(l.slot, next)} ELSE {}
        /\ desk' = [desk EXCEPT !.action = {action \in @ : DialogStays(action, l)},
                                !.after = IF back THEN Shorter(@) ELSE @,
                                !.seen = IF desk.page = "ERRANDS" THEN @ \cup UNION {d.items : d \in l.data} ELSE @]
        /\ UNCHANGED <<acts, parked, dispute, listed, subject, quota>>

-----------------------------------------------------------------------------
(* ReasonDialog.                                                           *)
OpenDialog(on, service, version) ==
    /\ desk.action = {} /\ Use("DESK_OPEN")
    /\ desk' = [desk EXCEPT !.action = {[id |-> desk.ids + 1, busy |-> FALSE, on |-> on, service |-> service,
                                         at |-> version]},
                            !.ids = @ + 1]
    /\ UNCHANGED <<hooks, loads, acts, parked, dispute, listed, subject>>

CancelDialog ==
    /\ desk.action # {} /\ Use("DESK_CANCEL")
    /\ desk' = [desk EXCEPT !.action = {}]
    /\ UNCHANGED <<hooks, loads, acts, parked, dispute, listed, subject>>

(* Mutant: every attempt has a key of its own.                             *)
MutantDecisionKey(action) == <<action.id, quota["DESK_CONFIRM"]>>

(* One key per decision.                                                   *)
DecisionKey(action) == <<action.id, 0>>

ConfirmDialog(action, reason) ==
    /\ ~action.busy /\ Use("DESK_CONFIRM")
    /\ desk' = [desk EXCEPT !.action = {[action EXCEPT !.busy = TRUE]}]
    /\ acts' = acts \cup {[action |-> action, key |-> DecisionKey(action), reason |-> reason, phase |-> "SENT",
                           row |-> {}, wanted |-> TRUE]}
    /\ UNCHANGED <<hooks, loads, parked, dispute, listed, subject>>

(* The write failed, or nothing was heard of it: shown if its dialog is    *)
(* still there.                                                            *)
Problem(act) ==
    [desk EXCEPT !.action = {IF a.id = act.action.id THEN [a EXCEPT !.busy = FALSE] ELSE a : a \in @}]

(* The page gives up on a write, which may yet arrive.                     *)
GivesUp(act) ==
    /\ act.wanted /\ Use("DESK_LOSE")
    /\ desk' = Problem(act)
    /\ \/ acts' = acts \ {act}
       \/ act.phase = "SENT" /\ acts' = (acts \ {act}) \cup {[act EXCEPT !.wanted = FALSE]}
    /\ UNCHANGED <<hooks, loads, parked, dispute, listed, subject>>

Served(act, phase, row) ==
    acts' = (acts \ {act}) \cup IF act.wanted THEN {[act EXCEPT !.phase = phase, !.row = row]} ELSE {}

Refused(act) ==
    /\ act.phase = "REFUSED"
    /\ desk' = Problem(act) /\ acts' = acts \ {act}
    /\ UNCHANGED <<hooks, loads, parked, dispute, listed, subject, quota>>

-----------------------------------------------------------------------------
(* The dead letters.                                                       *)
ShowLetters(key) ==
    /\ desk.page = "LETTERS" /\ desk.action = {} /\ Use("DESK_KEY")
    /\ Request(Keyed(key))
    /\ UNCHANGED <<acts, parked, dispute, listed, subject>>

LettersKey == hooks["LIST"].request.key

ChooseService(service) ==
    /\ ShowLetters([LettersKey EXCEPT !.service = service, !.page = 1])
    /\ desk' = [desk EXCEPT !.notice = {}]

Search(status) ==
    /\ ShowLetters([LettersKey EXCEPT !.status = status, !.page = 1])
    /\ desk' = [desk EXCEPT !.notice = {}]

TurnLetters(page) ==
    /\ desk.page = "LETTERS" /\ ~Failing("LIST")
    /\ \E d \in DataOf("LIST") :
           /\ d.items # {} /\ page \in {d.page - 1, d.page + 1}
           /\ page \in 1 .. (d.total + LettersPage - 1) \div LettersPage
    /\ ShowLetters([LettersKey EXCEPT !.page = page])
    /\ UNCHANGED desk

(* The table offers Redrive on a letter it lists as waiting.               *)
OffersRedrive(l) ==
    ~Failing("LIST") /\ \E d \in DataOf("LIST") : [letter |-> l, status |-> "WAITING"] \in d.items

(* The letter is asked for of the service chosen now.                      *)
AskRedrive(l) ==
    /\ desk.page = "LETTERS" /\ OffersRedrive(l)
    /\ OpenDialog(l, LettersKey.service, 0)

Stamped(l) == [parked EXCEPT ![l] = "REDRIVEN"]

redrive(act) ==
    LET l == act.action.on
        known == ServiceOf(l) = act.action.service
    IN  /\ desk.page = "LETTERS" /\ act.phase = "SENT"
        /\ \/ known /\ parked[l] = "WAITING" /\ parked' = Stamped(l) /\ Served(act, "OK", {}) /\ UNCHANGED quota
           \/ ~(known /\ parked[l] = "WAITING") /\ Served(act, "REFUSED", {}) /\ UNCHANGED <<parked, quota>>
           \/ Use("BROKER_DOWN") /\ Served(act, "REFUSED", {}) /\ UNCHANGED parked
        /\ UNCHANGED <<desk, hooks, loads, dispute, listed, subject>>

(* The redrive is done: whatever dialog is open closes, the list and the   *)
(* figures load again.                                                     *)
Redriven(act) ==
    /\ desk.page = "LETTERS" /\ act.phase = "OK"
    /\ desk' = [desk EXCEPT !.action = {}, !.notice = {act.action.on}]
    /\ Request([Reloaded EXCEPT !["FIGURE"].version = @ + 1])
    /\ acts' = acts \ {act}
    /\ UNCHANGED <<parked, dispute, listed, subject, quota>>

(* Another operator redrives a letter, or one is parked.                   *)
LettersChange(l) ==
    /\ desk.page = "LETTERS" /\ parked[l] # "REDRIVEN" /\ Use("DESK_OTHER")
    /\ parked' = [parked EXCEPT ![l] = IF @ = "WAITING" THEN "REDRIVEN" ELSE "WAITING"]
    /\ UNCHANGED <<desk, hooks, loads, acts, dispute, listed, subject>>

-----------------------------------------------------------------------------
(* A dispute.                                                              *)
Shown == IF desk.latest # {} THEN desk.latest ELSE DataOf("LIST")

(* The page offers a decision on what it shows.                            *)
OffersDecision(row) == ~Failing("LIST") /\ row.status = "DISPUTED"

AskDecide(outcome) ==
    /\ desk.page = "DISPUTE"
    /\ \E row \in Shown : OffersDecision(row) /\ OpenDialog(outcome, "order", row.version)

StatusAfter(outcome) == IF outcome = "COURIER" THEN "COMPLETION_PENDING_CREDIT" ELSE "RELEASE_PENDING_CREDIT"

RecordedUnder(act) == {r \in dispute.recorded : r.key = act.key}

MayDecide(act) == dispute.mine /\ dispute.status = "DISPUTED" /\ dispute.version = act.action.at

(* resolve: a decision repeated under its key is answered with the row as  *)
(* it is, with another reason it is refused.                               *)
resolve(act) ==
    /\ desk.page = "DISPUTE" /\ act.phase = "SENT"
    /\ IF RecordedUnder(act) # {}
       THEN /\ Served(act, IF \A r \in RecordedUnder(act) : r.reason = act.reason THEN "OK" ELSE "REFUSED", {DisputeRow})
            /\ UNCHANGED dispute
       ELSE IF ~MayDecide(act) THEN Served(act, "CHANGED", {}) /\ UNCHANGED dispute
       ELSE /\ dispute' = [dispute EXCEPT !.version = @ + 1, !.status = StatusAfter(act.action.on),
                                          !.recorded = @ \cup {[key |-> act.key, reason |-> act.reason]}]
            /\ Served(act, "OK", {[version |-> dispute'.version, status |-> dispute'.status]})
    /\ UNCHANGED <<desk, hooks, loads, parked, listed, subject, quota>>

Decided(act) ==
    /\ desk.page = "DISPUTE" /\ act.phase = "OK"
    /\ desk' = [desk EXCEPT !.action = {}, !.latest = act.row, !.changed = {}, !.notice = {act.action.on}]
    /\ acts' = acts \ {act}
    /\ UNCHANGED <<hooks, loads, parked, dispute, listed, subject, quota>>

(* Decided in another tab, or referred to someone else.                    *)
ChangedSince(act) ==
    /\ act.phase = "CHANGED"
    /\ desk' = [desk EXCEPT !.action = {}, !.latest = {}, !.notice = {}, !.changed = {act.action.id}]
    /\ Request(Reloaded)
    /\ acts' = acts \ {act}
    /\ UNCHANGED <<parked, dispute, listed, subject, quota>>

(* The scheduler refers the dispute to another administrator or back, or   *)
(* the administrator decides it in another tab.                            *)
DisputeChanges ==
    /\ desk.page = "DISPUTE" /\ dispute.status = "DISPUTED" /\ Use("DESK_OTHER")
    /\ \/ dispute' = [dispute EXCEPT !.version = @ + 1, !.mine = ~@]
       \/ \E outcome \in Outcomes :
              dispute.mine /\ dispute' = [dispute EXCEPT !.version = @ + 1, !.status = StatusAfter(outcome)]
    /\ UNCHANGED <<desk, hooks, loads, acts, parked, listed, subject>>

-----------------------------------------------------------------------------
(* An account.                                                             *)
AccountShown == IF desk.latest # {} THEN desk.latest ELSE DataOf("ACCOUNT")
RequestsShown == IF desk.page = "ACCOUNT" THEN UNION {d.open : d \in DataOf("FIGURE")} ELSE {}

(* The buttons follow the rules of the service.                            *)
OffersAction(row, kind) ==
    CASE kind = "SUSPEND" -> row.status = "ACTIVE"
      [] kind = "REACTIVATE" -> row.status = "SUSPENDED"
      [] OTHER -> RequestsShown = {} /\ (row.admin \/ row.status = "ACTIVE")

AskAccount(kind) ==
    /\ desk.page = "ACCOUNT" /\ ~Failing("ACCOUNT")
    /\ \E row \in AccountShown : OffersAction(row, kind) /\ OpenDialog(0, kind, ~row.admin)

(* Whoever asked may only withdraw; the bootstrap administrator is not the *)
(* one it is about.                                                        *)
OffersDecisionOn(r, kind) == kind = "REJECT" \/ r.by # "ME"

AskRequest(r, kind) ==
    /\ desk.page = "ACCOUNT" /\ ~Failing("ACCOUNT") /\ AccountShown # {}
    /\ OffersDecisionOn(r, kind) /\ OpenDialog(r.id, kind, r.want)

(* What is asked for is already so.                                        *)
NothingToDo(kind, want) ==
    CASE kind = "SUSPEND" -> subject.status = "SUSPENDED"
      [] kind = "REACTIVATE" -> subject.status = "ACTIVE"
      [] kind = "ROLE" -> subject.admin = want
      [] OTHER -> FALSE

Permitted(kind, on, want, by) ==
    CASE kind = "ROLE" -> subject.open = {} /\ (want => subject.status = "ACTIVE")
      [] kind = "APPROVE" -> /\ \E r \in subject.open : r.id = on /\ r.by # by
                             /\ subject.admin # want /\ (want => subject.status = "ACTIVE")
      [] kind = "REJECT" -> \E r \in subject.open : r.id = on
      [] OTHER -> TRUE

SubjectAfter(kind, want, by) ==
    LET row == [subject EXCEPT !.records = @ + 1]
    IN  CASE kind = "SUSPEND" -> [row EXCEPT !.status = "SUSPENDED"]
          [] kind = "REACTIVATE" -> [row EXCEPT !.status = "ACTIVE"]
          [] kind = "ROLE" -> [row EXCEPT !.asked = @ + 1,
                                          !.open = {[id |-> subject.asked + 1, by |-> by, want |-> want]}]
          [] kind = "APPROVE" -> [row EXCEPT !.admin = want, !.open = {}]
          [] OTHER -> [row EXCEPT !.open = {}]

(* What the answer holds, and what it stands for.                          *)
AccountAnswer(kind, row) ==
    [account |-> IF kind = "REJECT" \/ row.asked > subject.asked THEN {} ELSE {AccountRow(row)},
     record |-> IF row = subject THEN 0 ELSE row.records,
     closed |-> subject.open \ row.open, opened |-> row.open \ subject.open]

ActOnAccount(act) ==
    LET kind == act.action.service
        want == act.action.at
    IN  /\ desk.page = "ACCOUNT" /\ act.phase = "SENT"
        /\ subject' = IF ~NothingToDo(kind, want) /\ Permitted(kind, act.action.on, want, "ME")
                      THEN SubjectAfter(kind, want, "ME") ELSE subject
        /\ IF subject' # subject \/ NothingToDo(kind, want)
           THEN Served(act, "OK", {AccountAnswer(kind, subject')}) ELSE Served(act, "REFUSED", {})
        /\ UNCHANGED <<desk, hooks, loads, parked, dispute, listed, quota>>

ActedReloads == [Reloaded EXCEPT !["FIGURE"].version = @ + 1]

(* acted.  Only the dialog of the same list closes.                        *)
Acted(act) ==
    /\ desk.page = "ACCOUNT" /\ act.phase = "OK"
    /\ \E answer \in act.row :
          desk' = [desk EXCEPT !.action = {a \in @ : (a.on = 0) # (act.action.on = 0)},
                               !.latest = IF answer.account # {} THEN answer.account ELSE @,
                               !.notice = {answer}]
    /\ Request(ActedReloads)
    /\ acts' = acts \ {act}
    /\ UNCHANGED <<parked, dispute, listed, subject, quota>>

RetryAccount(s) ==
    /\ desk.page = "ACCOUNT" /\ s # "FIGURE" /\ Failing(s)
    /\ Request([t \in Slots |-> IF t = s THEN [hooks[t].request EXCEPT !.version = @ + 1] ELSE hooks[t].request])
    /\ UNCHANGED <<desk, acts, parked, dispute, listed, subject, quota>>

(* Another administrator acts on the account.                              *)
AccountChanges(kind) ==
    /\ desk.page = "ACCOUNT" /\ Use("DESK_OTHER")
    /\ LET want == IF kind = "APPROVE" THEN \E r \in subject.open : r.want ELSE ~subject.admin
       IN  /\ ~NothingToDo(kind, want)
           /\ \E on \in 0 .. subject.asked : Permitted(kind, on, want, "OTHER")
           /\ subject' = SubjectAfter(kind, want, "OTHER")
    /\ UNCHANGED <<desk, hooks, loads, acts, parked, dispute, listed>>

-----------------------------------------------------------------------------
(* A list of errands.                                                      *)
Turn(after) ==
    /\ Use("DESK_KEY")
    /\ desk' = [desk EXCEPT !.after = after]
    /\ Request(Keyed([hooks["LIST"].request.key EXCEPT !.before = LastOf(after)]))
    /\ UNCHANGED <<acts, parked, dispute, listed, subject>>

Oldest(items) == CHOOSE e \in items : \A f \in items : e <= f

(* Next is offered while more follow than are shown; what is shown may     *)
(* still be the page before, which is loading.                             *)
NextErrands ==
    /\ desk.page = "ERRANDS" /\ ~Failing("LIST")
    /\ \E d \in DataOf("LIST") : d.total > ErrandsPage /\ Turn(Append(desk.after, Oldest(d.items)))

PreviousErrands ==
    /\ desk.page = "ERRANDS" /\ ~Failing("LIST") /\ desk.after # <<>>
    /\ \E d \in DataOf("LIST") : d.total > 0
    /\ Turn(Shorter(desk.after))

(* An errand is posted, or leaves the filter.                              *)
ErrandsChange(e) ==
    /\ desk.page = "ERRANDS" /\ Use("DESK_OTHER")
    /\ \/ e \in listed /\ listed' = listed \ {e}
       \/ (\A f \in Errands : f <= e) /\ e \notin listed /\ listed' = listed \cup {e}
    /\ UNCHANGED <<desk, hooks, loads, acts, parked, dispute, subject>>

DeskNext ==
    \/ Refresh
    \/ \E l \in loads : LoadServed(l) \/ LoadFails(l) \/ Settles(l)
    \/ CancelDialog
    \/ \E action \in desk.action, reason \in 1 .. 2 : ConfirmDialog(action, reason)
    \/ \E act \in acts :
           GivesUp(act) \/ Refused(act) \/ redrive(act) \/ Redriven(act) \/ resolve(act) \/ Decided(act) \/ ChangedSince(act)
    \/ \E service \in {"order", "credit"} : ChooseService(service)
    \/ \E status \in {"WAITING", "REDRIVEN", "ANY"} : Search(status)
    \/ \E n \in 1 .. Cardinality(Letters) : TurnLetters(n)
    \/ \E l \in Letters : AskRedrive(l) \/ LettersChange(l)
    \/ \E outcome \in Outcomes : AskDecide(outcome)
    \/ DisputeChanges
    \/ \E act \in acts : ActOnAccount(act) \/ Acted(act)
    \/ \E kind \in {"SUSPEND", "REACTIVATE", "ROLE"} : AskAccount(kind)
    \/ \E r \in RequestsShown, kind \in {"APPROVE", "REJECT"} : AskRequest(r, kind)
    \/ \E kind \in {"SUSPEND", "REACTIVATE", "ROLE", "APPROVE", "REJECT"} : AccountChanges(kind)
    \/ \E s \in Slots : RetryAccount(s)
    \/ NextErrands \/ PreviousErrands
    \/ \E e \in Errands : ErrandsChange(e)

-----------------------------------------------------------------------------
(* Once nothing is on its way the page shows the answer to what it asks,   *)
(* never an older one, and a letter it said was redriven is redriven, and  *)
(* neither listed nor counted as waiting any more, whatever was read,      *)
(* cancelled or chosen meanwhile.                                          *)
RedrivesShown ==
    desk.page = "LETTERS" /\ loads = {} =>
        /\ \A s \in SlotsOf(desk.page) : ~Loading(s)
        /\ \A l \in desk.notice :
              /\ parked[l] = "REDRIVEN"
              /\ \A s \in Slots : \A d \in DataOf(s) : [letter |-> l, status |-> "WAITING"] \notin d.items

(* A decision the page says was made stands; one it says was not recorded, *)
(* because the dispute changed, never was, although its answer was lost    *)
(* and it was tried again.                                                 *)
DecisionsTold ==
    desk.page = "DISPUTE" =>
        /\ \A outcome \in desk.notice : dispute.status = StatusAfter(outcome)
        /\ \A id \in desk.changed : \A r \in dispute.recorded : r.key[1] # id

(* What an account's page said was done was done, and once nothing is on   *)
(* its way its audit record is on the page, no request said to be decided  *)
(* is offered for decision, and one said to be made is shown while it is   *)
(* open, whatever others do and whichever answers were late or lost.       *)
ActionsShown ==
    desk.page = "ACCOUNT" /\ loads = {} =>
        \A told \in desk.notice :
            /\ \A d \in DataOf("LIST") : told.record <= d.records
            /\ told.closed \cap RequestsShown = {}
            /\ DataOf("FIGURE") # {} => told.opened \cap subject.open \subseteq RequestsShown

(* However the pages are turned, whatever leaves meanwhile, no errand that *)
(* was there from the start and still is has been passed over: it is on a  *)
(* page that was shown, or after the page shown now, which then offers     *)
(* Next.  And no one is left on an empty page that follows others.         *)
PagesComplete ==
    desk.page = "ERRANDS" /\ loads = {} =>
        /\ \A e \in listed, d \in DataOf("LIST") :
              \/ e \in desk.seen \/ \A f \in Errands : f <= e
              \/ d.total > ErrandsPage /\ \A f \in d.items : e < f
        /\ ~Failing("LIST") => \A d \in DataOf("LIST") : d.items = {} => desk.after = <<>>
=============================================================================
