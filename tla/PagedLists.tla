----------------------------- MODULE PagedLists -----------------------------
(***************************************************************************)
(* The lists a student pages through while they change: the feed of open   *)
(* errands, the order history and the wallet's ledger (feed/page.tsx,      *)
(* order-history/page.tsx, wallet/page.tsx, paged-orders.ts), over the     *)
(* keyset queries that serve them.  A list is read again from the top on a *)
(* timer or a nudge, and "load more" runs beside those reads.              *)
(***************************************************************************)
EXTENDS Quota, Integers, FiniteSets, FiniteSetsExt

CONSTANTS
    ListPage,   \* entries a page holds
    Entries     \* entries in the list when it is opened

ASSUME ListAssumption == ListPage \in Nat \ {0} /\ Entries \in Nat

VARIABLES
    kind,       \* FEED, HISTORY or LEDGER
    shelf,      \* what the service lists: IDs with their place, lowest first
    given,      \* the last ID given, and the lowest place
    filter,     \* the feed's filters, or the history's mode
    list,       \* the page's PagedOrders or Ledger, and what it was read for
    reload,     \* the read from the top that was not aborted
    mores,      \* loads of a further page
    target,     \* the ledger entry the student came for, 0 if none
    walked      \* the page has walked to it

listVars == <<kind, shelf, given, filter, list, reload, mores, target, walked>>

(* A place past every entry's: no further page.                            *)
EndOfList == Entries + 2

Filters == {"ALL", "SOME"}
NoList == [filter |-> "NONE", items |-> {}, next |-> EndOfList, pages |-> 0, since |-> {}]
NoReload == [phase |-> "NONE", filter |-> "NONE", items |-> {}, next |-> EndOfList, walk |-> FALSE,
             from |-> {}]

ListInit(what, goal) ==
    /\ kind = what /\ filter = "ALL" /\ list = NoList /\ mores = {}
    /\ shelf = {[id |-> n, place |-> n] : n \in 1 .. Entries} /\ given = [id |-> Entries, place |-> 1]
    /\ target = goal /\ walked = FALSE
    /\ reload = [NoReload EXCEPT !.phase = "ASKED", !.filter = "ALL"]

-----------------------------------------------------------------------------
(* The services: listOpen, listMine and listLedger.                        *)
Matches(e, f) == f = "ALL" \/ e.id % 2 = 0

Page(f, after) ==
    LET all  == {e \in shelf : Matches(e, f) /\ e.place > after}
        page == {e \in all : Cardinality({d \in all : d.place < e.place}) < ListPage}
    IN  [items |-> page, next |-> IF page = all THEN EndOfList ELSE Max({e.place : e \in page})]

Places == {e.place : e \in shelf}

(* Above every entry there has been: lists go by time, but for the feed.   *)
Top == given.place - 1

ListKept == UNCHANGED <<kind, filter, list, reload, mores, target, walked>>

(* A ledger entry, or an errand that is new to this list: at the top, but  *)
(* anywhere on the feed, which goes by deadline.                           *)
EntryAdded(place) ==
    /\ place \notin Places /\ (kind # "FEED" => place = Top) /\ Use("LIST_NEW")
    /\ shelf' = shelf \cup {[id |-> given.id + 1, place |-> place]}
    /\ given' = [id |-> given.id + 1, place |-> IF place = Top THEN Top ELSE given.place]
    /\ ListKept

(* An errand leaves the list; in the history a change moves it to the top. *)
EntryGone(e) ==
    /\ kind # "LEDGER" /\ Use("LIST_GONE")
    /\ shelf' = shelf \ {e} /\ UNCHANGED given
    /\ ListKept

EntryTouched(e) ==
    /\ kind = "HISTORY" /\ Use("LIST_TOUCH")
    /\ shelf' = (shelf \ {e}) \cup {[e EXCEPT !.place = Top]} /\ given' = [given EXCEPT !.place = Top]
    /\ ListKept

-----------------------------------------------------------------------------
IdsOf(items) == {e.id : e \in items}

MergeOrders(first, later) == first \cup {e \in later : e.id \notin IdsOf(first)}

(* refreshPage.                                                            *)
RefreshPage(l, first) ==
    IF l.pages <= 1 THEN [l EXCEPT !.items = first.items, !.next = first.next, !.pages = 1]
    ELSE [l EXCEPT !.items = MergeOrders(first.items, @)]

(* merge of the wallet: a page of newer entries only replaces the list.    *)
MergeLedger(l, fresh) ==
    IF l.pages = 0 \/ IdsOf(fresh.items) \cap IdsOf(l.items) = {}
    THEN [l EXCEPT !.items = fresh.items, !.next = fresh.next, !.pages = 1]
    ELSE [l EXCEPT !.items = MergeOrders(@, fresh.items)]

(* The list this read is for; another filter's is dropped.                 *)
ListFor(f) == IF list.filter = f THEN list ELSE [NoList EXCEPT !.filter = f]

ReloadServed ==
    LET p == Page(reload.filter, IF reload.phase = "ASKED" THEN Top ELSE reload.next)
    IN  /\ reload.phase \in {"ASKED", "WALKING"}
        /\ reload' = [reload EXCEPT !.phase = "SERVED", !.items = @ \cup p.items, !.next = p.next,
                                    !.from = IF reload.phase = "ASKED" THEN shelf ELSE @]
        /\ UNCHANGED <<kind, shelf, given, filter, list, mores, target, walked, quota>>

(* read: the ledger walks on until the entry the student came for is here. *)
Walks ==
    \/ reload.walk
    \/ /\ kind = "LEDGER" /\ target # 0
       /\ target \notin IdsOf(MergeLedger(ListFor("ALL"), reload).items)
       /\ ~walked \/ target \in IdsOf(list.items)

ReloadArrives ==
    /\ reload.phase = "SERVED"
    /\ IF Walks /\ reload.next # EndOfList /\ target \notin IdsOf(reload.items)
       THEN /\ reload' = [reload EXCEPT !.phase = "WALKING", !.walk = TRUE]
            /\ UNCHANGED <<list, walked>>
       ELSE LET old   == ListFor(reload.filter)
                since == IF old.pages = 0 THEN reload.from ELSE old.since
                whole == [old EXCEPT !.items = reload.items, !.next = reload.next, !.pages = 1]
            IN  /\ list' = [(CASE Walks -> whole
                               [] ~Walks /\ kind = "LEDGER" -> MergeLedger(old, reload)
                               [] OTHER -> RefreshPage(old, reload)) EXCEPT !.since = since]
                /\ walked' = (walked \/ Walks)
                /\ reload' = NoReload
    /\ UNCHANGED <<kind, shelf, given, filter, mores, target, quota>>

ReloadFails ==
    /\ reload.phase # "NONE" /\ Use("LIST_FAILS")
    /\ reload' = NoReload
    /\ UNCHANGED <<kind, shelf, given, filter, list, mores, target, walked>>

(* The timer, a nudge or a stale accept: the read under way is aborted.    *)
ReadAgain ==
    /\ Use("LIST_READ")
    /\ reload' = [NoReload EXCEPT !.phase = "ASKED", !.filter = filter]
    /\ UNCHANGED <<kind, shelf, given, filter, list, mores, target, walked>>

(* The feed also cancels a page still loading; the history does not.       *)
FilterChanges(f) ==
    /\ kind # "LEDGER" /\ f # filter /\ Use("LIST_FILTER")
    /\ filter' = f
    /\ reload' = [NoReload EXCEPT !.phase = "ASKED", !.filter = f]
    /\ mores' = IF kind = "FEED" THEN {} ELSE mores
    /\ UNCHANGED <<kind, shelf, given, list, target, walked>>

(* remove: an accept of this errand was refused as stale.                  *)
Removed(e) ==
    /\ kind = "FEED" /\ list.filter = filter /\ e \notin shelf
    /\ list' = [list EXCEPT !.items = @ \ {e}]
    /\ UNCHANGED <<kind, shelf, given, filter, reload, mores, target, walked, quota>>

-----------------------------------------------------------------------------
LoadMore ==
    /\ list.filter = filter /\ list.next # EndOfList
    /\ \A m \in mores : m.filter # filter /\ kind # "LEDGER"
    /\ Use("LIST_MORE")
    /\ mores' = mores \cup {[filter |-> filter, cursor |-> list.next, served |-> FALSE, items |-> {},
                             next |-> EndOfList]}
    /\ UNCHANGED <<kind, shelf, given, filter, list, reload, target, walked>>

MoreServed(m) ==
    LET p == Page(m.filter, m.cursor)
    IN  /\ ~m.served
        /\ mores' = (mores \ {m}) \cup {[m EXCEPT !.served = TRUE, !.items = p.items, !.next = p.next]}
        /\ UNCHANGED <<kind, shelf, given, filter, list, reload, target, walked, quota>>

(* Mutant: the page is added whatever the list has become.                 *)
MutantStillFollows(l, m) == l.filter = m.filter

StillFollows(l, m) == l.filter = m.filter /\ l.next = m.cursor

(* appendPage, and the ledger's own, which need not look for repeats.      *)
MoreArrives(m) ==
    /\ m.served
    /\ mores' = mores \ {m}
    /\ list' = IF ~StillFollows(list, m) THEN list
               ELSE [list EXCEPT !.items = IF kind = "LEDGER" THEN @ \cup m.items ELSE MergeOrders(@, m.items),
                                 !.next = m.next, !.pages = @ + 1]
    /\ UNCHANGED <<kind, shelf, given, filter, reload, target, walked, quota>>

MoreFails(m) ==
    /\ Use("LIST_FAILS")
    /\ mores' = mores \ {m}
    /\ UNCHANGED <<kind, shelf, given, filter, list, reload, target, walked>>

ListsNext ==
    \/ \E place \in Top .. Entries + 1 : EntryAdded(place)
    \/ \E e \in shelf : EntryGone(e) \/ EntryTouched(e)
    \/ ReloadServed \/ ReloadArrives \/ ReloadFails \/ ReadAgain \/ LoadMore
    \/ \E f \in Filters : FilterChanges(f)
    \/ \E e \in list.items : Removed(e)
    \/ \E m \in mores : MoreServed(m) \/ MoreArrives(m) \/ MoreFails(m)

-----------------------------------------------------------------------------
(* No entry is on the page twice, though it moved between the pages read.  *)
ListedOnce == Cardinality(IdsOf(list.items)) = Cardinality(list.items)

Reached(e) == Matches(e, list.filter) /\ e.place <= list.next

(* Down to where the list ends, no entry is skipped that was there when    *)
(* the list was begun and has not changed; the wallet skips none at all    *)
(* below its newest, however many entries came between two reads.          *)
NothingSkipped ==
    /\ list.pages > 0 => \A e \in list.since \cap shelf : Reached(e) => e \in list.items
    /\ kind = "LEDGER" =>
          \A e \in shelf, top \in list.items : e.place >= top.place /\ Reached(e) => e \in list.items
=============================================================================
