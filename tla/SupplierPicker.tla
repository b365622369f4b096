--------------------------- MODULE SupplierPicker ---------------------------
(***************************************************************************)
(* Choosing a pickup point (SupplierPicker.tsx): a search as one types,    *)
(* debounced, over pages of the active suppliers, which change meanwhile.  *)
(***************************************************************************)
EXTENDS Quota, FiniteSets

CONSTANTS
    Shops,          \* suppliers, numbered by name
    Narrowed,       \* those the narrower search finds
    NewShop,        \* the one that is added later
    ShopsPage       \* PAGE_SIZE

ASSUME PickerAssumption ==
    /\ Shops \subseteq Nat /\ IsFiniteSet(Shops) /\ Narrowed \subseteq Shops
    /\ ShopsPage \in Nat \ {0}

VARIABLES
    picker,     \* the component's state, and whether the debounce is running
    fetches,    \* reads that were not aborted
    offered,    \* the active suppliers
    dropped     \* those that were deactivated meanwhile

pickerVars == <<picker, fetches, offered, dropped>>

(* An empty search box.                                                    *)
NoSearch == ""

MatchesSearch(text) ==
    CASE text = NoSearch -> Shops
      [] text = "narrow" -> Narrowed
      [] OTHER -> {}

Wanted(p) == [search |-> p.search, page |-> p.page, revision |-> p.revision]

NewFetch(p) == [asked |-> Wanted(p), phase |-> "SENT", found |-> {}]

PickerInit ==
    /\ picker = [query |-> NoSearch, search |-> NoSearch, page |-> 1, revision |-> 0, results |-> {},
                 loading |-> TRUE, problem |-> FALSE, debounce |-> TRUE]
    /\ fetches = {NewFetch(picker)}
    /\ offered = Shops \ {NewShop} /\ dropped = {}

-----------------------------------------------------------------------------
Aborted(f, p) == f.asked # Wanted(p)

(* The state changes to p; the effect reads again if p asks something else. *)
Become(p) ==
    /\ picker' = IF Wanted(p) = Wanted(picker) THEN p ELSE [p EXCEPT !.loading = TRUE, !.problem = FALSE]
    /\ fetches' = {f \in fetches : ~Aborted(f, p)} \cup
                  IF Wanted(p) = Wanted(picker) THEN {} ELSE {NewFetch(p)}
    /\ UNCHANGED <<offered, dropped>>

(* Typing, a space that is trimmed included, starts the debounce again.    *)
Type(text) ==
    /\ Use("PICK_TYPE")
    /\ Become([picker EXCEPT !.query = text, !.debounce = TRUE])

Debounced ==
    /\ picker.debounce /\ UNCHANGED quota
    /\ Become([picker EXCEPT !.debounce = FALSE, !.page = 1, !.search = picker.query])

MoreOffered == \E d \in picker.results : d.items # {} /\ d.total > Cardinality(d.items)

MoreShops ==
    /\ ~picker.problem /\ ~picker.loading /\ MoreOffered /\ Use("PICK_MORE")
    /\ Become([picker EXCEPT !.page = @ + 1])

RetryLoad ==
    /\ picker.problem /\ UNCHANGED quota
    /\ Become([picker EXCEPT !.revision = @ + 1])

ClearSearch ==
    /\ ~picker.problem /\ {picker.query, picker.search} # {NoSearch}
    /\ \E d \in picker.results : d.items = {}
    /\ Become([picker EXCEPT !.query = NoSearch, !.search = NoSearch, !.page = 1,
                             !.debounce = @ \/ picker.query # NoSearch])
    /\ UNCHANGED quota

(* A page of the active suppliers that match, by name.                     *)
Found(asked) ==
    LET found == offered \cap MatchesSearch(asked.search)
        before(s) == Cardinality({t \in found : t < s})
    IN  [items |-> {s \in found : before(s) \div ShopsPage = asked.page - 1}, total |-> Cardinality(found)]

FetchServed(f) ==
    /\ f.phase = "SENT" /\ UNCHANGED <<picker, offered, dropped, quota>>
    /\ fetches' = (fetches \ {f}) \cup {[f EXCEPT !.phase = "ANSWERED", !.found = {Found(f.asked)}]}

FetchFails(f) ==
    /\ f.phase = "SENT" /\ Use("PICK_FAILS") /\ UNCHANGED <<picker, offered, dropped>>
    /\ fetches' = (fetches \ {f}) \cup {[f EXCEPT !.phase = "FAILED"]}

(* Adds a page to what is shown.                                           *)
Appended(shown, next) == [items |-> (UNION {d.items : d \in shown}) \cup next.items, total |-> next.total]

FetchSettles(f) ==
    /\ f.phase # "SENT"
    /\ picker' = [picker EXCEPT
                     !.loading = FALSE, !.problem = @ \/ f.phase = "FAILED",
                     !.results = IF f.phase = "FAILED" THEN @
                                 ELSE {IF f.asked.page > 1 THEN Appended(@, next) ELSE next : next \in f.found}]
    /\ fetches' = fetches \ {f}
    /\ UNCHANGED <<offered, dropped, quota>>

(* A supplier is added, or deactivated.                                    *)
OfferChanges(s) ==
    /\ Use("PICK_CHANGE") /\ UNCHANGED <<picker, fetches>>
    /\ \/ s = NewShop /\ s \notin offered /\ offered' = offered \cup {s} /\ UNCHANGED dropped
       \/ s \in offered /\ offered' = offered \ {s} /\ dropped' = dropped \cup {s}

PickerNext ==
    \/ \E text \in {NoSearch, "narrow", "nothing"} : Type(text)
    \/ Debounced \/ MoreShops \/ RetryLoad \/ ClearSearch
    \/ \E f \in fetches : FetchServed(f) \/ FetchFails(f) \/ FetchSettles(f)
    \/ \E s \in Shops : OfferChanges(s)

-----------------------------------------------------------------------------
(* Once nothing is on its way the list answers what is typed: it holds no  *)
(* supplier of an earlier search, and while suppliers are only added none  *)
(* of those there from the start is missing without a Load more, however   *)
(* typing, further pages, failures and retries interleaved.                *)
PickerAnswers ==
    fetches = {} /\ ~picker.debounce /\ ~picker.problem =>
        /\ picker.search = picker.query /\ ~picker.loading
        /\ \E d \in picker.results :
              /\ d.items \subseteq MatchesSearch(picker.query)
              /\ dropped = {} =>
                    \/ MoreOffered
                    \/ MatchesSearch(picker.query) \ {NewShop} \subseteq d.items
=============================================================================
