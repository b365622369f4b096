----------------------------- MODULE Catalogue ------------------------------
(***************************************************************************)
(* The supplier catalogue (supplier-service) and the administrator's page  *)
(* that edits it (web-app suppliers/page.tsx).  A request the page has     *)
(* given up on may still reach the service.                                *)
(***************************************************************************)
EXTENDS Quota, Integers, Sequences, FiniteSets

CONSTANTS
    MaxSuppliers,   \* bound: rows of the table
    Values,         \* what a form can hold; the name and building among it
    Blank

ASSUME CatalogueAssumption == MaxSuppliers \in Nat \ {0} /\ Blank \notin Values

VARIABLES
    shop,       \* suppliers, by number: version 0 is no row
    shopKeys,   \* supplier_idempotency_keys
    listing,    \* the versions the page lists, 0 for a supplier it does not
    form,       \* the page's open form and its createKey
    saves,      \* requests not yet dealt with
    told        \* keys of creates the page knows of

catalogueVars == <<shop, shopKeys, listing, form, saves, told>>

Ids == 1 .. MaxSuppliers
NewSupplier == 0
NoForm == -1
AnyValue == CHOOSE v \in Values : TRUE
NoRow == [version |-> 0, active |-> FALSE, value |-> Blank]

Rows == {id \in Ids : shop[id].version > 0}

CatalogueInit ==
    /\ shop = [id \in Ids |-> IF id = 1 THEN [version |-> 1, active |-> TRUE, value |-> AnyValue]
                                          ELSE NoRow]
    /\ shopKeys = {} /\ saves = {} /\ told = {}
    /\ listing = [id \in Ids |-> shop[id].version]
    /\ form = [target |-> NoForm, version |-> 0, run |-> 0, key |-> 0, made |-> 0, crossed |-> FALSE]

(* The partial unique index on active suppliers.                           *)
Clashes(id, v) == \E j \in Rows \ {id} : shop[j].active /\ shop[j].value = v

(* A request that was served: one that nobody awaits any more is done with. *)
Answered(s, answer, version) ==
    saves' = (saves \ {s}) \cup
             (IF s.page = "WAITING" THEN {[s EXCEPT !.answer = answer, !.version = version]} ELSE {})

SameRequest(k, v) == k.value = v

Create(s) ==
    LET id   == Cardinality(Rows) + 1
        used == {k \in shopKeys : k.key = s.key}
    IN  CASE used # {} ->
               /\ Answered(s, IF \E k \in used : SameRequest(k, s.value) THEN "SAVED" ELSE "REUSED", 0)
               /\ UNCHANGED <<shop, shopKeys>>
          [] used = {} /\ Clashes(id, s.value) -> Answered(s, "DUPLICATE", 0) /\ UNCHANGED <<shop, shopKeys>>
          [] OTHER ->
               /\ id \in Ids
               /\ shop' = [shop EXCEPT ![id] = [version |-> 1, active |-> TRUE, value |-> s.value]]
               /\ shopKeys' = shopKeys \cup {[key |-> s.key, id |-> id, value |-> s.value]}
               /\ Answered(s, "SAVED", 1)

(* update and deactivate: only at the version the caller holds; a stale    *)
(* version and a row already inactive are told apart afterwards.           *)
Update(s) ==
    LET row == shop[s.target]
        put == [row EXCEPT !.version = @ + 1, !.value = s.value]
    IN  /\ UNCHANGED shopKeys
        /\ CASE row.version # s.version -> Answered(s, "STALE", s.version) /\ UNCHANGED shop
             [] row.version = s.version /\ row.active /\ Clashes(s.target, s.value) ->
                  Answered(s, "DUPLICATE", s.version) /\ UNCHANGED shop
             [] OTHER -> shop' = [shop EXCEPT ![s.target] = put] /\ Answered(s, "SAVED", put.version)

Deactivate(s) ==
    LET row == shop[s.target]
    IN  /\ UNCHANGED shopKeys
        /\ CASE row.version # s.version -> Answered(s, "STALE", s.version) /\ UNCHANGED shop
             [] row.version = s.version /\ row.active ->
                  /\ shop' = [shop EXCEPT ![s.target] = [row EXCEPT !.version = @ + 1, !.active = FALSE]]
                  /\ Answered(s, "SAVED", row.version + 1)
             [] OTHER -> Answered(s, "SAVED", s.version) /\ UNCHANGED shop

(* The service handles a request, awaited or not.                          *)
Serve(s) ==
    /\ s.answer = "NONE"
    /\ CASE s.kind = "SAVE" /\ s.target = NewSupplier -> Create(s)
         [] s.kind = "SAVE" /\ s.target # NewSupplier -> Update(s)
         [] s.kind = "DELETE" -> Deactivate(s)
         [] s.kind = "READ" ->
              Answered(s, "SAVED", shop[s.target].version) /\ UNCHANGED <<shop, shopKeys>>
    /\ UNCHANGED <<listing, form, told, quota>>

(* Another administrator changes or deactivates a supplier.                *)
ElsewhereChanged(id) ==
    /\ shop[id].active /\ Use("ELSEWHERE")
    /\ \/ \E v \in Values : /\ ~Clashes(id, v)
                            /\ shop' = [shop EXCEPT ![id].version = @ + 1, ![id].value = v]
       \/ shop' = [shop EXCEPT ![id].version = @ + 1, ![id].active = FALSE]
    /\ UNCHANGED <<shopKeys, listing, form, saves, told>>

-----------------------------------------------------------------------------
(* The page.                                                               *)
Listed == [id \in Ids |-> IF shop[id].active THEN shop[id].version ELSE 0]

LoadList ==
    /\ Use("LOAD")
    /\ listing' = Listed
    /\ UNCHANGED <<shop, shopKeys, form, saves, told>>

Closed(f) == [f EXCEPT !.target = NoForm, !.version = 0, !.run = @ + 1]

(* Opening another form discards what the first one held, once confirmed.  *)
OpenForm(target) ==
    /\ target # form.target /\ Use("OPEN")
    /\ target # NewSupplier => listing[target] > 0
    /\ form' = [form EXCEPT !.target = target, !.run = @ + 1,
                            !.version = IF target = NewSupplier THEN 0 ELSE listing[target]]
    /\ UNCHANGED <<shop, shopKeys, listing, saves, told>>

Cancelled(f) == Closed(f)

CancelForm ==
    /\ form.target # NoForm /\ Use("CANCEL")
    /\ form' = Cancelled(form)
    /\ UNCHANGED <<shop, shopKeys, listing, saves, told>>

Sent(kind, target, version, value, key) ==
    saves \cup {[kind |-> kind, target |-> target, version |-> version, value |-> value,
                   key |-> key, run |-> form.run, page |-> "WAITING", answer |-> "NONE"]}

(* The form is busy while a save from it is on its way.                    *)
Saving == \E s \in saves : s.page = "WAITING" /\ s.run = form.run /\ s.kind # "DELETE"

Save(v) ==
    LET adding == form.target = NewSupplier
        key    == CASE ~adding -> 0 [] adding /\ form.key # 0 -> form.key [] OTHER -> form.made + 1
    IN  /\ form.target # NoForm /\ ~Saving /\ Use("SAVE")
        /\ form' = IF adding /\ form.key = 0 THEN [form EXCEPT !.key = key, !.made = key] ELSE form
        /\ saves' = Sent("SAVE", form.target, form.version, v, key)
        /\ UNCHANGED <<shop, shopKeys, listing, told>>

RemoveSupplier(id) ==
    /\ listing[id] > 0 /\ Use("DELETE")
    /\ saves' = Sent("DELETE", id, listing[id], Blank, 0)
    /\ UNCHANGED <<shop, shopKeys, listing, form, told>>

(* Mutant: any answer closes the form that is open.                        *)
MutantOwnForm(s) == TRUE

OwnForm(s) == s.run = form.run

(* The key in use is dropped, even if the answer is to an earlier one;     *)
(* that case is noted in crossed.                                          *)
Unkeyed(f, s) == [f EXCEPT !.key = 0, !.crossed = @ \/ f.key \notin {0, s.key}]

(* What an answer to request i makes of the form.                          *)
AfterAnswer(s) ==
    LET adding == s.kind = "SAVE" /\ s.target = NewSupplier
        kept   == IF adding /\ s.answer \in {"SAVED", "REUSED"} THEN Unkeyed(form, s) ELSE form
    IN  CASE s.kind = "SAVE" /\ s.answer = "SAVED" /\ OwnForm(s) -> Closed(kept)
          [] s.kind = "READ" /\ form.target = s.target -> [form EXCEPT !.version = s.version]
          [] OTHER -> kept

(* An answer arrives.  After a stale save the supplier is read again, for  *)
(* the form that is still open; any outcome reloads the list.              *)
Receive(s) ==
    /\ s.page = "WAITING" /\ s.answer # "NONE"
    /\ form' = AfterAnswer(s)
    /\ saves' = (saves \ {s}) \cup
                (IF s.kind = "SAVE" /\ s.answer = "STALE"
                 THEN {[s EXCEPT !.kind = "READ", !.answer = "NONE"]} ELSE {})
    /\ told' = IF s.answer \in {"SAVED", "REUSED"} THEN told \cup {s.key} ELSE told
    /\ listing' = IF s.kind # "READ" /\ s.answer # "DUPLICATE" THEN Listed ELSE listing
    /\ UNCHANGED <<shop, shopKeys, quota>>

(* The request, or its answer, is lost: the page stops waiting.            *)
Lose(s) ==
    /\ s.page = "WAITING" /\ Use("LOSE_SAVE")
    /\ saves' = (saves \ {s}) \cup (IF s.answer = "NONE" THEN {[s EXCEPT !.page = "LOST"]} ELSE {})
    /\ UNCHANGED <<shop, shopKeys, listing, form, told>>

CatalogueNext ==
    \/ LoadList \/ CancelForm
    \/ \E id \in Ids : ElsewhereChanged(id) \/ RemoveSupplier(id) \/ OpenForm(id)
    \/ OpenForm(NewSupplier)
    \/ \E v \in Values : Save(v)
    \/ \E s \in saves : Serve(s) \/ Receive(s) \/ Lose(s)

-----------------------------------------------------------------------------
(* Retrying a create whose answer was lost, after edits or with the form   *)
(* closed and opened again, makes no second supplier: at most one supplier *)
(* was created that the page has not been told of (createKey in            *)
(* suppliers/page.tsx).  An answer to an older key that makes the page     *)
(* drop the newer one is left out.                                         *)
SuppliersOnce == ~form.crossed => Cardinality({k \in shopKeys : k.key \notin told}) <= 1

(* A late answer to a save never closes a form opened since (formRun).     *)
FormsKept ==
    [][\A s \in saves \ saves' :
         s.page = "WAITING" /\ s.answer # "NONE" /\ form.target # NoForm /\ form'.target = NoForm
         => s.run = form.run]_catalogueVars
=============================================================================
