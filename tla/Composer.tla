------------------------------ MODULE Composer ------------------------------
(***************************************************************************)
(* Posting an errand: the draft a student composes (web-app composer.ts,   *)
(* the review page) and POST /orders (orders.service.ts create,            *)
(* orders.repository.ts createPending).  Every request names the supplier  *)
(* numbered 1 in the catalogue.                                            *)
(***************************************************************************)
EXTENDS Catalogue

VARIABLES
    draft,      \* the draft in session storage and the stage the page is at
    posts,      \* POST /orders requests not yet dealt with
    errands,    \* orders created, with the key each was created under
    posted      \* keys of errands the student has been told of

composerVars == <<draft, posts, errands, posted>>

ComposerInit ==
    /\ draft = [value |-> AnyValue, key |-> 1, sent |-> Blank, base |-> Blank, stage |-> "EDITING",
                last |-> 0]
    /\ posts = {} /\ errands = {} /\ posted = {}

-----------------------------------------------------------------------------
(* The service.                                                            *)
Replied(p, answer) ==
    posts' = (posts \ {p}) \cup (IF p.awaited THEN {[p EXCEPT !.answer = answer]} ELSE {})

Progressed(p, step) == posts' = (posts \ {p}) \cup {[p EXCEPT !.step = step]}

SameBody(e, p) == e.value = p.value

Recorded(p) == {e \in errands : e.key = p.key}

Replay(p) == Replied(p, IF \E e \in Recorded(p) : SameBody(e, p) THEN "CREATED" ELSE "REUSED")

(* findIdempotent: a replay does not ask about the supplier again.         *)
FindIdempotent(p) ==
    /\ p.step = "SENT" /\ p.answer = "NONE"
    /\ IF Recorded(p) # {} THEN Replay(p) ELSE Progressed(p, "ASKING")
    /\ UNCHANGED <<draft, errands, posted, quota>>

GetActive(p) ==
    /\ p.step = "ASKING" /\ p.answer = "NONE"
    /\ IF shop[1].active THEN Progressed(p, "CLEARED") ELSE Replied(p, "INVALID_SUPPLIER")
    /\ UNCHANGED <<draft, errands, posted, quota>>

SupplierUnavailable(p) ==
    /\ p.step = "ASKING" /\ p.answer = "NONE" /\ Use("SUPPLIER_DOWN")
    /\ Replied(p, "UNAVAILABLE")
    /\ UNCHANGED <<draft, errands, posted>>

(* createPending, under the key's advisory lock.                           *)
CreatePending(p) ==
    /\ p.step = "CLEARED" /\ p.answer = "NONE"
    /\ IF Recorded(p) # {} THEN Replay(p) /\ UNCHANGED errands
       ELSE /\ errands' = errands \cup {[key |-> p.key, value |-> p.value]}
            /\ Replied(p, "CREATED")
    /\ UNCHANGED <<draft, posted, quota>>

-----------------------------------------------------------------------------
(* The page.                                                               *)
Edit(v) ==
    /\ draft.stage \in {"EDITING", "REUSED"} /\ v # draft.value /\ Use("EDIT")
    /\ draft' = [draft EXCEPT !.value = v, !.stage = "EDITING"]
    /\ UNCHANGED <<posts, errands, posted>>

Post(value) ==
    posts' = posts \cup {[key |-> draft.key, value |-> value, step |-> "SENT", awaited |-> TRUE,
                          answer |-> "NONE"]}

(* submit: the first body sent under the key is kept before it is sent.    *)
Submit ==
    /\ draft.stage = "EDITING" /\ Use("SUBMIT")
    /\ Post(draft.value)
    /\ draft' = [draft EXCEPT !.stage = "POSTING", !.base = draft.sent,
                              !.sent = IF @ = Blank THEN draft.value ELSE @]
    /\ UNCHANGED <<errands, posted>>

RestartDraft(d) == [d EXCEPT !.key = @ + 1, !.sent = Blank, !.base = Blank, !.last = d.key]

(* Mutant: a send that may have been stored is forgotten.                  *)
MutantFailed(d, kind) == [d EXCEPT !.stage = "EDITING", !.sent = d.base, !.key = @ + 1]

(* After a refusal the body just sent was not stored; after a failure that *)
(* may be retried it might have been.                                      *)
Failed(d, kind) ==
    [d EXCEPT !.stage = IF kind = "REUSED" THEN "REUSED" ELSE "EDITING",
              !.sent = IF kind = "RETRY" THEN @ ELSE d.base]

Outcome(p) ==
    CASE p.answer = "CREATED" /\ draft.stage = "POSTING" -> [draft EXCEPT !.stage = "POSTED"]
      [] p.answer = "CREATED" /\ draft.stage = "REPOSTING" ->
           [RestartDraft(draft) EXCEPT !.stage = "ALREADY"]
      [] p.answer = "REUSED" /\ draft.stage = "POSTING" -> [draft EXCEPT !.stage = "REPOSTING"]
      [] p.answer = "REUSED" /\ draft.stage = "REPOSTING" -> Failed(draft, "REUSED")
      [] p.answer = "INVALID_SUPPLIER" -> Failed(draft, "REFUSED")
      [] p.answer = "UNAVAILABLE" -> Failed(draft, "RETRY")

Answer(p) ==
    /\ p.awaited /\ p.answer # "NONE"
    /\ draft' = Outcome(p)
    /\ posted' = IF p.answer = "CREATED" \/ draft'.stage = "REUSED" THEN posted \cup {p.key} ELSE posted
    /\ posts' = (posts \ {p}) \cup
                (IF draft'.stage = "REPOSTING"
                 THEN {[p EXCEPT !.value = draft.sent, !.step = "SENT", !.answer = "NONE"]} ELSE {})
    /\ UNCHANGED <<errands, quota>>

GivenUp(p) == (posts \ {p}) \cup (IF p.answer = "NONE" THEN {[p EXCEPT !.awaited = FALSE]} ELSE {})

PostLost(p) ==
    /\ p.awaited /\ Use("LOSE_POST")
    /\ posts' = GivenUp(p)
    /\ draft' = Failed(draft, "RETRY")
    /\ UNCHANGED <<errands, posted>>

(* The page is reloaded: the draft is read back from session storage.      *)
ReloadPage(p) ==
    /\ p.awaited /\ Use("RELOAD")
    /\ posts' = GivenUp(p)
    /\ draft' = [draft EXCEPT !.stage = "EDITING"]
    /\ UNCHANGED <<errands, posted>>

(* Start over, or post the edits as a request of their own.                *)
StartOver ==
    /\ draft.stage \in {"REUSED", "ALREADY"}
    /\ draft' = [(IF draft.stage = "REUSED" THEN RestartDraft(draft) ELSE draft) EXCEPT !.stage = "EDITING"]
    /\ UNCHANGED <<posts, errands, posted, quota>>

NewRequest ==
    /\ draft.stage = "POSTED" /\ Use("EDIT")
    /\ draft' = [RestartDraft(draft) EXCEPT !.stage = "EDITING"]
    /\ UNCHANGED <<posts, errands, posted>>

ComposerNext ==
    \/ Submit \/ StartOver \/ NewRequest
    \/ \E v \in Values : Edit(v)
    \/ \E p \in posts : \/ FindIdempotent(p) \/ GetActive(p) \/ SupplierUnavailable(p)
                        \/ CreatePending(p) \/ Answer(p) \/ PostLost(p) \/ ReloadPage(p)

-----------------------------------------------------------------------------
(* Retries, edits and reloads after lost answers make no second errand: at *)
(* most one was created that the student has not been told of, and none    *)
(* twice under one key (Draft in composer.ts).                             *)
ErrandsOnce ==
    /\ Cardinality({e \in errands : e.key \notin posted}) <= 1
    /\ \A e, f \in errands : e.key = f.key => e = f

(* What the page says of the errand is so: one it reports as posted has    *)
(* the details on screen, and one it reports as posted before the latest   *)
(* changes has others.                                                     *)
PostedAsShown ==
    /\ draft.stage = "POSTED" => [key |-> draft.key, value |-> draft.value] \in errands
    /\ draft.stage = "ALREADY" =>
          \E e \in errands : e.key = draft.last /\ e.value # draft.value
=============================================================================
