----------------------------- MODULE PagesProofs -----------------------------
(***************************************************************************)
(* Proofs about the pages a client keeps open: the administrators' console *)
(* and the conversation, for any number of letters, requests, messages and *)
(* answers.                                                                *)
(***************************************************************************)
EXTENDS ClientsProofs

(* The console's prompt.                                                   *)

PromptInv ==
    /\ console \in [ConsoleActions -> {"IDLE", "FIRST", "WAITING", "AGAIN", "DONE", "FAILED", "CANCELLED"}]
    /\ prompt \in [asking : BOOLEAN, waiting : SUBSET ConsoleActions]
    /\ NobodyStranded

LEMMA PromptStep == ASSUME PromptInv, ConsoleNext PROVE PromptInv'
<1>1. ASSUME NEW a \in ConsoleActions, Starts(a) PROVE PromptInv'
  BY <1>1 DEF Starts, PromptInv, NobodyStranded
<1>2. ASSUME NEW a \in ConsoleActions, ActionAnswered(a) PROVE PromptInv'
  <2>1. CASE console' = [console EXCEPT ![a] = "WAITING"] /\ prompt' = Asked(a)
    BY <2>1 DEF PromptInv, NobodyStranded, Asked
  <2>2. CASE /\ UNCHANGED prompt
             /\ \/ console' = [console EXCEPT ![a] = "DONE"]
                \/ console' = [console EXCEPT ![a] = "FAILED"]
    BY <2>2 DEF PromptInv, NobodyStranded
  <2> QED BY <1>2, <2>1, <2>2 DEF ActionAnswered
<1>3. ASSUME NEW ok \in BOOLEAN, PromptAnswered(ok) PROVE PromptInv'
  <2>1. \A a \in ConsoleActions : console'[a] # "WAITING"
    BY <1>3 DEF PromptAnswered, PromptInv, NobodyStranded
  <2>2. prompt' \in [asking : BOOLEAN, waiting : SUBSET ConsoleActions]
    BY <1>3 DEF PromptAnswered, NoPrompt
  <2>3. console' \in [ConsoleActions -> {"IDLE", "FIRST", "WAITING", "AGAIN", "DONE", "FAILED", "CANCELLED"}]
    BY <1>3 DEF PromptAnswered, PromptInv
  <2> QED BY <2>1, <2>2, <2>3 DEF PromptInv, NobodyStranded
<1>4. ASSUME UNCHANGED <<console, prompt>> PROVE PromptInv'
  BY <1>4 DEF PromptInv, NobodyStranded
<1> QED BY <1>1, <1>2, <1>3, <1>4 DEF ConsoleNext, StepUpServed, PasswordEntered, StepUpArrives, PromptClosed,
                                      ReentryExpires

-----------------------------------------------------------------------------
(* The console's pages.                                                    *)

(* What a slot holds that was asked for under its present version.         *)
HoldsNow(s, d) ==
    \/ \E l \in loads : l.slot = s /\ d \in l.data
    \/ \E a \in hooks[s].settled : a.request.version = hooks[s].request.version /\ d \in a.data

(* What the page has read and not dropped.                                 *)
EverHeld(d) ==
    \/ \E l \in loads : d \in l.data
    \/ \E a \in hooks["LIST"].settled : d \in a.data

Dialogs == desk.action \cup {act.action : act \in acts}

DeskFits ==
    desk \in [page : {desk.page}, action : {desk.action}, ids : Nat, notice : {desk.notice},
              changed : {desk.changed}, latest : {desk.latest}, after : {desk.after}, seen : {desk.seen}]

RequestFit(r) == r \in [version : Nat, key : {r.key}]

HooksFit ==
    /\ hooks = [s \in Slots |-> hooks[s]]
    /\ \A s \in Slots :
          /\ hooks[s] \in [request : {hooks[s].request}, settled : {hooks[s].settled}]
          /\ RequestFit(hooks[s].request)
          /\ \A a \in hooks[s].settled : /\ a.request.version \in Nat
                                         /\ a.request.version <= hooks[s].request.version
                                         /\ \A b \in hooks[s].settled : b = a

LoadFits(l) ==
    /\ l \in [slot : SlotsOf(desk.page), request : {l.request}, phase : {"SENT", "ANSWERED", "FAILED"},
              data : {l.data}]
    /\ l.request = hooks[l.slot].request

(* Every slot of the page is being read for what is asked now or holds the *)
(* answer, and a read that something newer replaced is gone.               *)
ReadsInv ==
    /\ DeskFits /\ HooksFit
    /\ \A l \in loads : LoadFits(l) /\ \A m \in loads : m.slot = l.slot => m = l
    /\ \A s \in SlotsOf(desk.page) : Loading(s) => \E l \in loads : l.slot = s
    /\ \A s \in Slots \ SlotsOf(desk.page) : hooks[s].settled = {}

(* What is held after a step was held before it, or is read in it.         *)
IsRead(d, l) ==
    /\ d = ReadOf(l) /\ (desk.page = "DISPUTE" => dispute.mine)
    /\ UNCHANGED <<desk, hooks, acts, parked, dispute, listed, subject>>

ReadsMove ==
    /\ desk'.page = desk.page
    /\ \A s \in Slots : \A d : HoldsNow(s, d)' => HoldsNow(s, d) \/ \E l \in loads : l.slot = s /\ IsRead(d, l)
    /\ \A d : EverHeld(d)' => EverHeld(d) \/ \E l \in loads : IsRead(d, l)

LEMMA SlotsKnown == SlotsOf(desk.page) \subseteq Slots /\ "LIST" \in Slots /\ "FIGURE" \in Slots
BY DEF SlotsOf, Slots

(* The pages whose list loads again.                                       *)
LEMMA ListsLoad ==
    /\ desk.page # "CLOSED" => "LIST" \in SlotsOf(desk.page)
    /\ desk.page = "LETTERS" => SlotsOf(desk.page) = {"LIST", "FIGURE"}
    /\ desk.page = "ACCOUNT" => SlotsOf(desk.page) = Slots
BY DEF SlotsOf, Slots

(* A read is answered or fails.                                            *)
LEMMA ReadTurns ==
    ASSUME ReadsInv, NEW l \in loads, LoadServed(l) \/ LoadFails(l)
    PROVE  ReadsInv' /\ ReadsMove
<1>1. PICK m : /\ loads' = (loads \ {l}) \cup {m}
               /\ m.slot = l.slot /\ m.request = l.request
               /\ m \in [slot : SlotsOf(desk.page), request : {m.request},
                         phase : {"SENT", "ANSWERED", "FAILED"}, data : {m.data}]
               /\ \/ m.data = l.data
                  \/ m.data = {ReadOf(l)} /\ (desk.page = "DISPUTE" => dispute.mine)
  <2>1. l \in [slot : SlotsOf(desk.page), request : {l.request}, phase : {"SENT", "ANSWERED", "FAILED"},
               data : {l.data}]
    BY DEF ReadsInv, LoadFits
  <2>2. CASE loads' = (loads \ {l}) \cup {[l EXCEPT !.phase = "FAILED"]}
    <3>1. PICK m : m = [l EXCEPT !.phase = "FAILED"]
      OBVIOUS
    <3>2. m.slot = l.slot /\ m.request = l.request /\ m.data = l.data
      BY <2>1, <3>1
    <3>3. m \in [slot : SlotsOf(desk.page), request : {m.request}, phase : {"SENT", "ANSWERED", "FAILED"},
                 data : {m.data}]
      BY <2>1, <3>1
    <3> QED BY <2>2, <3>1, <3>2, <3>3
  <2>3. CASE /\ loads' = (loads \ {l}) \cup {[l EXCEPT !.phase = "ANSWERED", !.data = {ReadOf(l)}]}
             /\ desk.page = "DISPUTE" => dispute.mine
    <3>1. PICK x : x = {ReadOf(l)}
      OBVIOUS
    <3>2. PICK m : m = [l EXCEPT !.phase = "ANSWERED", !.data = x]
      OBVIOUS
    <3>3. m.slot = l.slot /\ m.request = l.request /\ m.data = x
      BY <2>1, <3>2
    <3>4. m \in [slot : SlotsOf(desk.page), request : {m.request}, phase : {"SENT", "ANSWERED", "FAILED"},
                 data : {m.data}]
      BY <2>1, <3>2
    <3> QED BY <2>3, <3>1, <3>2, <3>3, <3>4
  <2> QED BY <2>2, <2>3 DEF LoadServed, LoadFails
<1>2. UNCHANGED <<desk, hooks, acts, parked, dispute, listed, subject>>
  BY DEF LoadServed, LoadFails
<1>3. ReadsInv'
  <2>1. DeskFits' /\ HooksFit'
    BY <1>2 DEF ReadsInv, DeskFits, HooksFit, RequestFit
  <2>2. \A k \in loads' : LoadFits(k)' /\ \A n \in loads' : n.slot = k.slot => n = k
    BY <1>1, <1>2 DEF ReadsInv, LoadFits
  <2>3. \A s \in SlotsOf(desk.page)' : Loading(s)' => \E k \in loads' : k.slot = s
    BY <1>1, <1>2 DEF ReadsInv, Loading
  <2> QED BY <1>2, <2>1, <2>2, <2>3 DEF ReadsInv
<1>4. ASSUME NEW d, d \in m.data PROVE d \in l.data \/ IsRead(d, l)
  BY <1>1, <1>2, <1>4 DEF IsRead
<1>5. ASSUME NEW s \in Slots, NEW d, HoldsNow(s, d)'
      PROVE  HoldsNow(s, d) \/ \E k \in loads : k.slot = s /\ IsRead(d, k)
  BY <1>1, <1>2, <1>4, <1>5 DEF HoldsNow
<1>6. ASSUME NEW d, EverHeld(d)' PROVE EverHeld(d) \/ \E k \in loads : IsRead(d, k)
  BY <1>1, <1>2, <1>4, <1>6 DEF EverHeld
<1> QED BY <1>2, <1>3, <1>5, <1>6 DEF ReadsMove

(* A read settles; the list of errands may turn back a page.               *)
LEMMA ReadSettles == ASSUME ReadsInv, NEW l \in loads, Settles(l) PROVE ReadsInv' /\ ReadsMove
<1> DEFINE answer == [request |-> l.request, data |-> l.data, failed |-> l.phase = "FAILED"]
           s0 == l.slot
<1>0. /\ s0 \in Slots /\ s0 \in SlotsOf(desk.page) /\ l.request = hooks[s0].request
      /\ \A m \in loads : m.slot = s0 => m = l
  BY SlotsKnown DEF ReadsInv, LoadFits
<1>1. RequestFit(hooks[s0].request)
  BY <1>0 DEF ReadsInv, HooksFit
<1>2. /\ desk' \in [page : {desk.page}, action : {desk'.action}, ids : Nat, notice : {desk'.notice},
                    changed : {desk'.changed}, latest : {desk'.latest}, after : {desk'.after}, seen : {desk'.seen}]
      /\ DeskFits' /\ desk'.page = desk.page
  BY DEF Settles, ReadsInv, DeskFits
<1>3. PICK next : /\ RequestFit(next) /\ next.version = hooks[s0].request.version
                  /\ hooks' = [hooks EXCEPT ![s0] = [request |-> next, settled |-> {answer}]]
                  /\ \/ next = hooks[s0].request /\ loads' = loads \ {l}
                     \/ loads' = (loads \ {l}) \cup {NewLoad(s0, next)}
  <2>1. PICK back \in BOOLEAN : \E x :
           /\ hooks' = [hooks EXCEPT ![s0] =
                           [request |-> IF back THEN [hooks[s0].request EXCEPT !.key.before = x] ELSE @.request,
                            settled |-> {answer}]]
           /\ loads' = (loads \ {l}) \cup
                       IF back THEN {NewLoad(s0, [hooks[s0].request EXCEPT !.key.before = x])} ELSE {}
    BY DEF Settles
  <2>2. PICK x :
           /\ hooks' = [hooks EXCEPT ![s0] =
                           [request |-> IF back THEN [hooks[s0].request EXCEPT !.key.before = x] ELSE @.request,
                            settled |-> {answer}]]
           /\ loads' = (loads \ {l}) \cup
                       IF back THEN {NewLoad(s0, [hooks[s0].request EXCEPT !.key.before = x])} ELSE {}
    BY <2>1
  <2>3. PICK r : r = [hooks[s0].request EXCEPT !.key.before = x]
    OBVIOUS
  <2>4. RequestFit(r) /\ r.version = hooks[s0].request.version
    BY <1>1, <2>3 DEF RequestFit
  <2>5. CASE back
    BY <2>2, <2>3, <2>4, <2>5
  <2>6. CASE ~back
    <3>1. hooks' = [hooks EXCEPT ![s0] = [request |-> hooks[s0].request, settled |-> {answer}]]
      BY <2>2, <2>6, <1>0 DEF ReadsInv, HooksFit
    <3>2. loads' = loads \ {l}
      BY <2>2, <2>6
    <3> QED BY <1>1, <3>1, <3>2
  <2> QED BY <2>5, <2>6
<1>4. /\ hooks'[s0] = [request |-> next, settled |-> {answer}]
      /\ \A s \in Slots \ {s0} : hooks'[s] = hooks[s]
      /\ hooks' = [s \in Slots |-> hooks'[s]]
  BY <1>0, <1>3 DEF ReadsInv, HooksFit
<1>5. HooksFit'
  <2> SUFFICES ASSUME NEW s \in Slots
               PROVE  /\ hooks'[s] \in [request : {hooks'[s].request}, settled : {hooks'[s].settled}]
                      /\ RequestFit(hooks'[s].request)
                      /\ \A a \in hooks'[s].settled : /\ a.request.version \in Nat
                                                     /\ a.request.version <= hooks'[s].request.version
                                                     /\ \A b \in hooks'[s].settled : b = a
    BY <1>4 DEF HooksFit, RequestFit
  <2>1. CASE s = s0
    <3>1. hooks'[s].request = next /\ hooks'[s].settled = {answer}
      BY <1>4, <2>1
    <3>2. answer.request.version = next.version /\ next.version \in Nat
      BY <1>0, <1>3 DEF RequestFit
    <3>3. hooks'[s] \in [request : {hooks'[s].request}, settled : {hooks'[s].settled}]
      BY <1>4, <2>1
    <3> HIDE DEF answer
    <3>4. next.version <= next.version
      BY <3>2
    <3> QED BY <1>3, <3>1, <3>2, <3>3, <3>4
  <2>2. CASE s # s0
    BY <1>4, <2>2 DEF ReadsInv, HooksFit
  <2> QED BY <2>1, <2>2
<1>6. \A k \in loads' : LoadFits(k)' /\ \A n \in loads' : n.slot = k.slot => n = k
  <2>1. \A k \in loads \ {l} : k.slot # s0 /\ LoadFits(k) /\ LoadFits(k)'
    <3> SUFFICES ASSUME NEW k \in loads \ {l} PROVE k.slot # s0 /\ LoadFits(k) /\ LoadFits(k)'
      OBVIOUS
    <3>1. k.slot # s0 /\ LoadFits(k)
      BY <1>0 DEF ReadsInv
    <3>2. k.slot \in Slots
      BY <3>1, SlotsKnown DEF LoadFits
    <3> QED BY <1>2, <1>4, <3>1, <3>2 DEF LoadFits
  <2>2. \A k \in loads' \ (loads \ {l}) : k = NewLoad(s0, next)
    BY <1>3
  <2>3. NewLoad(s0, next).slot = s0 /\ LoadFits(NewLoad(s0, next))'
    BY <1>0, <1>2, <1>4 DEF NewLoad, LoadFits
  <2>4. \A k, n \in loads \ {l} : n.slot = k.slot => n = k
    BY DEF ReadsInv
  <2> QED BY <2>1, <2>2, <2>3, <2>4
<1>7. \A s \in SlotsOf(desk.page)' : Loading(s)' => \E k \in loads' : k.slot = s
  <2> SUFFICES ASSUME NEW s \in SlotsOf(desk.page), Loading(s)' PROVE \E k \in loads' : k.slot = s
    BY <1>2
  <2>1. CASE s = s0
    <3>1. NewLoad(s0, next) \in loads'
      <4>1. CASE next = hooks[s0].request
        <5>1. answer \in hooks'[s0].settled /\ answer.request = hooks'[s0].request
          BY <1>0, <1>4, <4>1
        <5> QED BY <2>1, <5>1 DEF Loading
      <4> QED BY <1>3, <4>1
    <3> QED BY <2>1, <3>1 DEF NewLoad
  <2>2. CASE s # s0
    <3>1. Loading(s)
      BY <1>4, <2>2, SlotsKnown DEF Loading
    <3>2. PICK k \in loads : k.slot = s
      BY <3>1 DEF ReadsInv
    <3> QED BY <1>3, <2>2, <3>2
  <2> QED BY <2>1, <2>2
<1>8. ReadsInv'
  BY <1>0, <1>2, <1>4, <1>5, <1>6, <1>7 DEF ReadsInv
<1>9. \A k \in loads' : k \in loads \/ k.data = {}
  BY <1>3 DEF NewLoad
<1>10. ASSUME NEW s \in Slots, NEW d, HoldsNow(s, d)' PROVE HoldsNow(s, d)
  <2>1. CASE \E k \in loads' : k.slot = s /\ d \in k.data
    BY <1>9, <2>1 DEF HoldsNow
  <2>2. CASE s # s0 /\ \E a \in hooks'[s].settled :
                a.request.version = hooks'[s].request.version /\ d \in a.data
    BY <1>4, <2>2 DEF HoldsNow
  <2>3. CASE s = s0 /\ \E a \in hooks'[s].settled : d \in a.data
    <3>1. d \in l.data
      BY <1>4, <2>3
    <3> QED BY <2>3, <3>1 DEF HoldsNow
  <2> QED BY <1>10, <2>1, <2>2, <2>3 DEF HoldsNow
<1>11. ASSUME NEW d, EverHeld(d)' PROVE EverHeld(d)
  <2>1. CASE \E k \in loads' : d \in k.data
    BY <1>9, <2>1 DEF EverHeld
  <2>2. CASE \E a \in hooks'["LIST"].settled : d \in a.data
    <3>1. CASE s0 = "LIST"
      <4>1. d \in l.data
        BY <1>4, <2>2, <3>1
      <4> QED BY <4>1 DEF EverHeld
    <3>2. CASE s0 # "LIST"
      BY <1>4, <2>2, <3>2, SlotsKnown DEF EverHeld
    <3> QED BY <3>1, <3>2
  <2> QED BY <1>11, <2>1, <2>2 DEF EverHeld
<1> QED BY <1>2, <1>8, <1>10, <1>11 DEF ReadsMove

(* Something newer is asked: what was being read for a slot that changes   *)
(* is dropped, and nothing that was held counts as an answer to a later    *)
(* version.                                                                *)
LEMMA RequestMoves ==
    ASSUME ReadsInv, NEW requests, Request(requests), DeskFits', desk'.page = desk.page,
           \A s \in Slots : RequestFit(requests[s]) /\ hooks[s].request.version <= requests[s].version,
           \A s \in Slots : requests[s] # hooks[s].request => s \in SlotsOf(desk.page)
    PROVE  /\ ReadsInv' /\ ReadsMove
           /\ \A s \in Slots : \A d : requests[s].version # hooks[s].request.version => ~HoldsNow(s, d)'
<1>1. /\ \A s \in Slots : hooks'[s] = [request |-> requests[s], settled |-> hooks[s].settled]
      /\ hooks' = [s \in Slots |-> hooks'[s]]
  <2>1. \A s \in Slots : [hooks[s] EXCEPT !.request = requests[s]] = [request |-> requests[s], settled |-> hooks[s].settled]
    BY DEF ReadsInv, HooksFit
  <2> QED BY <2>1 DEF Request
<1>2. \A k \in loads' : \/ k \in loads /\ k.request = requests[k.slot]
                        \/ /\ k.slot \in Slots /\ requests[k.slot] # hooks[k.slot].request
                           /\ k = NewLoad(k.slot, requests[k.slot])
  BY DEF Request, Superseded, NewLoad
<1>3. \A s \in Slots : requests[s] # hooks[s].request => NewLoad(s, requests[s]) \in loads'
  BY DEF Request
<1>4. \A k \in loads : k.slot \in Slots /\ k.request = hooks[k.slot].request /\ LoadFits(k)
  BY SlotsKnown DEF ReadsInv, LoadFits
<1>5. \A k \in loads : k.request = requests[k.slot] => k \in loads'
  BY DEF Request, Superseded
<1>6. HooksFit'
  <2> SUFFICES ASSUME NEW s \in Slots
               PROVE  /\ hooks'[s] \in [request : {hooks'[s].request}, settled : {hooks'[s].settled}]
                      /\ RequestFit(hooks'[s].request)
                      /\ \A a \in hooks'[s].settled : /\ a.request.version \in Nat
                                                     /\ a.request.version <= hooks'[s].request.version
                                                     /\ \A b \in hooks'[s].settled : b = a
    BY <1>1 DEF HooksFit, RequestFit
  <2>1. hooks'[s].request = requests[s] /\ hooks'[s].settled = hooks[s].settled
    BY <1>1
  <2>2. \A a \in hooks[s].settled : /\ a.request.version \in Nat
                                    /\ a.request.version <= hooks[s].request.version
                                    /\ \A b \in hooks[s].settled : b = a
    BY DEF ReadsInv, HooksFit
  <2>3. hooks[s].request.version \in Nat /\ requests[s].version \in Nat
    BY DEF ReadsInv, HooksFit, RequestFit
  <2>4. \A a \in hooks[s].settled : a.request.version <= requests[s].version
    <3> SUFFICES ASSUME NEW a \in hooks[s].settled PROVE a.request.version <= requests[s].version
      OBVIOUS
    <3>1. hooks[s].request.version <= requests[s].version
      OBVIOUS
    <3> QED BY <2>2, <2>3, <3>1
  <2>5. hooks'[s] \in [request : {hooks'[s].request}, settled : {hooks'[s].settled}]
    BY <1>1
  <2> QED BY <2>1, <2>2, <2>4, <2>5
<1>7. \A k \in loads' : LoadFits(k)' /\ \A n \in loads' : n.slot = k.slot => n = k
  <2>1. ASSUME NEW k \in loads' PROVE LoadFits(k)'
    <3>1. CASE k \in loads /\ k.request = requests[k.slot]
      BY <1>1, <1>4, <3>1 DEF LoadFits
    <3>2. CASE k.slot \in Slots /\ requests[k.slot] # hooks[k.slot].request /\ k = NewLoad(k.slot, requests[k.slot])
      <4>1. k.slot \in SlotsOf(desk.page)
        BY <3>2
      <4>2. k = [slot |-> k.slot, request |-> requests[k.slot], phase |-> "SENT", data |-> {}]
        BY <3>2 DEF NewLoad
      <4> QED BY <1>1, <3>2, <4>1, <4>2 DEF LoadFits
    <3> QED BY <1>2, <3>1, <3>2
  <2>2. ASSUME NEW k \in loads', NEW n \in loads', n.slot = k.slot PROVE n = k
    <3>1. CASE k \in loads /\ n \in loads
      BY <2>2, <3>1 DEF ReadsInv
    <3>2. CASE ~(k \in loads /\ n \in loads)
      BY <1>2, <1>4, <2>2, <3>2
    <3> QED BY <3>1, <3>2
  <2> QED BY <2>1, <2>2
<1>8. \A s \in SlotsOf(desk.page) : Loading(s)' => \E k \in loads' : k.slot = s
  <2> SUFFICES ASSUME NEW s \in SlotsOf(desk.page), Loading(s)' PROVE \E k \in loads' : k.slot = s
    OBVIOUS
  <2>1. CASE requests[s] # hooks[s].request
    BY <1>3, <2>1, SlotsKnown DEF NewLoad
  <2>2. CASE requests[s] = hooks[s].request
    <3>1. Loading(s)
      BY <1>1, <2>2, SlotsKnown DEF Loading
    <3>2. PICK k \in loads : k.slot = s
      BY <3>1 DEF ReadsInv
    <3> QED BY <1>4, <1>5, <2>2, <3>2
  <2> QED BY <2>1, <2>2
<1>9. ReadsInv'
  <2>1. \A s \in Slots \ SlotsOf(desk.page)' : hooks'[s].settled = {}
    BY <1>1 DEF ReadsInv
  <2> QED BY <1>6, <1>7, <1>8, <2>1 DEF ReadsInv
<1>10. ASSUME NEW s \in Slots, NEW d, HoldsNow(s, d)'
       PROVE  HoldsNow(s, d) /\ requests[s].version = hooks[s].request.version
  <2>1. hooks'[s].request = requests[s] /\ hooks'[s].settled = hooks[s].settled
    BY <1>1
  <2>2. CASE \E k \in loads' : k.slot = s /\ d \in k.data
    <3>1. PICK k \in loads' : k.slot = s /\ d \in k.data
      BY <2>2
    <3>2. k \in loads /\ k.request = requests[s]
      BY <1>2, <3>1 DEF NewLoad
    <3> QED BY <1>4, <3>1, <3>2 DEF HoldsNow
  <2>3. CASE \E a \in hooks'[s].settled : a.request.version = hooks'[s].request.version /\ d \in a.data
    <3>1. PICK a \in hooks[s].settled : a.request.version = requests[s].version /\ d \in a.data
      BY <2>1, <2>3
    <3>2. /\ a.request.version \in Nat /\ hooks[s].request.version \in Nat
          /\ a.request.version <= hooks[s].request.version
      BY DEF ReadsInv, HooksFit, RequestFit
    <3>3. hooks[s].request.version <= requests[s].version
      OBVIOUS
    <3>4. requests[s].version = hooks[s].request.version
      BY <3>1, <3>2, <3>3
    <3> QED BY <3>1, <3>4 DEF HoldsNow
  <2> QED BY <1>10, <2>2, <2>3 DEF HoldsNow
<1>11. ASSUME NEW d, EverHeld(d)' PROVE EverHeld(d)
  <2>1. \A k \in loads' : k \in loads \/ k.data = {}
    BY <1>2 DEF NewLoad
  <2>2. hooks'["LIST"].settled = hooks["LIST"].settled
    BY <1>1, SlotsKnown
  <2> QED BY <1>11, <2>1, <2>2 DEF EverHeld
<1> QED BY <1>9, <1>10, <1>11 DEF ReadsMove

(* Neither reads nor what is asked change.                                 *)
LEMMA ReadsUndisturbed ==
    ASSUME ReadsInv, UNCHANGED <<hooks, loads>>, DeskFits', desk'.page = desk.page
    PROVE  ReadsInv' /\ ReadsMove
<1>1. HooksFit' /\ \A s : Loading(s)' <=> Loading(s)
  BY DEF ReadsInv, HooksFit, RequestFit, Loading
<1>2. \A l \in loads : LoadFits(l)'
  BY DEF ReadsInv, LoadFits
<1>3. ReadsInv'
  BY <1>1, <1>2 DEF ReadsInv
<1>4. \A s, d : HoldsNow(s, d)' <=> HoldsNow(s, d)
  BY DEF HoldsNow
<1>5. \A d : EverHeld(d)' <=> EverHeld(d)
  BY DEF EverHeld
<1> QED BY <1>3, <1>4, <1>5 DEF ReadsMove

(* What a page asks next keeps or raises the version of each slot.         *)
Raises(requests, slots) ==
    /\ slots \subseteq Slots
    /\ \A s \in Slots \ slots : requests[s] = hooks[s].request
    /\ \A s \in slots : /\ RequestFit(requests[s])
                        /\ requests[s].version = hooks[s].request.version + 1

LEMMA RaisedRequest ==
    ASSUME ReadsInv, NEW requests, NEW slots, Raises(requests, slots), slots \subseteq SlotsOf(desk.page),
           Request(requests), DeskFits', desk'.page = desk.page
    PROVE  /\ ReadsInv' /\ ReadsMove
           /\ \A s \in slots : \A d : ~HoldsNow(s, d)'
<1>1. \A s \in Slots : RequestFit(hooks[s].request) /\ hooks[s].request.version \in Nat
  BY DEF ReadsInv, HooksFit, RequestFit
<1>2. \A s \in Slots : RequestFit(requests[s]) /\ hooks[s].request.version <= requests[s].version
  <2> SUFFICES ASSUME NEW s \in Slots
               PROVE  RequestFit(requests[s]) /\ hooks[s].request.version <= requests[s].version
    OBVIOUS
  <2>1. CASE s \in slots
    BY <1>1, <2>1 DEF Raises
  <2>2. CASE s \notin slots
    BY <1>1, <2>2 DEF Raises
  <2> QED BY <2>1, <2>2
<1>3. \A s \in Slots : requests[s] # hooks[s].request => s \in SlotsOf(desk.page)
  BY DEF Raises
<1>4. \A s \in slots : s \in Slots /\ requests[s].version # hooks[s].request.version
  BY <1>1 DEF Raises
<1> QED BY <1>2, <1>3, <1>4, RequestMoves

LEMMA KeyedRequest ==
    ASSUME ReadsInv, NEW key, Request(Keyed(key)), "LIST" \in SlotsOf(desk.page), DeskFits', desk'.page = desk.page
    PROVE  ReadsInv' /\ ReadsMove
<1> DEFINE requests == Keyed(key)
<1>1. \A s \in Slots : RequestFit(hooks[s].request)
  BY DEF ReadsInv, HooksFit
<1>2. \A s \in Slots : requests[s] = IF s = "LIST" THEN [hooks[s].request EXCEPT !.key = key] ELSE hooks[s].request
  BY DEF Keyed
<1>3. \A s \in Slots : RequestFit(requests[s]) /\ requests[s].version = hooks[s].request.version
  BY <1>1, <1>2 DEF RequestFit
<1>4. \A s \in Slots : requests[s] # hooks[s].request => s \in SlotsOf(desk.page)
  BY <1>2
<1>5. \A s \in Slots : hooks[s].request.version <= requests[s].version
  BY <1>1, <1>3 DEF RequestFit
<1> HIDE DEF requests
<1>6. Request(requests)
  BY DEF requests
<1> QED BY <1>3, <1>4, <1>5, <1>6, RequestMoves

LEMMA ReloadRaises ==
    ASSUME ReadsInv
    PROVE  /\ Raises(Reloaded, {"LIST"})
           /\ Raises([Reloaded EXCEPT !["FIGURE"].version = @ + 1], {"LIST", "FIGURE"})
           /\ \A s \in Slots : Raises([t \in Slots |-> IF t = s THEN [hooks[t].request EXCEPT !.version = @ + 1]
                                                       ELSE hooks[t].request], {s})
<1>1. \A s \in Slots : hooks[s].request \in [version : Nat, key : {hooks[s].request.key}]
  BY DEF ReadsInv, HooksFit, RequestFit
<1>2. ASSUME NEW s \in Slots, NEW r, r = [hooks[s].request EXCEPT !.version = @ + 1]
      PROVE  RequestFit(r) /\ r.version = hooks[s].request.version + 1
  BY <1>1, <1>2 DEF RequestFit
<1>3. \A s \in Slots : Reloaded[s] = IF s = "LIST" THEN [hooks[s].request EXCEPT !.version = @ + 1] ELSE hooks[s].request
  BY DEF Reloaded
<1>4. Raises(Reloaded, {"LIST"})
  BY <1>2, <1>3, SlotsKnown DEF Raises
<1>5. Raises([Reloaded EXCEPT !["FIGURE"].version = @ + 1], {"LIST", "FIGURE"})
  <2>1. PICK r : r = [hooks["FIGURE"].request EXCEPT !.version = @ + 1]
    OBVIOUS
  <2>2. PICK f : f = [Reloaded EXCEPT !["FIGURE"].version = @ + 1]
    OBVIOUS
  <2>3. f["FIGURE"] = r /\ \A s \in Slots \ {"FIGURE"} : f[s] = Reloaded[s]
    BY <2>1, <2>2, <1>3, SlotsKnown DEF Reloaded
  <2>4. RequestFit(r) /\ r.version = hooks["FIGURE"].request.version + 1
    BY <1>2, <2>1, SlotsKnown
  <2>5. Raises(f, {"LIST", "FIGURE"})
    BY <1>4, <2>3, <2>4, SlotsKnown DEF Raises
  <2> QED BY <2>2, <2>5
<1>6. ASSUME NEW s \in Slots
      PROVE Raises([t \in Slots |-> IF t = s THEN [hooks[t].request EXCEPT !.version = @ + 1]
                                    ELSE hooks[t].request], {s})
  <2>1. PICK r : r = [hooks[s].request EXCEPT !.version = @ + 1]
    OBVIOUS
  <2>2. PICK f : f = [t \in Slots |-> IF t = s THEN [hooks[t].request EXCEPT !.version = @ + 1] ELSE hooks[t].request]
    OBVIOUS
  <2>3. f[s] = r /\ \A t \in Slots \ {s} : f[t] = hooks[t].request
    BY <2>1, <2>2
  <2>4. RequestFit(r) /\ r.version = hooks[s].request.version + 1
    BY <1>2, <2>1
  <2>5. Raises(f, {s})
    BY <2>3, <2>4 DEF Raises
  <2> QED BY <2>2, <2>5
<1> QED BY <1>4, <1>5, <1>6

DialogFits(a) == a \in [id : 1 .. desk.ids, busy : BOOLEAN, on : {a.on}, service : {a.service}, at : {a.at}]

SameDialog(a, b) == b.on = a.on /\ b.service = a.service /\ b.at = a.at

ActFits(act) ==
    /\ act \in [action : {act.action}, key : {act.key}, reason : {act.reason},
                phase : {"SENT", "OK", "REFUSED", "CHANGED"}, row : {act.row}, wanted : {act.wanted}]
    /\ act.phase = "CHANGED" => desk.page = "DISPUTE"
    /\ act.phase = "SENT" => act.row = {}
    /\ act.key = <<act.action.id, 0>>

(* A dialog keeps what it was opened on through every attempt.             *)
DialogsInv ==
    /\ \A a \in Dialogs : DialogFits(a) /\ \A b \in Dialogs : b.id = a.id => SameDialog(a, b)
    /\ \A act \in acts : ActFits(act)

(* The ways the page's own state is edited.                                *)
LEMMA DeskEdits ==
    ASSUME DeskFits
    PROVE  /\ \A x : desk' = [desk EXCEPT !.action = x] => DeskFits' /\ desk'.page = desk.page
           /\ \A x : desk' = [desk EXCEPT !.notice = x] => DeskFits' /\ desk'.page = desk.page
           /\ \A x : desk' = [desk EXCEPT !.after = x] => DeskFits' /\ desk'.page = desk.page
           /\ desk' = desk => DeskFits' /\ desk'.page = desk.page
BY DEF DeskFits

LEMMA DeskWrites ==
    ASSUME ReadsInv, NEW act \in acts,
           \/ GivesUp(act) \/ Refused(act) \/ redrive(act) \/ resolve(act) \/ Decided(act) \/ ActOnAccount(act)
    PROVE  ReadsInv' /\ ReadsMove
<1>0. DeskFits
  BY DEF ReadsInv
<1>1. UNCHANGED <<hooks, loads>>
  BY DEF GivesUp, Refused, redrive, resolve, Decided, ActOnAccount
<1>2. CASE Decided(act)
  <2>1. DeskFits' /\ desk'.page = desk.page
    BY <1>0, <1>2 DEF Decided, DeskFits
  <2> QED BY <1>1, <2>1, ReadsUndisturbed
<1>3. CASE ~Decided(act)
  <2>1. (\E x : desk' = [desk EXCEPT !.action = x]) \/ desk' = desk
    BY <1>3 DEF GivesUp, Refused, redrive, resolve, ActOnAccount, Problem
  <2> QED BY <1>0, <1>1, <2>1, DeskEdits, ReadsUndisturbed
<1> QED BY <1>2, <1>3

(* What closes a write and loads the page again.                           *)
LEMMA DeskAnswers ==
    ASSUME ReadsInv, DialogsInv, NEW act \in acts, Redriven(act) \/ Acted(act) \/ ChangedSince(act)
    PROVE  /\ ReadsInv' /\ ReadsMove
           /\ \A d : ~HoldsNow("LIST", d)'
           /\ Redriven(act) \/ Acted(act) => \A d : ~HoldsNow("FIGURE", d)'
<1>0. DeskFits
  BY DEF ReadsInv
<1>1. DeskFits' /\ desk'.page = desk.page
  BY <1>0 DEF Redriven, Acted, ChangedSince, DeskFits
<1>2. CASE Redriven(act) \/ Acted(act)
  <2>1. {"LIST", "FIGURE"} \subseteq SlotsOf(desk.page)
    BY <1>2 DEF Redriven, Acted, SlotsOf, Slots
  <2>2. Request([Reloaded EXCEPT !["FIGURE"].version = @ + 1])
    BY <1>2 DEF Redriven, Acted, ActedReloads
  <2>3. PICK f : f = [Reloaded EXCEPT !["FIGURE"].version = @ + 1]
    OBVIOUS
  <2>4. Raises(f, {"LIST", "FIGURE"}) /\ Request(f)
    BY <2>2, <2>3, ReloadRaises
  <2> QED BY <1>1, <2>1, <2>4, RaisedRequest
<1>3. CASE ChangedSince(act) /\ ~(Redriven(act) \/ Acted(act))
  <2>1. {"LIST"} \subseteq SlotsOf(desk.page)
    BY <1>3 DEF ChangedSince, DialogsInv, ActFits, SlotsOf
  <2>2. Raises(Reloaded, {"LIST"}) /\ Request(Reloaded)
    BY <1>3, ReloadRaises DEF ChangedSince
  <2> QED BY <1>1, <1>3, <2>1, <2>2, RaisedRequest
<1> QED BY <1>2, <1>3

LEMMA ReadsStep == ASSUME ReadsInv, DialogsInv, DeskNext PROVE ReadsInv' /\ ReadsMove
<1>0. DeskFits
  BY DEF ReadsInv
<1>1. CASE Refresh
  <2>1. {"LIST"} \subseteq SlotsOf(desk.page)
    BY <1>1 DEF Refresh, SlotsOf
  <2>2. Raises(Reloaded, {"LIST"}) /\ Request(Reloaded) /\ desk' = desk
    BY <1>1, ReloadRaises DEF Refresh
  <2> QED BY <1>0, <2>1, <2>2, DeskEdits, RaisedRequest
<1>2. CASE \E l \in loads : LoadServed(l) \/ LoadFails(l) \/ Settles(l)
  BY <1>2, ReadTurns, ReadSettles
<1>3. CASE \/ CancelDialog
           \/ \E action \in desk.action, reason \in 1 .. 2 : ConfirmDialog(action, reason)
  <2>1. (\E x : desk' = [desk EXCEPT !.action = x]) /\ UNCHANGED <<hooks, loads>>
    BY <1>3 DEF CancelDialog, ConfirmDialog
  <2> QED BY <1>0, <2>1, DeskEdits, ReadsUndisturbed
<1>4. CASE \E act \in acts : \/ GivesUp(act) \/ Refused(act) \/ redrive(act) \/ resolve(act) \/ Decided(act)
                             \/ ActOnAccount(act)
  BY <1>4, DeskWrites
<1>5. CASE \E act \in acts : Redriven(act) \/ Acted(act) \/ ChangedSince(act)
  BY <1>5, DeskAnswers
<1>6. ASSUME NEW key, ShowLetters(key), (\E x : desk' = [desk EXCEPT !.notice = x]) \/ desk' = desk
      PROVE  ReadsInv' /\ ReadsMove
  <2>1. "LIST" \in SlotsOf(desk.page) /\ Request(Keyed(key))
    BY <1>6, ListsLoad DEF ShowLetters
  <2> QED BY <1>0, <1>6, <2>1, DeskEdits, KeyedRequest
<1>7. CASE \/ \E service \in {"order", "credit"} : ChooseService(service)
           \/ \E status \in {"WAITING", "REDRIVEN", "ANY"} : Search(status)
           \/ \E n \in 1 .. Cardinality(Letters) : TurnLetters(n)
  BY <1>6, <1>7 DEF ChooseService, Search, TurnLetters
<1>8. ASSUME NEW on, NEW service, NEW version, OpenDialog(on, service, version)
      PROVE  ReadsInv' /\ ReadsMove
  <2>1. PICK x : desk' = [desk EXCEPT !.action = x, !.ids = @ + 1]
    BY <1>8 DEF OpenDialog
  <2>2. DeskFits' /\ desk'.page = desk.page
    <3>1. PICK n \in Nat : n = desk.ids + 1
      BY <1>0 DEF DeskFits
    <3>2. desk' = [desk EXCEPT !.action = x, !.ids = n]
      BY <2>1, <3>1
    <3> QED BY <1>0, <3>2 DEF DeskFits
  <2>3. UNCHANGED <<hooks, loads>>
    BY <1>8 DEF OpenDialog
  <2> QED BY <2>2, <2>3, ReadsUndisturbed
<1>9. CASE \/ \E l \in Letters : AskRedrive(l)
           \/ \E outcome \in Outcomes : AskDecide(outcome)
           \/ \E what \in {"SUSPEND", "REACTIVATE", "ROLE"} : AskAccount(what)
           \/ \E r \in RequestsShown, what \in {"APPROVE", "REJECT"} : AskRequest(r, what)
  BY <1>8, <1>9 DEF AskRedrive, AskDecide, AskAccount, AskRequest
<1>10. CASE \/ \E l \in Letters : LettersChange(l)
            \/ DisputeChanges
            \/ \E what \in {"SUSPEND", "REACTIVATE", "ROLE", "APPROVE", "REJECT"} : AccountChanges(what)
            \/ \E e \in Errands : ErrandsChange(e)
  <2>1. UNCHANGED <<desk, hooks, loads>>
    BY <1>10 DEF LettersChange, DisputeChanges, AccountChanges, ErrandsChange
  <2> QED BY <1>0, <2>1, DeskEdits, ReadsUndisturbed
<1>11. ASSUME NEW s \in Slots, RetryAccount(s) PROVE ReadsInv' /\ ReadsMove
  <2>1. {s} \subseteq SlotsOf(desk.page) /\ desk' = desk
    BY <1>11, ListsLoad DEF RetryAccount
  <2>2. PICK f : f = [t \in Slots |-> IF t = s THEN [hooks[t].request EXCEPT !.version = @ + 1]
                                      ELSE hooks[t].request]
    OBVIOUS
  <2>3. Raises(f, {s}) /\ Request(f)
    BY <1>11, <2>2, ReloadRaises DEF RetryAccount
  <2> QED BY <1>0, <2>1, <2>3, DeskEdits, RaisedRequest
<1>12. ASSUME NEW after, Turn(after), desk.page = "ERRANDS" PROVE ReadsInv' /\ ReadsMove
  <2>1. PICK key : Request(Keyed(key))
    BY <1>12 DEF Turn
  <2>2. "LIST" \in SlotsOf(desk.page) /\ desk' = [desk EXCEPT !.after = after]
    BY <1>12, ListsLoad DEF Turn
  <2> QED BY <1>0, <2>1, <2>2, DeskEdits, KeyedRequest
<1>13. CASE NextErrands \/ PreviousErrands
  BY <1>12, <1>13 DEF NextErrands, PreviousErrands
<1> QED BY <1>1, <1>2, <1>3, <1>4, <1>5, <1>7, <1>9, <1>10, <1>11, <1>13 DEF DeskNext

(* A dialog that opens.                                                    *)
OpensAs(a) ==
    /\ a.id = desk.ids + 1
    /\ desk.page = "LETTERS" => a.on \in Letters
    /\ desk.page = "DISPUTE" => a.on \in Outcomes /\ \E row \in Shown : OffersDecision(row) /\ a.at = row.version
    /\ UNCHANGED <<acts, parked, dispute, listed, subject>>

(* No dialog changes what it is about.                                     *)
DialogsMove ==
    /\ desk'.ids \in Nat /\ desk.ids <= desk'.ids
    /\ \A a \in Dialogs' : (\E b \in Dialogs : b.id = a.id /\ SameDialog(a, b)) \/ OpensAs(a)

Busied(a, b) == a \in [id : {b.id}, busy : BOOLEAN, on : {b.on}, service : {b.service}, at : {b.at}]

LEMMA DialogsFollow ==
    ASSUME DialogsInv, DeskFits, desk'.ids = desk.ids,
           \A a \in desk'.action : \E b \in Dialogs : Busied(a, b),
           \A x \in acts' : ActFits(x)' /\ \E b \in Dialogs : Busied(x.action, b)
    PROVE  DialogsInv' /\ DialogsMove
<1>0. desk.ids \in Nat /\ \A a \in Dialogs : a.id \in 1 .. desk.ids
  BY DEF DeskFits, DialogsInv, DialogFits
<1>1. \A a \in Dialogs' : \E b \in Dialogs : Busied(a, b)
  BY DEF Dialogs
<1>2. \A a, b : Busied(a, b) => /\ a.id = b.id /\ SameDialog(a, b)
                                /\ a \in [id : {b.id}, busy : BOOLEAN, on : {a.on}, service : {a.service}, at : {a.at}]
  BY DEF Busied, SameDialog
<1>3. \A a \in Dialogs' : DialogFits(a)'
  <2> SUFFICES ASSUME NEW a \in Dialogs' PROVE DialogFits(a)'
    OBVIOUS
  <2>1. PICK b \in Dialogs : Busied(a, b)
    BY <1>1
  <2>2. b.id \in 1 .. desk'.ids
    BY <1>0
  <2>3. a \in [id : {b.id}, busy : BOOLEAN, on : {a.on}, service : {a.service}, at : {a.at}]
    BY <1>2, <2>1
  <2> QED BY <2>2, <2>3 DEF DialogFits
<1>4. \A a, b \in Dialogs' : b.id = a.id => SameDialog(a, b)
  <2> SUFFICES ASSUME NEW a \in Dialogs', NEW b \in Dialogs', b.id = a.id PROVE SameDialog(a, b)
    OBVIOUS
  <2>1. PICK x \in Dialogs : a.id = x.id /\ SameDialog(a, x)
    BY <1>1, <1>2
  <2>2. PICK y \in Dialogs : b.id = y.id /\ SameDialog(b, y)
    BY <1>1, <1>2
  <2>3. SameDialog(x, y)
    BY <2>1, <2>2 DEF DialogsInv
  <2> QED BY <2>1, <2>2, <2>3 DEF SameDialog
<1> QED BY <1>0, <1>1, <1>2, <1>3, <1>4 DEF DialogsInv, DialogsMove

LEMMA DialogOpens ==
    ASSUME DialogsInv, DeskFits, NEW on, NEW service, NEW version, OpenDialog(on, service, version),
           desk.page = "LETTERS" => on \in Letters,
           desk.page = "DISPUTE" => on \in Outcomes /\ \E row \in Shown : OffersDecision(row) /\ version = row.version
    PROVE  DialogsInv' /\ DialogsMove
<1>1. PICK n \in Nat : n = desk.ids + 1
  BY DEF DeskFits
<1>2. PICK new : new = [id |-> n, busy |-> FALSE, on |-> on, service |-> service, at |-> version]
  OBVIOUS
<1>3. desk' = [desk EXCEPT !.action = {new}, !.ids = n] /\ UNCHANGED <<acts, parked, dispute, listed, subject>>
  BY <1>1, <1>2 DEF OpenDialog
<1>4. desk'.action = {new} /\ desk'.ids = n /\ desk'.page = desk.page /\ desk.ids \in Nat /\ desk.ids < n
  BY <1>1, <1>3 DEF DeskFits
<1>5. \A a \in Dialogs' : a \in Dialogs \/ a = new
  BY <1>3, <1>4 DEF Dialogs
<1>6. \A a \in Dialogs : /\ a \in [id : 1 .. desk.ids, busy : BOOLEAN, on : {a.on}, service : {a.service}, at : {a.at}]
                         /\ a.id \in 1 .. n /\ a.id # n
  <2> SUFFICES ASSUME NEW a \in Dialogs
               PROVE  /\ a \in [id : 1 .. desk.ids, busy : BOOLEAN, on : {a.on}, service : {a.service}, at : {a.at}]
                      /\ a.id \in 1 .. n /\ a.id # n
    OBVIOUS
  <2>1. a \in [id : 1 .. desk.ids, busy : BOOLEAN, on : {a.on}, service : {a.service}, at : {a.at}]
    BY DEF DialogsInv, DialogFits
  <2>2. a.id \in 1 .. desk.ids
    BY <2>1
  <2> QED BY <1>1, <1>4, <2>1, <2>2
<1>7. new.id = n /\ new.on = on /\ new.at = version /\ SameDialog(new, new) /\ n \in 1 .. n
  BY <1>1, <1>2, <1>4 DEF SameDialog
<1>8. OpensAs(new)
  BY <1>1, <1>3, <1>7 DEF OpensAs
<1>9. \A a \in Dialogs' : DialogFits(a)'
  <2>1. DialogFits(new)'
    BY <1>2, <1>4, <1>7 DEF DialogFits
  <2>2. ASSUME NEW a \in Dialogs PROVE DialogFits(a)'
    <3>1. /\ a \in [id : 1 .. desk.ids, busy : BOOLEAN, on : {a.on}, service : {a.service}, at : {a.at}]
          /\ a.id \in 1 .. n
      BY <1>6
    <3> QED BY <1>4, <3>1 DEF DialogFits
  <2> QED BY <1>5, <2>1, <2>2
<1>10. \A a, b \in Dialogs' : b.id = a.id => SameDialog(a, b)
  BY <1>5, <1>6, <1>7 DEF DialogsInv
<1>11. \A act \in acts' : ActFits(act)'
  BY <1>3, <1>4 DEF DialogsInv, ActFits
<1>12. \A a \in Dialogs : SameDialog(a, a)
  BY DEF SameDialog
<1>13. \A a \in Dialogs' : (\E b \in Dialogs : b.id = a.id /\ SameDialog(a, b)) \/ OpensAs(a)
  BY <1>5, <1>8, <1>12
<1>14. desk'.ids \in Nat /\ desk.ids <= desk'.ids
  BY <1>4
<1> QED BY <1>9, <1>10, <1>11, <1>13, <1>14 DEF DialogsInv, DialogsMove

LEMMA BusyOrNot ==
    ASSUME DialogsInv, NEW b \in Dialogs
    PROVE  Busied(b, b) /\ \A v \in BOOLEAN : Busied([b EXCEPT !.busy = v], b)
<1>1. b \in [id : 1 .. desk.ids, busy : BOOLEAN, on : {b.on}, service : {b.service}, at : {b.at}]
  BY DEF DialogsInv, DialogFits
<1>2. b \in [id : {b.id}, busy : BOOLEAN, on : {b.on}, service : {b.service}, at : {b.at}]
  BY <1>1
<1> QED BY <1>2 DEF Busied

(* Dialogs and writes that only end.                                       *)
LEMMA DialogsEnd ==
    ASSUME DialogsInv, DeskFits, desk'.ids = desk.ids, desk'.page = desk.page,
           desk'.action \subseteq desk.action, acts' \subseteq acts
    PROVE  DialogsInv' /\ DialogsMove
<1>1. \A a \in desk'.action : \E b \in Dialogs : Busied(a, b)
  BY BusyOrNot DEF Dialogs
<1>2. \A x \in acts' : ActFits(x)'
  BY DEF DialogsInv, ActFits
<1>3. \A x \in acts' : \E b \in Dialogs : Busied(x.action, b)
  BY BusyOrNot DEF Dialogs
<1> QED BY <1>1, <1>2, <1>3, DialogsFollow

(* A write is replaced by one of the same dialog, or ends.                 *)
LEMMA WriteTurns ==
    ASSUME DialogsInv, DeskFits, desk'.ids = desk.ids, desk'.page = desk.page, NEW act \in acts,
           desk' = desk \/ desk' = Problem(act),
           \/ acts' = acts \ {act}
           \/ \E x : acts' = (acts \ {act}) \cup {x} /\ ActFits(x)' /\ x.action = act.action
    PROVE  DialogsInv' /\ DialogsMove
<1>1. ASSUME NEW a \in desk'.action PROVE \E b \in Dialogs : Busied(a, b)
  <2>1. CASE desk' = desk
    BY <2>1, BusyOrNot DEF Dialogs
  <2>2. CASE desk' = Problem(act)
    <3>1. desk'.action = {IF d.id = act.action.id THEN [d EXCEPT !.busy = FALSE] ELSE d : d \in desk.action}
      BY <2>2 DEF Problem, DeskFits
    <3>2. PICK d \in desk.action : a = d \/ a = [d EXCEPT !.busy = FALSE]
      BY <3>1
    <3> QED BY <3>2, BusyOrNot DEF Dialogs
  <2> QED BY <2>1, <2>2
<1>2. \A x \in acts : ActFits(x)' /\ \E b \in Dialogs : Busied(x.action, b)
  <2>1. \A x \in acts : ActFits(x)'
    BY DEF DialogsInv, ActFits
  <2>2. \A x \in acts : \E b \in Dialogs : Busied(x.action, b)
    BY BusyOrNot DEF Dialogs
  <2> QED BY <2>1, <2>2
<1>3. \A x \in acts' : ActFits(x)' /\ \E b \in Dialogs : Busied(x.action, b)
  BY <1>2
<1> QED BY <1>1, <1>3, DialogsFollow

LEMMA DialogConfirmed ==
    ASSUME DialogsInv, DeskFits, NEW action \in desk.action, NEW reason, ConfirmDialog(action, reason)
    PROVE  DialogsInv' /\ DialogsMove
<1> DEFINE new == [action |-> action, key |-> DecisionKey(action), reason |-> reason, phase |-> "SENT",
                   row |-> {}, wanted |-> TRUE]
<1>1. desk' = [desk EXCEPT !.action = {[action EXCEPT !.busy = TRUE]}] /\ acts' = acts \cup {new}
  BY DEF ConfirmDialog
<1>2. desk'.action = {[action EXCEPT !.busy = TRUE]} /\ desk'.ids = desk.ids /\ desk'.page = desk.page
  BY <1>1 DEF DeskFits
<1>3. action \in Dialogs
  BY DEF Dialogs
<1>4. \A a \in desk'.action : \E b \in Dialogs : Busied(a, b)
  BY <1>2, <1>3, BusyOrNot
<1>5. ActFits(new)' /\ new.action = action
  BY <1>2 DEF ActFits, DecisionKey
<1>6. \A x \in acts : ActFits(x)' /\ \E b \in Dialogs : Busied(x.action, b)
  <2>1. \A x \in acts : ActFits(x)'
    BY <1>2 DEF DialogsInv, ActFits
  <2>2. \A x \in acts : \E b \in Dialogs : Busied(x.action, b)
    BY BusyOrNot DEF Dialogs
  <2> QED BY <2>1, <2>2
<1> HIDE DEF new
<1>7. \A x \in acts' : ActFits(x)' /\ \E b \in Dialogs : Busied(x.action, b)
  BY <1>1, <1>3, <1>5, <1>6, BusyOrNot
<1> QED BY <1>2, <1>4, <1>7, DialogsFollow

(* A service serves a write.                                               *)
LEMMA WriteServed ==
    ASSUME DialogsInv, DeskFits, desk' = desk, NEW act \in acts,
           NEW phase \in {"OK", "REFUSED", "CHANGED"}, NEW row, Served(act, phase, row),
           phase = "CHANGED" => desk.page = "DISPUTE"
    PROVE  /\ DialogsInv' /\ DialogsMove
           /\ \A x \in acts' : \/ x \in acts
                               \/ x.phase = phase /\ x.row = row /\ x.action = act.action /\ x.reason = act.reason
<1>1. act \in [action : {act.action}, key : {act.key}, reason : {act.reason},
               phase : {"SENT", "OK", "REFUSED", "CHANGED"}, row : {act.row}, wanted : {act.wanted}]
  BY DEF DialogsInv, ActFits
<1>2. PICK x : x = [act EXCEPT !.phase = phase, !.row = row]
  OBVIOUS
<1>3. /\ x.phase = phase /\ x.row = row /\ x.action = act.action /\ x.reason = act.reason /\ x.key = act.key
      /\ x \in [action : {x.action}, key : {x.key}, reason : {x.reason},
                phase : {"SENT", "OK", "REFUSED", "CHANGED"}, row : {x.row}, wanted : {x.wanted}]
  BY <1>1, <1>2
<1>4. acts' = acts \ {act} \/ acts' = (acts \ {act}) \cup {x}
  BY <1>2 DEF Served
<1>5. ActFits(x)'
  <2>1. act.key = <<act.action.id, 0>>
    BY DEF DialogsInv, ActFits
  <2> QED BY <1>3, <2>1 DEF ActFits
<1> QED BY <1>3, <1>4, <1>5, WriteTurns

LEMMA DialogsStep == ASSUME ReadsInv, DialogsInv, DeskNext PROVE DialogsInv' /\ DialogsMove
<1>0. DeskFits
  BY DEF ReadsInv
<1>1. CASE desk' = desk /\ UNCHANGED acts
  BY <1>0, <1>1, DialogsEnd
<1>2. ASSUME NEW l \in loads, Settles(l) PROVE DialogsInv' /\ DialogsMove
  <2>1. desk'.action \subseteq desk.action /\ desk'.ids = desk.ids /\ desk'.page = desk.page /\ UNCHANGED acts
    BY <1>0, <1>2 DEF Settles, DeskFits
  <2> QED BY <1>0, <2>1, DialogsEnd
<1>3. CASE CancelDialog
  <2>1. desk'.action = {} /\ desk'.ids = desk.ids /\ desk'.page = desk.page /\ UNCHANGED acts
    BY <1>0, <1>3 DEF CancelDialog, DeskFits
  <2> QED BY <1>0, <2>1, DialogsEnd
<1>4. ASSUME NEW action \in desk.action, NEW reason, ConfirmDialog(action, reason) PROVE DialogsInv' /\ DialogsMove
  BY <1>0, <1>4, DialogConfirmed
<1>5. ASSUME NEW act \in acts, GivesUp(act) \/ Refused(act) PROVE DialogsInv' /\ DialogsMove
  <2>1. desk' = Problem(act)
    BY <1>5 DEF GivesUp, Refused
  <2>2. desk'.ids = desk.ids /\ desk'.page = desk.page
    BY <1>0, <2>1 DEF Problem, DeskFits
  <2>3. PICK x : x = [act EXCEPT !.wanted = FALSE]
    OBVIOUS
  <2>4. ActFits(x)' /\ x.action = act.action
    <3>1. act \in [action : {act.action}, key : {act.key}, reason : {act.reason},
                   phase : {"SENT", "OK", "REFUSED", "CHANGED"}, row : {act.row}, wanted : {act.wanted}]
      BY DEF DialogsInv, ActFits
    <3>2. /\ x \in [action : {x.action}, key : {x.key}, reason : {x.reason},
                    phase : {"SENT", "OK", "REFUSED", "CHANGED"}, row : {x.row}, wanted : {x.wanted}]
          /\ x.action = act.action /\ x.key = act.key /\ x.phase = act.phase /\ x.row = act.row
      BY <2>3, <3>1
    <3> QED BY <2>2, <3>2 DEF DialogsInv, ActFits
  <2>5. acts' = acts \ {act} \/ acts' = (acts \ {act}) \cup {x}
    BY <1>5, <2>3 DEF GivesUp, Refused
  <2> QED BY <1>0, <2>1, <2>2, <2>4, <2>5, WriteTurns
<1>6. ASSUME NEW act \in acts, Redriven(act) \/ Decided(act) \/ ChangedSince(act) \/ Acted(act)
      PROVE  DialogsInv' /\ DialogsMove
  <2>1. desk'.action \subseteq desk.action /\ desk'.ids = desk.ids /\ desk'.page = desk.page
    <3>1. CASE Redriven(act)
      BY <1>0, <3>1 DEF Redriven, DeskFits
    <3>2. CASE Decided(act)
      BY <1>0, <3>2 DEF Decided, DeskFits
    <3>3. CASE ChangedSince(act)
      BY <1>0, <3>3 DEF ChangedSince, DeskFits
    <3>4. CASE Acted(act)
      <4>1. PICK x, y : desk' = [desk EXCEPT !.action = {a \in @ : (a.on = 0) # (act.action.on = 0)},
                                               !.latest = x, !.notice = {y}]
        BY <3>4 DEF Acted
      <4>2. desk'.action = {a \in desk.action : (a.on = 0) # (act.action.on = 0)}
        BY <1>0, <4>1 DEF DeskFits
      <4>3. desk'.ids = desk.ids /\ desk'.page = desk.page
        BY <1>0, <4>1 DEF DeskFits
      <4> QED BY <4>2, <4>3
    <3> QED BY <1>6, <3>1, <3>2, <3>3, <3>4
  <2>2. acts' \subseteq acts
    BY <1>6 DEF Redriven, Decided, ChangedSince, Acted
  <2> QED BY <1>0, <2>1, <2>2, DialogsEnd
<1>7. ASSUME NEW act \in acts, redrive(act) \/ resolve(act) \/ ActOnAccount(act) PROVE DialogsInv' /\ DialogsMove
  <2>1. desk' = desk
    BY <1>7 DEF redrive, resolve, ActOnAccount
  <2>2. \E phase \in {"OK", "REFUSED", "CHANGED"} : \E row :
            Served(act, phase, row) /\ (phase = "CHANGED" => desk.page = "DISPUTE")
    <3>1. CASE redrive(act)
      BY <3>1 DEF redrive
    <3>2. CASE resolve(act)
      <4>1. \/ Served(act, "OK", {DisputeRow}) \/ Served(act, "REFUSED", {DisputeRow}) \/ Served(act, "CHANGED", {})
            \/ \E row : Served(act, "OK", row)
        BY <3>2 DEF resolve
      <4>2. desk.page = "DISPUTE"
        BY <3>2 DEF resolve
      <4> QED BY <4>1, <4>2
    <3>3. CASE ActOnAccount(act)
      BY <3>3 DEF ActOnAccount
    <3> QED BY <1>7, <3>1, <3>2, <3>3
  <2> QED BY <1>0, <2>1, <2>2, WriteServed
<1>8. CASE \/ \E service \in {"order", "credit"} : ChooseService(service)
           \/ \E status \in {"WAITING", "REDRIVEN", "ANY"} : Search(status)
           \/ \E n \in 1 .. Cardinality(Letters) : TurnLetters(n)
           \/ NextErrands \/ PreviousErrands
  <2>1. UNCHANGED acts /\ \/ \E x : desk' = [desk EXCEPT !.notice = x]
                          \/ \E x : desk' = [desk EXCEPT !.after = x]
                          \/ desk' = desk
    BY <1>8 DEF ChooseService, Search, TurnLetters, ShowLetters, NextErrands, PreviousErrands, Turn
  <2>2. desk'.action = desk.action /\ desk'.ids = desk.ids /\ desk'.page = desk.page
    BY <1>0, <2>1 DEF DeskFits
  <2> QED BY <1>0, <2>1, <2>2, DialogsEnd
<1>9. ASSUME NEW l \in Letters, AskRedrive(l) PROVE DialogsInv' /\ DialogsMove
  BY <1>0, <1>9, DialogOpens DEF AskRedrive
<1>10. ASSUME NEW outcome \in Outcomes, AskDecide(outcome) PROVE DialogsInv' /\ DialogsMove
  <2>1. PICK row \in Shown : OffersDecision(row) /\ OpenDialog(outcome, "order", row.version)
    BY <1>10 DEF AskDecide
  <2>2. desk.page = "DISPUTE"
    BY <1>10 DEF AskDecide
  <2> QED BY <1>0, <2>1, <2>2, DialogOpens
<1>11. ASSUME NEW what, AskAccount(what) PROVE DialogsInv' /\ DialogsMove
  BY <1>0, <1>11, DialogOpens DEF AskAccount
<1>12. ASSUME NEW r, NEW what, AskRequest(r, what) PROVE DialogsInv' /\ DialogsMove
  BY <1>0, <1>12, DialogOpens DEF AskRequest
<1>13. ASSUME NEW l, LoadServed(l) \/ LoadFails(l) PROVE desk' = desk /\ UNCHANGED acts
  BY <1>13 DEF LoadServed, LoadFails
<1>14. CASE \/ Refresh \/ DisputeChanges
            \/ \E l \in Letters : LettersChange(l)
            \/ \E what \in {"SUSPEND", "REACTIVATE", "ROLE", "APPROVE", "REJECT"} : AccountChanges(what)
            \/ \E s \in Slots : RetryAccount(s)
            \/ \E e \in Errands : ErrandsChange(e)
  <2>1. desk' = desk /\ UNCHANGED acts
    BY <1>14 DEF Refresh, DisputeChanges, LettersChange, AccountChanges, RetryAccount, ErrandsChange
  <2> QED BY <1>1, <2>1
<1> QED BY <1>1, <1>2, <1>3, <1>4, <1>5, <1>6, <1>7, <1>8, <1>9, <1>10, <1>11, <1>12, <1>13, <1>14 DEF DeskNext

(* The steps that change what the services hold, or tell something of it.  *)
Tells(act) ==
    redrive(act) \/ Redriven(act) \/ resolve(act) \/ Decided(act) \/ ChangedSince(act) \/ ActOnAccount(act) \/ Acted(act)

OtherHands ==
    \/ DisputeChanges \/ \E l \in Letters : LettersChange(l)
    \/ \E what \in {"SUSPEND", "REACTIVATE", "ROLE", "APPROVE", "REJECT"} : AccountChanges(what)

(* Every other step leaves that as it is.                                  *)
Quietly ==
    /\ UNCHANGED <<parked, dispute, subject>>
    /\ desk'.notice \subseteq desk.notice /\ desk'.changed = desk.changed /\ desk'.latest = desk.latest
    /\ \A x \in acts' : x \in acts \/ (x.row = {} /\ x.phase = "SENT")

LEMMA DeskSteps ==
    ASSUME ReadsInv, DialogsInv, DeskNext
    PROVE  Quietly \/ OtherHands \/ \E act \in acts : Tells(act)
<1>0. DeskFits
  BY DEF ReadsInv
<1>1. ASSUME UNCHANGED <<parked, dispute, subject, acts>>,
             \/ desk' = desk
             \/ \E x : desk' = [desk EXCEPT !.action = x]
             \/ desk' = [desk EXCEPT !.notice = {}]
             \/ \E x : desk' = [desk EXCEPT !.after = x]
             \/ \E x, y : desk' = [desk EXCEPT !.action = x, !.ids = y]
             \/ \E x, y, z : desk' = [desk EXCEPT !.action = x, !.after = y, !.seen = z]
      PROVE  Quietly
  BY <1>0, <1>1 DEF Quietly, DeskFits
<1>2. ASSUME NEW l \in loads, Settles(l) PROVE Quietly
  <2>1. desk'.notice = desk.notice /\ desk'.changed = desk.changed /\ desk'.latest = desk.latest
    BY <1>0, <1>2 DEF Settles, DeskFits
  <2> QED BY <1>2, <2>1 DEF Quietly, Settles
<1>3. ASSUME NEW action \in desk.action, NEW reason, ConfirmDialog(action, reason) PROVE Quietly
  <2>1. desk'.notice = desk.notice /\ desk'.changed = desk.changed /\ desk'.latest = desk.latest
    BY <1>0, <1>3 DEF ConfirmDialog, DeskFits
  <2> QED BY <1>3, <2>1 DEF Quietly, ConfirmDialog
<1>4. ASSUME NEW act \in acts, GivesUp(act) \/ Refused(act) PROVE Quietly
  <2>1. desk'.notice = desk.notice /\ desk'.changed = desk.changed /\ desk'.latest = desk.latest
    BY <1>0, <1>4 DEF GivesUp, Refused, Problem, DeskFits
  <2>2. PICK x : x = [act EXCEPT !.wanted = FALSE]
    OBVIOUS
  <2>3. act.phase = "SENT" => x.phase = "SENT" /\ x.row = {}
    <3>1. act \in [action : {act.action}, key : {act.key}, reason : {act.reason},
                   phase : {"SENT", "OK", "REFUSED", "CHANGED"}, row : {act.row}, wanted : {act.wanted}]
      BY DEF DialogsInv, ActFits
    <3>2. act.phase = "SENT" => act.row = {}
      BY DEF DialogsInv, ActFits
    <3> QED BY <2>2, <3>1, <3>2
  <2>4. acts' = acts \ {act} \/ (act.phase = "SENT" /\ acts' = (acts \ {act}) \cup {x})
    BY <1>4, <2>2 DEF GivesUp, Refused
  <2>5. UNCHANGED <<parked, dispute, subject>>
    BY <1>4 DEF GivesUp, Refused
  <2> QED BY <2>1, <2>3, <2>4, <2>5 DEF Quietly
<1>5. CASE \/ Refresh \/ CancelDialog
           \/ \E l \in loads : LoadServed(l) \/ LoadFails(l)
           \/ \E service \in {"order", "credit"} : ChooseService(service)
           \/ \E status \in {"WAITING", "REDRIVEN", "ANY"} : Search(status)
           \/ \E n \in 1 .. Cardinality(Letters) : TurnLetters(n)
           \/ \E s \in Slots : RetryAccount(s)
           \/ NextErrands \/ PreviousErrands
           \/ \E e \in Errands : ErrandsChange(e)
  <2>1. UNCHANGED <<parked, dispute, subject, acts>>
    BY <1>5 DEF Refresh, CancelDialog, LoadServed, LoadFails, ChooseService, Search, TurnLetters, ShowLetters,
                RetryAccount, NextErrands, PreviousErrands, Turn, ErrandsChange
  <2>2. \/ desk' = desk
        \/ \E x : desk' = [desk EXCEPT !.action = x]
        \/ desk' = [desk EXCEPT !.notice = {}]
        \/ \E x : desk' = [desk EXCEPT !.after = x]
    BY <1>5 DEF Refresh, CancelDialog, LoadServed, LoadFails, ChooseService, Search, TurnLetters, ShowLetters,
                RetryAccount, NextErrands, PreviousErrands, Turn, ErrandsChange
  <2> QED BY <1>1, <2>1, <2>2
<1>6. CASE \/ \E l \in Letters : AskRedrive(l)
           \/ \E outcome \in Outcomes : AskDecide(outcome)
           \/ \E what \in {"SUSPEND", "REACTIVATE", "ROLE"} : AskAccount(what)
           \/ \E r \in RequestsShown, what \in {"APPROVE", "REJECT"} : AskRequest(r, what)
  <2>1. \E on, service, version : OpenDialog(on, service, version)
    BY <1>6 DEF AskRedrive, AskDecide, AskAccount, AskRequest
  <2>2. (\E x, y : desk' = [desk EXCEPT !.action = x, !.ids = y]) /\ UNCHANGED <<parked, dispute, subject, acts>>
    BY <2>1 DEF OpenDialog
  <2> QED BY <1>1, <2>2
<1> QED BY <1>2, <1>3, <1>4, <1>5, <1>6 DEF DeskNext, OtherHands, Tells

(* A letter said to be redriven is, and nothing the page holds for what it *)
(* asks lists it as waiting.                                               *)
NotWaiting(n, d) == [letter |-> n, status |-> "WAITING"] \notin d.items

LettersInv ==
    desk.page = "LETTERS" =>
        /\ parked = [l \in Letters |-> parked[l]]
        /\ \A a \in Dialogs : a.on \in Letters
        /\ \A act \in acts : act.phase = "OK" => parked[act.action.on] = "REDRIVEN"
        /\ \A n \in desk.notice : /\ n \in Letters /\ parked[n] = "REDRIVEN"
                                  /\ \A s \in {"LIST", "FIGURE"} : \A d : HoldsNow(s, d) => NotWaiting(n, d)

LEMMA LettersRead ==
    ASSUME desk.page = "LETTERS", NEW l, NEW n \in Letters, parked[n] = "REDRIVEN"
    PROVE  NotWaiting(n, ReadOf(l))
<1>0. \A m, v : [letter |-> m, status |-> v] = [letter |-> n, status |-> "WAITING"] => m = n /\ v = "WAITING"
  <2> TAKE m, v
  <2>1. [letter |-> m, status |-> v].letter = m /\ [letter |-> m, status |-> v].status = v
    OBVIOUS
  <2> QED BY <2>1
<1>1. CASE l.slot = "FIGURE"
  <2>1. \A m \in Matching(FirstKey) : parked[m] = "WAITING"
    BY DEF Matching, FirstKey
  <2>2. ReadOf(l) = WaitingFigure
    BY <1>1 DEF ReadOf
  <2>3. WaitingFigure.items = {[letter |-> m, status |-> "WAITING"] : m \in Matching(FirstKey)}
    BY DEF WaitingFigure
  <2> QED BY <1>0, <2>1, <2>2, <2>3 DEF NotWaiting
<1>2. CASE l.slot # "FIGURE"
  <2>1. ReadOf(l) = ListLetters(l.request.key)
    BY <1>2 DEF ReadOf
  <2>2. PICK S : ListLetters(l.request.key).items = {[letter |-> m, status |-> parked[m]] : m \in S}
    BY DEF ListLetters
  <2> QED BY <1>0, <2>1, <2>2 DEF NotWaiting
<1> QED BY <1>1, <1>2

LEMMA LettersStep ==
    ASSUME ReadsInv, DialogsInv, LettersInv, DeskNext
    PROVE  LettersInv'
<1>0. DeskFits /\ desk'.page = desk.page /\ ReadsMove /\ DialogsMove
  BY ReadsStep, DialogsStep DEF ReadsInv, ReadsMove
<1> SUFFICES ASSUME desk.page = "LETTERS" PROVE LettersInv'
  BY <1>0 DEF LettersInv
<1>1. /\ parked = [l \in Letters |-> parked[l]]
      /\ \A a \in Dialogs : a.on \in Letters
      /\ \A act \in acts : act.phase = "OK" => parked[act.action.on] = "REDRIVEN"
      /\ \A n \in desk.notice : n \in Letters /\ parked[n] = "REDRIVEN"
      /\ \A n \in desk.notice, s \in {"LIST", "FIGURE"} : \A d : HoldsNow(s, d) => NotWaiting(n, d)
  BY DEF LettersInv
<1>2. \A a \in Dialogs' : a.on \in Letters
  BY <1>0, <1>1 DEF DialogsMove, SameDialog, OpensAs
<1>3. \A n \in desk.notice, s \in {"LIST", "FIGURE"} : \A d : HoldsNow(s, d)' => NotWaiting(n, d)
  <2> SUFFICES ASSUME NEW n \in desk.notice, NEW s \in {"LIST", "FIGURE"}, NEW d, HoldsNow(s, d)'
               PROVE  NotWaiting(n, d)
    OBVIOUS
  <2>1. CASE HoldsNow(s, d)
    BY <1>1, <2>1
  <2>2. CASE \E l \in loads : d = ReadOf(l)
    BY <1>1, <2>2, LettersRead
  <2> QED BY <1>0, <2>1, <2>2, SlotsKnown DEF ReadsMove, IsRead
<1>4. \A act \in acts : act.action \in Dialogs
  BY DEF Dialogs
<1>5. CASE UNCHANGED parked /\ desk'.notice \subseteq desk.notice /\ \A x \in acts' : x \in acts \/ x.phase # "OK"
  BY <1>0, <1>1, <1>2, <1>3, <1>5 DEF LettersInv
<1>6. CASE Quietly
  BY <1>5, <1>6 DEF Quietly
<1>7. ASSUME NEW l \in Letters, LettersChange(l) PROVE LettersInv'
  <2>1. PICK v : parked' = [parked EXCEPT ![l] = v]
    BY <1>7 DEF LettersChange
  <2>2. parked[l] # "REDRIVEN" /\ UNCHANGED <<desk, acts>>
    BY <1>7 DEF LettersChange
  <2>3. parked' = [m \in Letters |-> parked'[m]] /\ \A m \in Letters : parked[m] = "REDRIVEN" => parked'[m] = "REDRIVEN"
    BY <1>1, <2>1, <2>2
  <2> QED BY <1>0, <1>1, <1>2, <1>3, <1>4, <2>2, <2>3 DEF LettersInv
<1>8. ASSUME NEW act \in acts, redrive(act) PROVE LettersInv'
  <2>1. act.action.on \in Letters /\ desk' = desk
    BY <1>1, <1>4, <1>8 DEF redrive
  <2>2. \/ parked' = Stamped(act.action.on) /\ Served(act, "OK", {})
        \/ UNCHANGED parked /\ Served(act, "REFUSED", {})
    BY <1>8 DEF redrive
  <2>3. CASE parked' = Stamped(act.action.on) /\ Served(act, "OK", {})
    <3>1. /\ parked' = [m \in Letters |-> parked'[m]] /\ parked'[act.action.on] = "REDRIVEN"
          /\ \A m \in Letters : parked[m] = "REDRIVEN" => parked'[m] = "REDRIVEN"
      BY <1>1, <2>1, <2>3 DEF Stamped
    <3>2. \A x \in acts' : x \in acts \/ x.action = act.action
      BY <1>0, <2>1, <2>3, WriteServed
    <3>3. \A x \in acts' : x.phase = "OK" => parked'[x.action.on] = "REDRIVEN"
      BY <1>1, <1>4, <3>1, <3>2
    <3> QED BY <1>0, <1>1, <1>2, <1>3, <2>1, <3>1, <3>3 DEF LettersInv
  <2>4. CASE UNCHANGED parked /\ Served(act, "REFUSED", {})
    <3>1. \A x \in acts' : x \in acts \/ x.phase = "REFUSED"
      BY <1>0, <2>1, <2>4, WriteServed
    <3> QED BY <1>5, <2>1, <2>4, <3>1
  <2> QED BY <2>2, <2>3, <2>4
<1>9. ASSUME NEW act \in acts, Redriven(act) PROVE LettersInv'
  <2>1. act.action.on \in Letters /\ parked[act.action.on] = "REDRIVEN"
    BY <1>1, <1>4, <1>9 DEF Redriven
  <2>2. desk'.notice = {act.action.on} /\ UNCHANGED parked /\ acts' \subseteq acts
    BY <1>0, <1>9 DEF Redriven, DeskFits
  <2>3. \A d : ~HoldsNow("LIST", d)' /\ ~HoldsNow("FIGURE", d)'
    BY <1>9, DeskAnswers
  <2> QED BY <1>0, <1>1, <1>2, <2>1, <2>2, <2>3 DEF LettersInv
<1>10. ASSUME NEW act \in acts, Tells(act) PROVE redrive(act) \/ Redriven(act)
  BY <1>10 DEF Tells, resolve, Decided, ChangedSince, ActOnAccount, Acted, DialogsInv, ActFits
<1>11. OtherHands => \E l \in Letters : LettersChange(l)
  BY DEF OtherHands, DisputeChanges, AccountChanges
<1> QED BY <1>6, <1>7, <1>8, <1>9, <1>10, <1>11, DeskSteps

SubjectFits ==
    /\ subject \in [status : {subject.status}, admin : {subject.admin}, asked : Nat, open : {subject.open}, records : Nat]
    /\ \A r \in subject.open : r.id \in 1 .. subject.asked

(* What an answer says was done is done: a closed request never opens      *)
(* again, since each has an ID of its own.                                 *)
Stands(t) ==
    /\ t.record \in 0 .. subject.records
    /\ \A r \in t.closed : r \notin subject.open /\ r.id \in 1 .. subject.asked
    /\ \A r \in t.opened : r.id \in 1 .. subject.asked

(* What the page holds for what it asks is no older.                       *)
ShownAfter(t) ==
    /\ \A d : HoldsNow("LIST", d) => t.record <= d.records
    /\ \A d : HoldsNow("FIGURE", d) => t.closed \cap d.open = {} /\ t.opened \cap subject.open \subseteq d.open

AccountInv ==
    desk.page = "ACCOUNT" =>
        /\ SubjectFits
        /\ \A t \in desk.notice : Stands(t) /\ ShownAfter(t)
        /\ \A act \in acts : act.phase = "OK" => \A t \in act.row : Stands(t)

(* How an account and its requests may change.                             *)
SubjectMoves ==
    \/ subject' = subject
    \/ /\ SubjectFits' /\ subject'.records = subject.records + 1
       /\ subject'.asked >= subject.asked
       /\ \A r \in subject'.open : r \in subject.open \/ r.id = subject.asked + 1

LEMMA SubjectChanges ==
    ASSUME SubjectFits, NEW what, NEW want, NEW by, subject' = SubjectAfter(what, want, by)
    PROVE  SubjectMoves
<1>0. subject.asked \in Nat /\ subject.records \in Nat
  BY DEF SubjectFits
<1> DEFINE new == [id |-> subject.asked + 1, by |-> by, want |-> want]
<1>1. PICK n : n = subject.records + 1
  OBVIOUS
<1>2. PICK m : m = subject.asked + 1
  OBVIOUS
<1>3. PICK row : row = [subject EXCEPT !.records = @ + 1]
  OBVIOUS
<1>4. row = [status |-> subject.status, admin |-> subject.admin, asked |-> subject.asked,
             open |-> subject.open, records |-> n]
  BY <1>1, <1>3 DEF SubjectFits
<1>5. \/ subject' = [row EXCEPT !.status = "SUSPENDED"]
      \/ subject' = [row EXCEPT !.status = "ACTIVE"]
      \/ subject' = [row EXCEPT !.asked = @ + 1, !.open = {new}]
      \/ subject' = [row EXCEPT !.admin = want, !.open = {}]
      \/ subject' = [row EXCEPT !.open = {}]
  BY <1>3 DEF SubjectAfter
<1>6. new.id = m
  BY <1>2
<1> HIDE DEF new
<1>7. /\ subject' \in [status : {subject'.status}, admin : {subject'.admin}, asked : {subject'.asked},
                       open : {subject'.open}, records : {n}]
      /\ \/ subject'.asked = subject.asked /\ subject'.open \subseteq subject.open
         \/ subject'.asked = m /\ subject'.open = {new}
  <2>1. CASE subject' = [row EXCEPT !.asked = @ + 1, !.open = {new}]
    <3>1. subject' = [status |-> subject.status, admin |-> subject.admin, asked |-> m, open |-> {new}, records |-> n]
      BY <1>2, <1>4, <2>1
    <3> QED BY <3>1
  <2>2. CASE subject' = [row EXCEPT !.status = "SUSPENDED"] \/ subject' = [row EXCEPT !.status = "ACTIVE"]
    <3>1. PICK status : subject' = [row EXCEPT !.status = status]
      BY <2>2
    <3>2. subject' = [status |-> status, admin |-> subject.admin, asked |-> subject.asked, open |-> subject.open,
                      records |-> n]
      BY <1>4, <3>1
    <3> QED BY <3>2
  <2>3. CASE subject' = [row EXCEPT !.admin = want, !.open = {}]
    <3>1. subject' = [status |-> subject.status, admin |-> want, asked |-> subject.asked, open |-> {}, records |-> n]
      BY <1>4, <2>3
    <3> QED BY <3>1
  <2>4. CASE subject' = [row EXCEPT !.open = {}]
    <3>1. subject' = [status |-> subject.status, admin |-> subject.admin, asked |-> subject.asked, open |-> {},
                      records |-> n]
      BY <1>4, <2>4
    <3> QED BY <3>1
  <2> QED BY <1>5, <2>1, <2>2, <2>3, <2>4
<1>8. m \in Nat /\ n \in Nat /\ subject.asked \in 0 .. m
  BY <1>0, <1>1, <1>2
<1>9. /\ subject'.asked \in Nat /\ subject'.asked >= subject.asked
      /\ \A r \in subject'.open : r.id \in 1 .. subject'.asked /\ (r \in subject.open \/ r.id = m)
  <2>1. \A r \in subject.open : r.id \in 1 .. subject.asked
    BY DEF SubjectFits
  <2>2. CASE subject'.asked = subject.asked /\ subject'.open \subseteq subject.open
    BY <1>0, <2>1, <2>2
  <2>3. CASE subject'.asked = m /\ subject'.open = {new}
    <3>1. m \in 1 .. m
      BY <1>0, <1>2
    <3> QED BY <1>6, <1>8, <2>3, <3>1
  <2> QED BY <1>7, <2>2, <2>3
<1>10. SubjectFits' /\ subject'.records = n
  BY <1>7, <1>8, <1>9 DEF SubjectFits
<1> QED BY <1>1, <1>2, <1>9, <1>10 DEF SubjectMoves

LEMMA StillStands ==
    ASSUME SubjectFits, SubjectMoves, NEW t, Stands(t)
    PROVE  /\ SubjectFits' /\ Stands(t)'
           /\ t.opened \cap subject'.open \subseteq t.opened \cap subject.open
<1>1. CASE subject' = subject
  BY <1>1 DEF SubjectFits, Stands
<1>2. CASE subject' # subject
  <2>1. /\ SubjectFits' /\ subject'.records = subject.records + 1 /\ subject'.asked >= subject.asked
        /\ \A r \in subject'.open : r \in subject.open \/ r.id = subject.asked + 1
    BY <1>2 DEF SubjectMoves
  <2>2. subject.asked \in Nat /\ subject.records \in Nat /\ subject'.asked \in Nat
    BY <2>1 DEF SubjectFits
  <2>3. t.record \in 0 .. subject'.records
    BY <2>1, <2>2 DEF Stands
  <2>4. \A r \in t.closed : r \notin subject'.open /\ r.id \in 1 .. subject'.asked
    BY <2>1, <2>2 DEF Stands
  <2>5. \A r \in t.opened : r.id \in 1 .. subject'.asked /\ r.id # subject.asked + 1
    BY <2>1, <2>2 DEF Stands
  <2> QED BY <2>1, <2>3, <2>4, <2>5 DEF Stands
<1> QED BY <1>1, <1>2

LEMMA AnswerStands ==
    ASSUME SubjectFits, SubjectMoves, NEW what, NEW t, t = AccountAnswer(what, subject')
    PROVE  Stands(t)'
<1>1. /\ t.record = IF subject' = subject THEN 0 ELSE subject'.records
      /\ t.closed = subject.open \ subject'.open /\ t.opened = subject'.open \ subject.open
  BY DEF AccountAnswer
<1>2. SubjectFits' /\ subject'.asked >= subject.asked /\ subject.asked \in Nat
  BY DEF SubjectMoves, SubjectFits
<1>3. subject'.records \in Nat /\ subject'.asked \in Nat
  BY <1>2 DEF SubjectFits
<1>4. t.record \in 0 .. subject'.records
  BY <1>1, <1>3
<1>5. \A r \in subject.open : r.id \in 1 .. subject'.asked
  BY <1>2, <1>3 DEF SubjectFits
<1>6. \A r \in subject'.open : r.id \in 1 .. subject'.asked
  BY <1>2 DEF SubjectFits
<1>7. \A r \in t.closed : r \notin subject'.open /\ r.id \in 1 .. subject'.asked
  BY <1>1, <1>5
<1>8. \A r \in t.opened : r.id \in 1 .. subject'.asked
  BY <1>1, <1>6
<1> QED BY <1>4, <1>7, <1>8 DEF Stands

LEMMA AccountRead ==
    ASSUME desk.page = "ACCOUNT", SubjectFits, NEW t, Stands(t), NEW l
    PROVE  /\ l.slot = "LIST" => t.record <= ReadOf(l).records
           /\ l.slot = "FIGURE" => /\ t.closed \cap ReadOf(l).open = {}
                                   /\ t.opened \cap subject.open \subseteq ReadOf(l).open
<1>1. ReadOf(l) = ReadAccount(l.slot)
  BY DEF ReadOf
<1>2. t.record <= subject.records
  BY DEF Stands, SubjectFits
<1>3. t.closed \cap subject.open = {}
  BY DEF Stands
<1> QED BY <1>1, <1>2, <1>3 DEF ReadAccount

LEMMA StillShown ==
    ASSUME desk.page = "ACCOUNT", ReadsMove, SubjectFits, SubjectMoves, NEW t, Stands(t), ShownAfter(t)
    PROVE  Stands(t)' /\ ShownAfter(t)'
<1>1. ASSUME NEW d, HoldsNow("LIST", d)' PROVE t.record <= d.records
  <2>1. HoldsNow("LIST", d) \/ \E l \in loads : l.slot = "LIST" /\ d = ReadOf(l)
    BY <1>1, SlotsKnown DEF ReadsMove, IsRead
  <2> QED BY <2>1, AccountRead DEF ShownAfter
<1>2. ASSUME NEW d, HoldsNow("FIGURE", d)'
      PROVE  t.closed \cap d.open = {} /\ t.opened \cap subject.open \subseteq d.open
  <2>1. HoldsNow("FIGURE", d) \/ \E l \in loads : l.slot = "FIGURE" /\ d = ReadOf(l)
    BY <1>2, SlotsKnown DEF ReadsMove, IsRead
  <2> QED BY <2>1, AccountRead DEF ShownAfter
<1>3. Stands(t)' /\ t.opened \cap subject'.open \subseteq t.opened \cap subject.open
  BY StillStands
<1> QED BY <1>1, <1>2, <1>3 DEF ShownAfter

LEMMA AccountStep ==
    ASSUME ReadsInv, DialogsInv, AccountInv, DeskNext
    PROVE  AccountInv'
<1>0. DeskFits /\ desk'.page = desk.page /\ ReadsMove
  BY ReadsStep DEF ReadsInv, ReadsMove
<1> SUFFICES ASSUME desk.page = "ACCOUNT" PROVE AccountInv'
  BY <1>0 DEF AccountInv
<1>1. /\ SubjectFits
      /\ \A t \in desk.notice : Stands(t) /\ ShownAfter(t)
      /\ \A act \in acts : act.phase = "OK" => \A t \in act.row : Stands(t)
  BY DEF AccountInv
<1>2. ASSUME SubjectMoves
      PROVE  /\ SubjectFits'
             /\ \A t \in desk.notice : Stands(t)' /\ ShownAfter(t)'
             /\ \A act \in acts : act.phase = "OK" => \A t \in act.row : Stands(t)'
  <2>1. SubjectFits'
    BY <1>1, <1>2 DEF SubjectMoves, SubjectFits
  <2>2. \A t \in desk.notice : Stands(t)' /\ ShownAfter(t)'
    BY <1>0, <1>1, <1>2, StillShown
  <2>3. \A act \in acts : act.phase = "OK" => \A t \in act.row : Stands(t)'
    BY <1>1, <1>2, StillStands
  <2> QED BY <2>1, <2>2, <2>3
<1>3. ASSUME SubjectMoves, desk'.notice \subseteq desk.notice,
             \A x \in acts' : x.phase = "OK" => x \in acts \/ \A t \in x.row : Stands(t)'
      PROVE  AccountInv'
  BY <1>0, <1>2, <1>3 DEF AccountInv
<1>4. CASE Quietly
  <2>1. \A x \in acts' : x.phase = "OK" => x \in acts
    BY <1>4 DEF Quietly
  <2>2. SubjectMoves /\ desk'.notice \subseteq desk.notice
    BY <1>4 DEF Quietly, SubjectMoves
  <2> QED BY <1>3, <2>1, <2>2
<1>5. ASSUME NEW what, AccountChanges(what) PROVE AccountInv'
  <2>1. PICK want : subject' = SubjectAfter(what, want, "OTHER")
    BY <1>5 DEF AccountChanges
  <2>2. SubjectMoves
    BY <1>1, <2>1, SubjectChanges
  <2>3. UNCHANGED <<desk, acts>>
    BY <1>5 DEF AccountChanges
  <2> QED BY <1>3, <2>2, <2>3
<1>6. ASSUME NEW act \in acts, ActOnAccount(act) PROVE AccountInv'
  <2>1. desk' = desk
    BY <1>6 DEF ActOnAccount
  <2>2. subject' = SubjectAfter(act.action.service, act.action.at, "ME") \/ subject' = subject
    BY <1>6 DEF ActOnAccount
  <2>3. SubjectMoves
    BY <1>1, <2>2, SubjectChanges DEF SubjectMoves
  <2>4. PICK t : t = AccountAnswer(act.action.service, subject')
    OBVIOUS
  <2>5. Stands(t)'
    BY <1>1, <2>3, <2>4, AnswerStands
  <2>6. Served(act, "OK", {t}) \/ Served(act, "REFUSED", {})
    BY <1>6, <2>4 DEF ActOnAccount
  <2>7. \A x \in acts' : x \in acts \/ x.row = {t} \/ x.row = {}
    BY <1>0, <2>1, <2>6, WriteServed
  <2> QED BY <1>3, <2>1, <2>3, <2>5, <2>7
<1>7. ASSUME NEW act \in acts, Acted(act) PROVE AccountInv'
  <2>1. PICK t \in act.row : desk' = [desk EXCEPT !.action = {a \in @ : (a.on = 0) # (act.action.on = 0)},
                                                   !.latest = IF t.account # {} THEN t.account ELSE @,
                                                   !.notice = {t}]
    BY <1>7 DEF Acted
  <2>2. desk'.notice = {t}
    BY <1>0, <2>1 DEF DeskFits
  <2>3. UNCHANGED subject /\ acts' \subseteq acts /\ act.phase = "OK"
    BY <1>7 DEF Acted
  <2>4. SubjectMoves
    BY <2>3 DEF SubjectMoves
  <2>5. Stands(t)'
    BY <1>2, <2>1, <2>3, <2>4
  <2>6. \A d : ~HoldsNow("LIST", d)' /\ ~HoldsNow("FIGURE", d)'
    BY <1>7, DeskAnswers
  <2>7. ShownAfter(t)'
    BY <2>6 DEF ShownAfter
  <2> QED BY <1>0, <1>2, <2>2, <2>3, <2>4, <2>5, <2>7 DEF AccountInv
<1>8. ASSUME NEW act \in acts, Tells(act) PROVE ActOnAccount(act) \/ Acted(act)
  BY <1>8 DEF Tells, resolve, Decided, ChangedSince, redrive, Redriven, DialogsInv, ActFits
<1>9. OtherHands => \E what : AccountChanges(what)
  BY DEF OtherHands, DisputeChanges, LettersChange
<1> QED BY <1>4, <1>5, <1>6, <1>7, <1>8, <1>9, DeskSteps

DisputeFits ==
    dispute \in [version : Nat, status : {"DISPUTED", "COMPLETION_PENDING_CREDIT", "RELEASE_PENDING_CREDIT"},
                 mine : BOOLEAN, recorded : {dispute.recorded}]

(* A row the page was given is an older one, or the row there is.          *)
RowStands(row) ==
    /\ row.version \in 0 .. dispute.version
    /\ row.version = dispute.version => row.status = dispute.status /\ (row.status = "DISPUTED" => dispute.mine)

(* A dialog opened on the row there is may still be decided.               *)
DialogStands(a) ==
    /\ a.on \in Outcomes /\ a.at \in 0 .. dispute.version
    /\ a.at = dispute.version => dispute.mine /\ dispute.status = "DISPUTED"

RecordStands(r) ==
    /\ r.key[1] \in 1 .. desk.ids /\ r.key = <<r.key[1], 0>> /\ dispute.status # "DISPUTED"
    /\ \A a \in Dialogs : a.id = r.key[1] => dispute.status = StatusAfter(a.on)

(* A decision answered with a conflict: it is not recorded, and what it    *)
(* was asked on is past.                                                   *)
Passed(id) ==
    /\ id \in 1 .. desk.ids
    /\ \A r \in dispute.recorded : r.key[1] # id
    /\ \A a \in Dialogs : a.id = id => a.at < dispute.version

WriteStands(act) ==
    /\ \A row \in act.row : RowStands(row)
    /\ act.phase = "OK" => dispute.status = StatusAfter(act.action.on)
    /\ act.phase = "CHANGED" => Passed(act.action.id)

DisputeInv ==
    desk.page = "DISPUTE" =>
        /\ DisputeFits
        /\ \A d : EverHeld(d) => RowStands(d)
        /\ \A row \in desk.latest : RowStands(row)
        /\ \A a \in Dialogs : DialogStands(a)
        /\ \A r \in dispute.recorded : RecordStands(r)
        /\ \A act \in acts : WriteStands(act)
        /\ \A outcome \in desk.notice : dispute.status = StatusAfter(outcome)
        /\ \A id \in desk.changed : Passed(id)

(* A decision is asked on a row that is shown.                             *)
LEMMA DialogStandsAsOpened ==
    ASSUME desk.page = "DISPUTE", DisputeInv, NEW a, OpensAs(a)
    PROVE  DialogStands(a)
<1>1. PICK row \in Shown : OffersDecision(row) /\ a.at = row.version
  BY DEF OpensAs
<1>2. RowStands(row)
  BY DEF Shown, DataOf, EverHeld, DisputeInv
<1>3. a.on \in Outcomes /\ row.status = "DISPUTED"
  BY <1>1 DEF OpensAs, OffersDecision
<1>4. row.version \in 0 .. dispute.version
  BY <1>2 DEF RowStands
<1>5. row.version = dispute.version => dispute.mine /\ dispute.status = "DISPUTED"
  <2> HAVE row.version = dispute.version
  <2>1. row.status = dispute.status /\ (row.status = "DISPUTED" => dispute.mine)
    BY <1>2 DEF RowStands
  <2> QED BY <1>3, <2>1
<1> QED BY <1>1, <1>3, <1>4, <1>5 DEF DialogStands

(* The row is as it was.                                                   *)
LEMMA DialogsStay ==
    ASSUME desk.page = "DISPUTE", DeskFits, DialogsMove, DisputeInv, UNCHANGED dispute
    PROVE  /\ \A a \in Dialogs' : DialogStands(a)'
           /\ \A r \in dispute.recorded : RecordStands(r)'
           /\ \A id : Passed(id) => Passed(id)'
<1>0. desk.ids \in Nat /\ desk'.ids \in Nat /\ desk.ids <= desk'.ids
  BY DEF DeskFits, DialogsMove
<1>1. ASSUME NEW a \in Dialogs', NEW b \in Dialogs, b.id = a.id, SameDialog(a, b)
      PROVE  a.on = b.on /\ a.at = b.at
  BY <1>1 DEF SameDialog
<1>2. \A a \in Dialogs' : \/ a.id = desk.ids + 1 /\ DialogStands(a)
                          \/ \E b \in Dialogs : b.id = a.id /\ a.on = b.on /\ a.at = b.at
  <2> SUFFICES ASSUME NEW a \in Dialogs', ~\E b \in Dialogs : b.id = a.id /\ SameDialog(a, b)
               PROVE  a.id = desk.ids + 1 /\ DialogStands(a)
    BY <1>1
  <2>1. OpensAs(a)
    BY DEF DialogsMove
  <2> QED BY <2>1, DialogStandsAsOpened DEF OpensAs
<1>3. \A a \in Dialogs' : DialogStands(a)'
  BY <1>2 DEF DialogStands, DisputeInv
<1>4. ASSUME NEW r \in dispute.recorded PROVE RecordStands(r)'
  <2>1. RecordStands(r)
    BY DEF DisputeInv
  <2>2. r.key[1] \in 1 .. desk'.ids /\ r.key[1] # desk.ids + 1
    BY <1>0, <2>1 DEF RecordStands
  <2> QED BY <1>2, <2>1, <2>2 DEF RecordStands
<1>5. ASSUME NEW id, Passed(id) PROVE Passed(id)'
  <2>1. id \in 1 .. desk'.ids /\ id # desk.ids + 1
    BY <1>0, <1>5 DEF Passed
  <2> QED BY <1>2, <1>5, <2>1 DEF Passed
<1> QED BY <1>3, <1>4, <1>5

LEMMA DisputeStays ==
    ASSUME desk.page = "DISPUTE", DeskFits, ReadsMove, DialogsMove, DisputeInv, UNCHANGED dispute,
           \A row \in desk'.latest : RowStands(row),
           \A act \in acts' : act \in acts \/ WriteStands(act),
           \A outcome \in desk'.notice : dispute.status = StatusAfter(outcome),
           \A id \in desk'.changed : Passed(id)
    PROVE  DisputeInv'
<1>1. /\ \A a \in Dialogs' : DialogStands(a)'
      /\ \A r \in dispute.recorded : RecordStands(r)'
      /\ \A id : Passed(id) => Passed(id)'
  BY DialogsStay
<1>2. \A row : RowStands(row)' <=> RowStands(row)
  BY DEF RowStands
<1>3. ASSUME NEW d, EverHeld(d)' PROVE RowStands(d)
  <2>1. CASE EverHeld(d)
    BY <2>1 DEF DisputeInv
  <2>2. CASE \E l \in loads : IsRead(d, l)
    <3>1. d = DisputeRow /\ dispute.mine
      BY <2>2 DEF IsRead, ReadOf
    <3>2. dispute.version \in Nat
      BY DEF DisputeInv, DisputeFits
    <3> QED BY <3>1, <3>2 DEF DisputeRow, RowStands
  <2> QED BY <1>3, <2>1, <2>2 DEF ReadsMove
<1>4. \A act \in acts' : WriteStands(act)
  BY DEF DisputeInv
<1>5. \A act \in acts' : WriteStands(act)'
  BY <1>1, <1>2, <1>4 DEF WriteStands
<1>6. DisputeFits'
  BY DEF DisputeInv, DisputeFits
<1> QED BY <1>1, <1>2, <1>3, <1>5, <1>6 DEF DisputeInv

(* While the errand is disputed no decision is recorded, nor was any told. *)
LEMMA Undecided ==
    ASSUME desk.page = "DISPUTE", DisputeInv, dispute.status = "DISPUTED"
    PROVE  /\ dispute.recorded = {} /\ desk.notice = {}
           /\ \A act \in acts : act.phase # "OK"
<1>1. \A outcome : StatusAfter(outcome) # "DISPUTED"
  BY DEF StatusAfter
<1> QED BY <1>1 DEF DisputeInv, RecordStands, WriteStands

(* The row of a disputed errand is written: everything that was shown or   *)
(* asked on it is past.                                                    *)
LEMMA DisputeRaised ==
    ASSUME desk.page = "DISPUTE", DeskFits, ReadsMove, DialogsMove, DisputeInv, desk' = desk,
           dispute.status = "DISPUTED", DisputeFits', dispute'.version = dispute.version + 1,
           \A r \in dispute'.recorded : RecordStands(r)',
           \A id : Passed(id) => \A r \in dispute'.recorded : r.key[1] # id,
           \A act \in acts' : act \in acts \/ WriteStands(act)'
    PROVE  DisputeInv'
<1>0. dispute.version \in Nat
  BY DEF DisputeInv, DisputeFits
<1>1. ASSUME NEW d, RowStands(d) PROVE RowStands(d)'
  BY <1>0, <1>1 DEF RowStands
<1>2. \A d : EverHeld(d)' => RowStands(d)'
  BY <1>0, <1>1 DEF ReadsMove, IsRead, DisputeInv
<1>3. \A a \in Dialogs' : \E b \in Dialogs : b.id = a.id /\ a.on = b.on /\ a.at = b.at
  BY <1>0 DEF DialogsMove, OpensAs, SameDialog
<1>4. ASSUME NEW a \in Dialogs' PROVE DialogStands(a)' /\ a.at < dispute'.version
  <2>1. PICK b \in Dialogs : b.id = a.id /\ a.on = b.on /\ a.at = b.at
    BY <1>3
  <2>2. b.on \in Outcomes /\ b.at \in 0 .. dispute.version
    BY DEF DisputeInv, DialogStands
  <2> QED BY <1>0, <2>1, <2>2 DEF DialogStands
<1>5. ASSUME NEW id, Passed(id) PROVE Passed(id)'
  BY <1>4, <1>5 DEF Passed
<1>6. desk.notice = {} /\ \A act \in acts : act.phase # "OK"
  BY Undecided
<1>7. \A act \in acts : WriteStands(act)'
  BY <1>1, <1>5, <1>6 DEF WriteStands, DisputeInv
<1>8. \A row \in desk'.latest : RowStands(row)'
  BY <1>1 DEF DisputeInv
<1>9. \A id \in desk'.changed : Passed(id)'
  BY <1>5 DEF DisputeInv
<1> QED BY <1>2, <1>4, <1>6, <1>7, <1>8, <1>9 DEF DisputeInv

LEMMA DisputeMoves ==
    ASSUME ReadsInv, DialogsInv, DisputeInv, ReadsMove, DialogsMove, DisputeChanges
    PROVE  DisputeInv'
<1>0. /\ DeskFits /\ desk.page = "DISPUTE" /\ dispute.status = "DISPUTED" /\ UNCHANGED <<desk, acts>>
      /\ dispute.version \in Nat /\ dispute.recorded = {}
  BY Undecided DEF ReadsInv, DisputeChanges, DisputeInv, DisputeFits
<1>1. DisputeFits' /\ dispute'.version = dispute.version + 1 /\ dispute'.recorded = {}
  <2>1. PICK n \in Nat : n = dispute.version + 1
    BY <1>0
  <2>2. \/ \E m \in BOOLEAN : dispute' = [dispute EXCEPT !.version = n, !.mine = m]
        \/ \E s \in {"COMPLETION_PENDING_CREDIT", "RELEASE_PENDING_CREDIT"} :
               dispute' = [dispute EXCEPT !.version = n, !.status = s]
    <3>1. \A outcome : StatusAfter(outcome) \in {"COMPLETION_PENDING_CREDIT", "RELEASE_PENDING_CREDIT"}
      BY DEF StatusAfter
    <3>2. CASE dispute' = [dispute EXCEPT !.version = @ + 1, !.mine = ~@]
      BY <2>1, <3>2
    <3>3. CASE \E outcome \in Outcomes : dispute' = [dispute EXCEPT !.version = @ + 1, !.status = StatusAfter(outcome)]
      BY <2>1, <3>1, <3>3
    <3> QED BY <3>2, <3>3 DEF DisputeChanges
  <2>3. dispute \in [version : Nat, status : {"DISPUTED", "COMPLETION_PENDING_CREDIT", "RELEASE_PENDING_CREDIT"},
                     mine : BOOLEAN, recorded : {{}}]
    BY <1>0 DEF DisputeInv, DisputeFits
  <2>4. CASE \E m \in BOOLEAN : dispute' = [dispute EXCEPT !.version = n, !.mine = m]
    BY <2>1, <2>3, <2>4 DEF DisputeFits
  <2>5. CASE \E s \in {"COMPLETION_PENDING_CREDIT", "RELEASE_PENDING_CREDIT"} :
               dispute' = [dispute EXCEPT !.version = n, !.status = s]
    BY <2>1, <2>3, <2>5 DEF DisputeFits
  <2> QED BY <2>2, <2>4, <2>5
<1> QED BY <1>0, <1>1, DisputeRaised

LEMMA DisputeResolved ==
    ASSUME ReadsInv, DialogsInv, DisputeInv, ReadsMove, DialogsMove, NEW act \in acts, resolve(act)
    PROVE  DisputeInv'
<1>0. /\ DeskFits /\ desk.page = "DISPUTE" /\ desk' = desk /\ dispute.version \in Nat
      /\ act.key = <<act.action.id, 0>> /\ act.action.id \in 1 .. desk.ids /\ act.action \in Dialogs
  BY DEF ReadsInv, resolve, DisputeInv, DisputeFits, DialogsInv, ActFits, DialogFits, Dialogs
<1>1. ASSUME NEW phase \in {"OK", "REFUSED", "CHANGED"}, NEW rows, Served(act, phase, rows), UNCHANGED dispute,
             \A row \in rows : RowStands(row),
             phase = "OK" => dispute.status = StatusAfter(act.action.on),
             phase = "CHANGED" => Passed(act.action.id)
      PROVE  DisputeInv'
  <2>1. \A x \in acts' : \/ x \in acts
                         \/ x.phase = phase /\ x.row = rows /\ x.action = act.action
    BY <1>0, <1>1, WriteServed
  <2>2. \A x \in acts' : x \in acts \/ WriteStands(x)
    BY <1>1, <2>1 DEF WriteStands
  <2>3. /\ \A row \in desk.latest : RowStands(row)
        /\ \A outcome \in desk.notice : dispute.status = StatusAfter(outcome)
        /\ \A id \in desk.changed : Passed(id)
    BY <1>0 DEF DisputeInv
  <2> QED BY <1>0, <1>1, <2>2, <2>3, DisputeStays
<1>2. CASE RecordedUnder(act) # {}
  <2>1. PICK r \in dispute.recorded : r.key = act.key
    BY <1>2 DEF RecordedUnder
  <2>2. RecordStands(r)
    BY <1>0 DEF DisputeInv
  <2>3. dispute.status # "DISPUTED" /\ dispute.status = StatusAfter(act.action.on)
    BY <1>0, <2>1, <2>2 DEF RecordStands
  <2>4. RowStands(DisputeRow)
    BY <1>0, <2>3 DEF RowStands, DisputeRow
  <2>5. UNCHANGED dispute /\ (Served(act, "OK", {DisputeRow}) \/ Served(act, "REFUSED", {DisputeRow}))
    BY <1>2 DEF resolve
  <2> QED BY <1>1, <2>3, <2>4, <2>5
<1>3. CASE RecordedUnder(act) = {} /\ ~MayDecide(act)
  <2>1. act.action.at # dispute.version
    BY <1>0, <1>3 DEF DisputeInv, DialogStands, MayDecide
  <2>2. \A r \in dispute.recorded : r.key[1] # act.action.id
    BY <1>0, <1>3 DEF RecordedUnder, DisputeInv, RecordStands
  <2>3. \A a \in Dialogs : a.id = act.action.id => a.at < dispute.version
    <3>1. \A a \in Dialogs : a.id = act.action.id => a.at = act.action.at
      BY <1>0 DEF DialogsInv, SameDialog
    <3>2. act.action.at \in 0 .. dispute.version
      BY <1>0 DEF DisputeInv, DialogStands
    <3> QED BY <1>0, <2>1, <3>1, <3>2
  <2>4. Passed(act.action.id)
    BY <1>0, <2>2, <2>3 DEF Passed
  <2>5. UNCHANGED dispute /\ Served(act, "CHANGED", {})
    BY <1>3 DEF resolve
  <2> QED BY <1>1, <2>4, <2>5
<1>4. CASE RecordedUnder(act) = {} /\ MayDecide(act)
  <2>1. dispute.status = "DISPUTED" /\ dispute.mine /\ dispute.version = act.action.at /\ dispute.recorded = {}
    BY <1>0, <1>4, Undecided DEF MayDecide
  <2>2. PICK n \in Nat : n = dispute.version + 1
    BY <1>0
  <2>3. PICK s \in {"COMPLETION_PENDING_CREDIT", "RELEASE_PENDING_CREDIT"} : s = StatusAfter(act.action.on)
    BY DEF StatusAfter
  <2>4. PICK r : r = [key |-> act.key, reason |-> act.reason]
    OBVIOUS
  <2>5. dispute' = [dispute EXCEPT !.version = n, !.status = s, !.recorded = {r}]
    BY <1>4, <2>1, <2>2, <2>3, <2>4 DEF resolve
  <2>6. dispute' = [version |-> n, status |-> s, mine |-> dispute.mine, recorded |-> {r}]
    BY <1>0, <2>5 DEF DisputeInv, DisputeFits
  <2>7. dispute'.version = n /\ dispute'.status = s /\ dispute'.recorded = {r} /\ DisputeFits'
    BY <2>1, <2>2, <2>3, <2>6 DEF DisputeFits
  <2>8. r.key = <<act.action.id, 0>> /\ r.key[1] = act.action.id
    BY <1>0, <2>4
  <2>9. \A a \in Dialogs' : \E b \in Dialogs : b.id = a.id /\ a.on = b.on
    BY <1>0, <2>2, <2>7 DEF DialogsMove, OpensAs, SameDialog
  <2>10. \A b \in Dialogs : b.id = act.action.id => b.on = act.action.on
    BY <1>0 DEF DialogsInv, SameDialog
  <2>11. RecordStands(r)'
    <3>1. dispute'.status # "DISPUTED" /\ r.key = <<r.key[1], 0>> /\ r.key[1] \in 1 .. desk'.ids
      BY <1>0, <2>7, <2>8
    <3>2. \A a \in Dialogs' : a.id = r.key[1] => dispute'.status = StatusAfter(a.on)
      BY <2>3, <2>7, <2>8, <2>9, <2>10
    <3> QED BY <3>1, <3>2 DEF RecordStands
  <2>12. ASSUME NEW id, Passed(id) PROVE id # r.key[1]
    BY <1>0, <2>1, <2>8, <2>12 DEF Passed
  <2>13. PICK row : row = [version |-> dispute'.version, status |-> dispute'.status]
    OBVIOUS
  <2>14. Served(act, "OK", {row})
    BY <1>4, <2>13 DEF resolve
  <2>15. \A x \in acts' : x \in acts \/ (x.phase = "OK" /\ x.row = {row} /\ x.action = act.action)
    BY <1>0, <2>14, WriteServed
  <2>16. RowStands(row)'
    BY <2>2, <2>3, <2>7, <2>13 DEF RowStands
  <2>17. ASSUME NEW x \in acts', x.phase = "OK", x.row = {row}, x.action = act.action PROVE WriteStands(x)'
    BY <2>3, <2>7, <2>16, <2>17 DEF WriteStands
  <2> QED BY <1>0, <2>1, <2>2, <2>7, <2>11, <2>12, <2>15, <2>17, DisputeRaised
<1> QED BY <1>2, <1>3, <1>4

LEMMA DisputeStep ==
    ASSUME ReadsInv, DialogsInv, DisputeInv, DeskNext
    PROVE  DisputeInv'
<1>0. DeskFits /\ desk'.page = desk.page /\ ReadsMove /\ DialogsMove
  BY ReadsStep, DialogsStep DEF ReadsInv, ReadsMove
<1> SUFFICES ASSUME desk.page = "DISPUTE" PROVE DisputeInv'
  BY <1>0 DEF DisputeInv
<1>1. /\ \A row \in desk.latest : RowStands(row)
      /\ \A outcome \in desk.notice : dispute.status = StatusAfter(outcome)
      /\ \A id \in desk.changed : Passed(id)
      /\ \A act \in acts : WriteStands(act)
  BY DEF DisputeInv
<1>2. CASE Quietly
  <2>1. \A x \in acts' : x \in acts \/ WriteStands(x)
    BY <1>2 DEF Quietly, WriteStands
  <2>2. UNCHANGED dispute /\ desk'.latest = desk.latest /\ desk'.changed = desk.changed /\ desk'.notice \subseteq desk.notice
    BY <1>2 DEF Quietly
  <2> QED BY <1>0, <1>1, <2>1, <2>2, DisputeStays
<1>3. ASSUME NEW act \in acts, Decided(act) PROVE DisputeInv'
  <2>1. desk'.latest = act.row /\ desk'.changed = {} /\ desk'.notice = {act.action.on}
    BY <1>0, <1>3 DEF Decided, DeskFits
  <2>2. acts' \subseteq acts /\ UNCHANGED dispute /\ act.phase = "OK"
    BY <1>3 DEF Decided
  <2>3. (\A row \in act.row : RowStands(row)) /\ dispute.status = StatusAfter(act.action.on)
    BY <1>1, <2>2 DEF WriteStands
  <2> QED BY <1>0, <2>1, <2>2, <2>3, DisputeStays
<1>4. ASSUME NEW act \in acts, ChangedSince(act) PROVE DisputeInv'
  <2>1. desk'.latest = {} /\ desk'.changed = {act.action.id} /\ desk'.notice = {}
    BY <1>0, <1>4 DEF ChangedSince, DeskFits
  <2>2. acts' \subseteq acts /\ UNCHANGED dispute /\ act.phase = "CHANGED"
    BY <1>4 DEF ChangedSince
  <2>3. Passed(act.action.id)
    BY <1>1, <2>2 DEF WriteStands
  <2> QED BY <1>0, <2>1, <2>2, <2>3, DisputeStays
<1>5. ASSUME NEW act \in acts, Tells(act) PROVE resolve(act) \/ Decided(act) \/ ChangedSince(act)
  BY <1>5 DEF Tells, redrive, Redriven, ActOnAccount, Acted
<1>6. OtherHands => DisputeChanges
  BY DEF OtherHands, AccountChanges, LettersChange
<1> QED BY <1>0, <1>2, <1>3, <1>4, <1>5, <1>6, DisputeMoves, DisputeResolved, DeskSteps

DeskInv == ReadsInv /\ DialogsInv /\ LettersInv /\ AccountInv /\ DisputeInv

LEMMA DeskStart == ASSUME NEW opened, DeskInit(opened) PROVE DeskInv
<1> DEFINE first == [version |-> 0, key |-> FirstKey]
<1>1. /\ desk = [page |-> opened, action |-> {}, ids |-> 0, notice |-> {}, changed |-> {}, latest |-> {},
                 after |-> <<>>, seen |-> {}]
      /\ hooks = [s \in Slots |-> [request |-> first, settled |-> {}]]
      /\ loads = {NewLoad(s, first) : s \in SlotsOf(opened)}
      /\ acts = {}
  BY DEF DeskInit
<1>2. /\ desk.page = opened /\ desk.action = {} /\ desk.ids = 0 /\ desk.notice = {} /\ desk.changed = {}
      /\ desk.latest = {} /\ Dialogs = {}
  BY <1>1 DEF Dialogs
<1>3. \A s \in Slots : hooks[s] = [request |-> first, settled |-> {}]
  BY <1>1
<1>4. RequestFit(first)
  BY DEF RequestFit
<1> HIDE DEF first
<1>5. \A s, r : NewLoad(s, r) = [slot |-> s, request |-> r, phase |-> "SENT", data |-> {}]
  BY DEF NewLoad
<1>6. ReadsInv
  <2>1. DeskFits
    BY <1>1 DEF DeskFits
  <2>2. HooksFit
    BY <1>1, <1>3, <1>4 DEF HooksFit
  <2>3. \A l \in loads : l.slot \in SlotsOf(opened) /\ l = NewLoad(l.slot, first)
    BY <1>1, <1>5
  <2>4. ASSUME NEW l \in loads PROVE LoadFits(l)
    <3>1. l.slot \in SlotsOf(opened) /\ l = [slot |-> l.slot, request |-> first, phase |-> "SENT", data |-> {}]
      BY <1>5, <2>3
    <3>2. l.request = first /\ hooks[l.slot].request = first
      BY <1>2, <1>3, <3>1, SlotsKnown
    <3> QED BY <1>2, <3>1, <3>2 DEF LoadFits
  <2>5. \A l, m \in loads : m.slot = l.slot => m = l
    BY <2>3
  <2>6. \A s \in SlotsOf(opened) : \E l \in loads : l.slot = s
    BY <1>1, <1>5
  <2> QED BY <1>2, <1>3, <2>1, <2>2, <2>4, <2>5, <2>6 DEF ReadsInv
<1>7. \A d : ~EverHeld(d)
  BY <1>1, <1>3, <1>5, SlotsKnown DEF EverHeld
<1>8. DialogsInv
  BY <1>1, <1>2 DEF DialogsInv
<1>9. LettersInv
  BY <1>1, <1>2 DEF LettersInv, DeskInit
<1>10. AccountInv
  <2>1. SubjectFits
    BY DEF DeskInit, SubjectFits
  <2> QED BY <1>1, <1>2, <2>1 DEF AccountInv
<1>11. DisputeInv
  <2>1. DisputeFits /\ dispute.recorded = {}
    BY DEF DeskInit, DisputeFits
  <2> QED BY <1>1, <1>2, <1>7, <2>1 DEF DisputeInv
<1> QED BY <1>6, <1>8, <1>9, <1>10, <1>11 DEF DeskInv

LEMMA DeskUndisturbed == ASSUME DeskInv, UNCHANGED deskVars PROVE DeskInv'
<1>0. UNCHANGED desk /\ UNCHANGED <<hooks, loads, acts>> /\ UNCHANGED <<parked, dispute, subject>>
  BY DEF deskVars
<1>1. ReadsInv'
  <2>1. DeskFits'
    BY <1>0 DEF DeskInv, ReadsInv, DeskFits
  <2> QED BY <1>0, <2>1, ReadsUndisturbed DEF DeskInv
<1>2. Dialogs' = Dialogs /\ (\A s, d : HoldsNow(s, d)' <=> HoldsNow(s, d)) /\ \A d : EverHeld(d)' <=> EverHeld(d)
  BY <1>0 DEF Dialogs, HoldsNow, EverHeld
<1>3. DialogsInv'
  BY <1>0, <1>2 DEF DeskInv, DialogsInv, DialogFits, ActFits
<1>4. LettersInv'
  BY <1>0, <1>2 DEF DeskInv, LettersInv
<1>5. AccountInv'
  <2>1. SubjectFits' <=> SubjectFits
    BY <1>0 DEF SubjectFits
  <2>2. \A t : Stands(t)' <=> Stands(t)
    BY <1>0 DEF Stands
  <2>3. \A t : ShownAfter(t)' <=> ShownAfter(t)
    BY <1>0, <1>2 DEF ShownAfter
  <2> QED BY <1>0, <2>1, <2>2, <2>3 DEF DeskInv, AccountInv
<1>6. DisputeInv'
  <2>1. DisputeFits' <=> DisputeFits
    BY <1>0 DEF DisputeFits
  <2>2. \A row : RowStands(row)' <=> RowStands(row)
    BY <1>0 DEF RowStands
  <2>3. \A a : DialogStands(a)' <=> DialogStands(a)
    BY <1>0 DEF DialogStands
  <2>4. \A r : RecordStands(r)' <=> RecordStands(r)
    BY <1>0, <1>2 DEF RecordStands
  <2>5. \A id : Passed(id)' <=> Passed(id)
    BY <1>0, <1>2 DEF Passed
  <2>6. \A act : WriteStands(act)' <=> WriteStands(act)
    BY <1>0, <2>2, <2>5 DEF WriteStands
  <2> QED BY <1>0, <1>2, <2>1, <2>2, <2>3, <2>4, <2>5, <2>6 DEF DeskInv, DisputeInv
<1> QED BY <1>1, <1>3, <1>4, <1>5, <1>6 DEF DeskInv

(* What a page of the console holds is what it asked for last: a read that *)
(* something newer replaced is dropped, a dialog keeps what it was opened  *)
(* on through every attempt, and what was answered stays so.               *)
THEOREM DeskInvHolds == Spec => []DeskInv
<1>1. Init => DeskInv
  BY DeskStart DEF Init
<1>2. DeskInv /\ [Next]_vars => DeskInv'
  <2>1. DeskInv /\ DeskNext => DeskInv'
    BY ReadsStep, DialogsStep, LettersStep, AccountStep, DisputeStep DEF DeskInv
  <2>2. [Next]_vars => DeskNext \/ UNCHANGED deskVars
    BY DEF Next, vars, SocketsNext, SuppliersNext, DraftNext, ErrandNext, TalkNext, ListNext, LoginNext,
           AdminNext, DeskPagesNext, PickupNext, TimesNext
  <2> QED BY <2>1, <2>2, DeskUndisturbed
<1> QED BY <1>1, <1>2, PTL DEF Spec

(* Every action that asked the prompt is answered when it closes, for any  *)
(* number of actions that share it.                                        *)
THEOREM PromptInvHolds == Spec => []PromptInv
<1>1. Init => PromptInv
  BY DEF Init, ConsoleInit, NoPrompt, PromptInv, NobodyStranded
<1>2. PromptInv /\ [Next]_vars => PromptInv'
  <2>1. PromptInv /\ UNCHANGED consoleVars => PromptInv'
    BY DEF consoleVars, PromptInv, NobodyStranded
  <2>2. [Next]_vars => ConsoleNext \/ UNCHANGED consoleVars
    BY DEF Next, vars, SocketsNext, SuppliersNext, DraftNext, ErrandNext, TalkNext, ListNext, LoginNext,
           AdminNext, DeskPagesNext, PickupNext, TimesNext
  <2> QED BY <2>1, <2>2, PromptStep
<1> QED BY <1>1, <1>2, PTL DEF Spec

(* Once nothing is on its way, what is shown was read for what is asked.   *)
LEMMA NothingAwaited ==
    ASSUME ReadsInv, loads = {}
    PROVE  /\ \A s \in SlotsOf(desk.page) : ~Loading(s)
           /\ \A s \in Slots : \A d \in DataOf(s) : s \in SlotsOf(desk.page) /\ HoldsNow(s, d)
<1>1. \A s \in SlotsOf(desk.page) : ~Loading(s)
  BY DEF ReadsInv
<1>2. ASSUME NEW s \in Slots, NEW d \in DataOf(s) PROVE s \in SlotsOf(desk.page) /\ HoldsNow(s, d)
  <2>1. PICK a \in hooks[s].settled : d \in a.data
    BY DEF DataOf
  <2>2. s \in SlotsOf(desk.page)
    BY <2>1 DEF ReadsInv
  <2>3. PICK b \in hooks[s].settled : b.request = hooks[s].request
    BY <1>1, <2>2 DEF Loading
  <2>4. a = b
    BY <2>1, <2>3 DEF ReadsInv, HooksFit
  <2> QED BY <2>1, <2>2, <2>3, <2>4 DEF HoldsNow
<1> QED BY <1>1, <1>2

LEMMA RedrivesAreShown == ASSUME DeskInv PROVE RedrivesShown
<1> SUFFICES ASSUME desk.page = "LETTERS", loads = {}
             PROVE  /\ \A s \in SlotsOf(desk.page) : ~Loading(s)
                    /\ \A l \in desk.notice :
                          /\ parked[l] = "REDRIVEN"
                          /\ \A s \in Slots : \A d \in DataOf(s) : [letter |-> l, status |-> "WAITING"] \notin d.items
  BY DEF RedrivesShown
<1>1. \A l \in desk.notice : parked[l] = "REDRIVEN"
  BY DEF DeskInv, LettersInv
<1>2. ASSUME NEW l \in desk.notice, NEW s \in Slots, NEW d \in DataOf(s)
      PROVE  [letter |-> l, status |-> "WAITING"] \notin d.items
  <2>1. s \in {"LIST", "FIGURE"} /\ HoldsNow(s, d)
    BY NothingAwaited, ListsLoad DEF DeskInv
  <2>2. NotWaiting(l, d)
    BY <2>1 DEF DeskInv, LettersInv
  <2> QED BY <2>2 DEF NotWaiting
<1> QED BY <1>1, <1>2, NothingAwaited DEF DeskInv

LEMMA ActionsAreShown == ASSUME DeskInv PROVE ActionsShown
<1> SUFFICES ASSUME desk.page = "ACCOUNT", loads = {}, NEW t \in desk.notice
             PROVE  /\ \A d \in DataOf("LIST") : t.record <= d.records
                    /\ t.closed \cap RequestsShown = {}
                    /\ DataOf("FIGURE") # {} => t.opened \cap subject.open \subseteq RequestsShown
  BY DEF ActionsShown
<1>1. ShownAfter(t)
  BY DEF DeskInv, AccountInv
<1>2. \A d \in DataOf("LIST") : t.record <= d.records
  BY <1>1, NothingAwaited, SlotsKnown DEF DeskInv, ShownAfter
<1>3. \A d \in DataOf("FIGURE") : t.closed \cap d.open = {} /\ t.opened \cap subject.open \subseteq d.open
  BY <1>1, NothingAwaited, SlotsKnown DEF DeskInv, ShownAfter
<1>4. RequestsShown = UNION {d.open : d \in DataOf("FIGURE")}
  BY DEF RequestsShown
<1> QED BY <1>2, <1>3, <1>4

(* A letter said to be redriven is, and is shown as waiting nowhere; what  *)
(* was said of an account is on its page; a decision said to be made       *)
(* stands and one said to be lost was never recorded; and no action waits  *)
(* for a prompt that is gone: for any number of letters, requests, writes  *)
(* and reads, late, lost or repeated.                                      *)
THEOREM ConsoleIsTruthful == Spec => []ConsoleTruthful
<1>1. DeskInv /\ PromptInv => ConsoleTruthful
  <2>1. DeskInv => DecisionsTold
    BY DEF DeskInv, DisputeInv, Passed, DecisionsTold
  <2> QED BY <2>1, RedrivesAreShown, ActionsAreShown DEF ConsoleTruthful, PromptInv
<1> QED BY <1>1, DeskInvHolds, PromptInvHolds, PTL

-----------------------------------------------------------------------------
(* Numbers in a row, and the pages of a channel.                           *)

LEMMA RowEnds ==
    ASSUME NEW a \in Nat, NEW b \in Nat, a <= b
    PROVE  Min(a .. b) = a /\ Max(a .. b) = b
<1>1. \A x : x \in a .. b /\ (\A y \in a .. b : x <= y) <=> x = a
  OBVIOUS
<1>2. \A x : x \in a .. b /\ (\A y \in a .. b : x >= y) <=> x = b
  OBVIOUS
<1> QED BY <1>1, <1>2 DEF Min, Max

(* The messages of the channel are a row, and so are those that follow one. *)
LEMMA RowOf ==
    ASSUME ChatInv
    PROVE  /\ Seqs(Of(Mine)) = 1 .. channels[Mine].latest
           /\ channels[Mine].latest \in Nat
           /\ \A m, k \in Of(Mine) : m.seq = k.seq => m = k
<1>1. Mine \in Channels
  BY ChatAssumption DEF Mine, Channels
<1>2. channels[Mine].latest \in Nat
  BY <1>1 DEF ChatInv, ChannelsInv, ChatTypes
<1>3. /\ {m.seq : m \in Of(Mine)} = 1 .. channels[Mine].latest
      /\ \A m, k \in Of(Mine) : m.seq = k.seq => m = k
  BY <1>1 DEF ChatInv, ChannelsInv, ChannelsSound, MessagesInOrder
<1> QED BY <1>2, <1>3 DEF Seqs

LEMMA RowAfter ==
    ASSUME NEW ms, NEW b \in Nat, Seqs(ms) = 1 .. b, NEW n \in Nat
    PROVE  Seqs({m \in ms : m.seq > n}) = n + 1 .. b
<1>1. ASSUME NEW x \in n + 1 .. b PROVE x \in Seqs({m \in ms : m.seq > n})
  <2>1. x \in 1 .. b /\ x > n
    OBVIOUS
  <2>2. PICK m \in ms : m.seq = x
    BY <2>1 DEF Seqs
  <2> QED BY <2>1, <2>2 DEF Seqs
<1>2. ASSUME NEW m \in ms, m.seq > n PROVE m.seq \in n + 1 .. b
  <2>1. m.seq \in 1 .. b
    BY DEF Seqs
  <2> QED BY <1>2, <2>1
<1> QED BY <1>1, <1>2 DEF Seqs

(* The lowest, or the highest, of a row are a row.                         *)
LEMMA PagesAreRows ==
    ASSUME NEW ms, NEW a \in Nat \ {0}, NEW b \in Nat, Seqs(ms) = a .. b,
           \A m, k \in ms : m.seq = k.seq => m = k
    PROVE  /\ \E d \in Nat : Seqs(Lowest(ms)) = a .. d
           /\ \E d \in Nat \ {0} : Seqs(Highest(ms)) = d .. b
           /\ Lowest(ms) \subseteq ms /\ Highest(ms) \subseteq ms
<1>1. IsFiniteSet(a .. b)
  BY FS_Interval
<1>2. IsFiniteSet(ms)
  <2> DEFINE f == [m \in ms |-> m.seq]
  <2>1. f \in Injection(ms, a .. b)
    BY DEF Seqs, Injection, IsInjective
  <2> QED BY <1>1, <2>1, FS_Injection
<1>3. \A m \in ms : m.seq \in Nat /\ m.seq \in a .. b
  BY DEF Seqs
<1>4. PageSize \in Nat
  BY ChatAssumption
<1>5. ASSUME NEW m \in ms, NEW k \in ms, k.seq <= m.seq,
             Cardinality({n \in ms : n.seq < m.seq}) < PageSize
      PROVE  Cardinality({n \in ms : n.seq < k.seq}) < PageSize
  <2>1. {n \in ms : n.seq < k.seq} \subseteq {n \in ms : n.seq < m.seq}
    BY <1>3, <1>5
  <2>2. IsFiniteSet({n \in ms : n.seq < m.seq})
    BY <1>2, FS_Subset
  <2>3. /\ Cardinality({n \in ms : n.seq < k.seq}) <= Cardinality({n \in ms : n.seq < m.seq})
        /\ Cardinality({n \in ms : n.seq < k.seq}) \in Nat /\ Cardinality({n \in ms : n.seq < m.seq}) \in Nat
    BY <2>1, <2>2, FS_Subset, FS_CardinalityType
  <2> QED BY <1>4, <1>5, <2>3
<1>6. ASSUME NEW m \in ms, NEW k \in ms, k.seq >= m.seq,
             Cardinality({n \in ms : n.seq > m.seq}) < PageSize
      PROVE  Cardinality({n \in ms : n.seq > k.seq}) < PageSize
  <2>1. {n \in ms : n.seq > k.seq} \subseteq {n \in ms : n.seq > m.seq}
    BY <1>3, <1>6
  <2>2. IsFiniteSet({n \in ms : n.seq > m.seq})
    BY <1>2, FS_Subset
  <2>3. /\ Cardinality({n \in ms : n.seq > k.seq}) <= Cardinality({n \in ms : n.seq > m.seq})
        /\ Cardinality({n \in ms : n.seq > k.seq}) \in Nat /\ Cardinality({n \in ms : n.seq > m.seq}) \in Nat
    BY <2>1, <2>2, FS_Subset, FS_CardinalityType
  <2> QED BY <1>4, <1>6, <2>3
<1>7. Lowest(ms) \subseteq ms /\ Highest(ms) \subseteq ms
  BY DEF Lowest, Highest
<1>a. \A x \in a .. b : \E m \in ms : m.seq = x
  BY DEF Seqs
<1>8. \E d \in Nat : Seqs(Lowest(ms)) = a .. d
  <2> DEFINE T == Seqs(Lowest(ms))
  <2>1. CASE T = {}
    <3>1. T = a .. (a - 1) /\ a - 1 \in Nat
      BY <2>1
    <3> QED BY <3>1
  <2>2. CASE T # {}
    <3>1. T \subseteq a .. b
      BY <1>3, <1>7 DEF Seqs
    <3>2. T \subseteq 1 .. b
      BY <3>1
    <3> HIDE DEF T
    <3>3. PICK d \in T : \A y \in T : y <= d
      BY <2>2, <3>2, LargestNumber
    <3>4. PICK m \in Lowest(ms) : m.seq = d
      BY <3>3 DEF T, Seqs
    <3>5. ASSUME NEW x \in a .. d PROVE x \in T
      <4>1. d \in a .. b /\ x \in a .. b /\ x <= m.seq
        BY <3>1, <3>3, <3>4
      <4>2. PICK k \in ms : k.seq = x
        BY <1>a, <4>1
      <4>3. k \in Lowest(ms)
        BY <1>5, <3>4, <4>1, <4>2 DEF Lowest
      <4> QED BY <4>2, <4>3 DEF T, Seqs
    <3>6. T \subseteq a .. d /\ d \in Nat
      <4>1. \A y \in T : y \in Nat /\ y >= a
        BY <3>1
      <4> QED BY <3>3, <4>1
    <3>7. T = a .. d
      BY <3>5, <3>6
    <3> QED BY <3>6, <3>7 DEF T
  <2> QED BY <2>1, <2>2
<1>9. \E d \in Nat \ {0} : Seqs(Highest(ms)) = d .. b
  <2> DEFINE T == Seqs(Highest(ms))
  <2>1. CASE T = {}
    <3>1. T = (b + 1) .. b /\ b + 1 \in Nat \ {0}
      BY <2>1
    <3> QED BY <3>1
  <2>2. CASE T # {}
    <3>1. T \subseteq a .. b
      BY <1>3, <1>7 DEF Seqs
    <3>2. T \subseteq Nat
      BY <3>1
    <3> HIDE DEF T
    <3>3. PICK d \in T : \A y \in T : d <= y
      BY <2>2, <3>2, SmallestNumber
    <3>4. PICK m \in Highest(ms) : m.seq = d
      BY <3>3 DEF T, Seqs
    <3>5. ASSUME NEW x \in d .. b PROVE x \in T
      <4>1. d \in a .. b /\ x \in a .. b /\ x >= m.seq
        BY <3>1, <3>3, <3>4
      <4>2. PICK k \in ms : k.seq = x
        BY <1>a, <4>1
      <4>3. k \in Highest(ms)
        BY <1>6, <3>4, <4>1, <4>2 DEF Highest
      <4> QED BY <4>2, <4>3 DEF T, Seqs
    <3>6. T \subseteq d .. b /\ d \in Nat \ {0}
      BY <3>1, <3>3
    <3>7. T = d .. b
      BY <3>5, <3>6
    <3> QED BY <3>6, <3>7 DEF T
  <2> QED BY <2>1, <2>2
<1> QED BY <1>7, <1>8, <1>9

-----------------------------------------------------------------------------
(* A conversation on a student's screen.                                   *)

Views == [got : BOOLEAN, open : BOOLEAN, lastRead : Nat, latest : Nat]

SnapFits(c) ==
    c \in [channel : Views, messages : {c.messages}, outgoing : {c.outgoing}, cursor : Nat \cup {-1},
           rev : Nat, orderVersion : {c.orderVersion}, closed : {c.closed}, throttled : {c.throttled},
           hasOlder : {c.hasOlder}, olderLoading : {c.olderLoading}, error : {c.error}, timer : {c.timer}]

RefreshFits(r) ==
    /\ r \in [phase : {"NONE", "CHANNEL", "LATEST", "AFTER"}, rev : Nat, version : {r.version},
              final : {r.final}, channel : Views, first : Nat, last : Nat, answer : {r.answer},
              items : {r.items}, more : {r.more}]
    /\ r.phase = "NONE" => r.answer = "NONE"
    /\ r.phase = "CHANNEL" /\ r.answer = "GRANTED" => r.channel.got

OlderFits(o) ==
    o \in [rev : Nat, before : {o.before}, answer : {o.answer}, items : {o.items}, more : {o.more}]

MarkFits == marking \in [phase : {marking.phase}, rev : {marking.rev}, seq : Nat, answer : {marking.answer}]

FitsInv ==
    /\ SnapFits(chat) /\ RefreshFits(refreshing) /\ MarkFits
    /\ \A o \in olders : OlderFits(o)
    /\ readTo \in [Channels -> Nat]

(* Nothing began at a revision that is still to come; what was refused     *)
(* left nothing, and what began before it counts no more.                  *)
ChatAccess ==
    /\ chat.channel.open => chat.channel.got
    /\ ~chat.channel.got => chat.cursor = -1
    /\ NothingLeft

RefreshAccess ==
    /\ refreshing.rev <= chat.rev
    /\ refreshing.channel.open => refreshing.channel.got
    /\ refreshing.phase \in {"LATEST", "AFTER"} /\ Current(refreshing.rev) =>
          /\ chat.channel.got
          /\ refreshing.channel.lastRead <= chat.channel.lastRead

OldersAccess == \A o \in olders : o.rev <= chat.rev /\ (Current(o.rev) => chat.channel.got)

SendsAccess ==
    \A s \in sends : /\ s.rev \in Nat /\ s.rev <= chat.rev
                     /\ s.phase = "DONE" => s.awaited
                     /\ s.awaited /\ Current(s.rev) => chat.channel.got

AccessInv == ChatAccess /\ RefreshAccess /\ OldersAccess /\ SendsAccess

(* The read position, and what may become it, was shown.                   *)
ShownTo(n) == 1 .. n \subseteq fetched

ShownInv ==
    /\ ShownTo(readTo[Mine]) /\ ShownTo(chat.cursor)
    /\ ShownTo(refreshing.channel.lastRead) /\ ShownTo(marking.seq)

(* Pages that are fetched hold what follows without a gap, and the page    *)
(* that was fetched first is still there.                                  *)
PagesFit ==
    /\ refreshing.last # 0 =>
          /\ refreshing.first .. refreshing.last \subseteq fetched
          /\ Current(refreshing.rev) => refreshing.first .. refreshing.last \subseteq Seqs(chat.messages)
    /\ refreshing.phase = "LATEST" /\ refreshing.answer = "GRANTED" =>
          \E a \in Nat \ {0}, b \in Nat : Seqs(refreshing.items) = a .. b
    /\ refreshing.phase = "AFTER" /\ Current(refreshing.rev) =>
          /\ chat.cursor \in Nat
          /\ refreshing.answer = "GRANTED" => \E b \in Nat : Seqs(refreshing.items) = chat.cursor + 1 .. b

GapInv == PagesFit /\ UnreadExact

(* The IDs that clients gave to messages, of which none is one that the    *)
(* page is going to give to another message.                               *)
Texts == messages \cup chat.messages \cup refreshing.items \cup UNION {o.items : o \in olders}
Given(client) == \A n \in Nat : client = <<"PAGE", n>> => n > quota["SEND"]

GivenInv ==
    /\ quota = [e \in DOMAIN quota |-> quota[e]] /\ "SEND" \in DOMAIN quota /\ quota["SEND"] \in Nat
    /\ \A x \in Texts \cup sends \cup chat.outgoing : Given(x.client)

Goes(p) == p \in [client : {p.client}, state : {p.state}]

OutgoingInv == OutgoingOnce /\ \A p \in chat.outgoing : Goes(p)

TalkInv == FitsInv /\ AccessInv /\ ShownInv /\ GapInv /\ OutgoingInv

-----------------------------------------------------------------------------
(* How a snapshot changes.                                                 *)

(* What is shown and where it was read to stays.                           *)
Alike(d, c) ==
    SnapFits(d) /\ d.channel = c.channel /\ d.messages = c.messages /\ d.cursor = c.cursor /\ d.rev = c.rev

Cleared(d, c) ==
    /\ SnapFits(d) /\ d.channel = NoChannel /\ d.messages = {} /\ d.outgoing = {} /\ d.cursor = -1
    /\ d.rev = c.rev + 1

LEMMA NoChannelFits == NoChannel \in Views /\ ~NoChannel.got /\ ~NoChannel.open /\ NoChannel.lastRead = 0
BY DEF NoChannel, Views

LEMMA SnapEdits ==
    ASSUME NEW c, SnapFits(c), NEW x, NEW y, NEW z
    PROVE  /\ Alike([c EXCEPT !.error = x], c) /\ [c EXCEPT !.error = x].outgoing = c.outgoing
           /\ Alike([c EXCEPT !.timer = x], c) /\ [c EXCEPT !.timer = x].outgoing = c.outgoing
           /\ Alike([c EXCEPT !.olderLoading = x], c) /\ [c EXCEPT !.olderLoading = x].outgoing = c.outgoing
           /\ Alike([c EXCEPT !.throttled = x], c) /\ [c EXCEPT !.throttled = x].outgoing = c.outgoing
           /\ Alike([c EXCEPT !.outgoing = x], c) /\ [c EXCEPT !.outgoing = x].outgoing = x
           /\ Alike([c EXCEPT !.closed = x, !.throttled = y, !.outgoing = z], c)
           /\ [c EXCEPT !.closed = x, !.throttled = y, !.outgoing = z].outgoing = z
           /\ Alike([c EXCEPT !.hasOlder = x, !.error = y, !.olderLoading = z], c)
           /\ [c EXCEPT !.hasOlder = x, !.error = y, !.olderLoading = z].outgoing = c.outgoing
           /\ Alike([c EXCEPT !.error = x, !.hasOlder = y, !.timer = z], c)
           /\ [c EXCEPT !.error = x, !.hasOlder = y, !.timer = z].outgoing = c.outgoing
BY DEF SnapFits, Alike

LEMMA RefusalClears ==
    ASSUME NEW c, SnapFits(c), NEW answer
    PROVE  /\ Refusal(answer) => Cleared(AfterFailure(c, answer), c)
           /\ ~Refusal(answer) => /\ Alike(AfterFailure(c, answer), c)
                                  /\ AfterFailure(c, answer).outgoing = c.outgoing
<1>1. ASSUME Refusal(answer) PROVE Cleared(AfterFailure(c, answer), c)
  <2> DEFINE D(e) == [c EXCEPT !.channel = NoChannel, !.messages = {}, !.outgoing = {}, !.cursor = -1,
                              !.rev = @ + 1, !.hasOlder = FALSE, !.olderLoading = FALSE, !.error = e]
  <2>1. ASSUME NEW e PROVE Cleared(D(e), c)
    <3>1. c.rev \in Nat /\ c.rev + 1 \in Nat /\ -1 \in Nat \cup {-1} /\ NoChannel \in Views
      BY NoChannelFits DEF SnapFits
    <3>2. /\ D(e).channel = NoChannel /\ D(e).messages = {} /\ D(e).outgoing = {} /\ D(e).cursor = -1
          /\ D(e).rev = c.rev + 1
      BY DEF SnapFits
    <3>3. SnapFits(D(e))
      BY <3>1 DEF SnapFits
    <3> QED BY <3>2, <3>3 DEF Cleared
  <2>2. AfterFailure(c, answer) = D(answer = "FORBIDDEN")
    BY <1>1 DEF AfterFailure
  <2> HIDE DEF D
  <2> QED BY <2>1, <2>2
<1>2. ASSUME ~Refusal(answer)
      PROVE  Alike(AfterFailure(c, answer), c) /\ AfterFailure(c, answer).outgoing = c.outgoing
  <2>1. AfterFailure(c, answer) = [c EXCEPT !.error = TRUE]
    BY <1>2 DEF AfterFailure
  <2> QED BY <2>1 DEF SnapFits, Alike
<1> QED BY <1>1, <1>2

LEMMA Merging ==
    ASSUME NEW c, SnapFits(c), NEW items
    PROVE  LET d == Merge(c, items) IN
           /\ SnapFits(d) /\ d.channel = c.channel /\ d.cursor = c.cursor /\ d.rev = c.rev
           /\ d.messages = c.messages \cup items
           /\ d.outgoing = {p \in c.outgoing : \A m \in d.messages : m.by = Me => m.client # p.client}
BY DEF Merge, SnapFits

(* The conversation goes on as it was, with more of it shown.              *)
Grows ==
    /\ SnapFits(chat') /\ chat'.rev = chat.rev /\ chat'.cursor = chat.cursor
    /\ chat'.channel.got = chat.channel.got /\ chat'.channel.open = chat.channel.open
    /\ chat.channel.lastRead <= chat'.channel.lastRead
    /\ chat.messages \subseteq chat'.messages /\ fetched \subseteq fetched'
    /\ ~chat.channel.got => chat'.messages = {} /\ chat'.outgoing = {}

Clears == Cleared(chat', chat) /\ fetched' = fetched

(* Either way what began before counts only if it still may.               *)
Later ==
    /\ chat'.rev \in Nat /\ chat.rev \in Nat /\ fetched \subseteq fetched'
    /\ chat'.rev = chat.rev + 1 \/ (chat'.rev = chat.rev /\ (chat.channel.got => chat'.channel.got))

LEMMA MovesAreLater == ASSUME SnapFits(chat), Grows \/ Clears PROVE Later
BY DEF Later, Grows, Clears, Cleared, SnapFits

LEMMA AlikeGrows ==
    ASSUME FitsInv, ChatAccess, Alike(chat', chat), fetched' = fetched, ~chat.channel.got => chat'.outgoing = {}
    PROVE  Grows
BY DEF Grows, Alike, FitsInv, SnapFits, Views, ChatAccess, NothingLeft

LEMMA ChatAccessKept ==
    ASSUME ChatAccess, Grows \/ Clears
    PROVE  ChatAccess'
BY NoChannelFits DEF ChatAccess, Grows, Clears, Cleared, NothingLeft

LEMMA RefreshAccessKept ==
    ASSUME FitsInv, RefreshAccess, Grows \/ Clears, UNCHANGED refreshing
    PROVE  RefreshAccess'
<1>1. CASE Grows
  BY <1>1 DEF RefreshAccess, Grows, Current, FitsInv, SnapFits, RefreshFits, Views
<1>2. CASE Clears
  BY <1>2 DEF RefreshAccess, Clears, Cleared, Current, FitsInv, SnapFits, RefreshFits
<1> QED BY <1>1, <1>2

(* A refresh that is over, or begins, has fetched nothing.                 *)
LEMMA RefreshAnew ==
    ASSUME SnapFits(chat), chat'.rev \in Nat, chat.rev <= chat'.rev,
           \/ refreshing' = NotRefreshing
           \/ \E p : refreshing' = NewRefresh(chat, p)
    PROVE  RefreshFits(refreshing') /\ RefreshAccess' /\ PagesFit' /\ refreshing'.channel = NoChannel
<1> DEFINE Fresh(r) ==
             /\ r \in [phase : {"NONE", "CHANNEL"}, rev : Nat, version : {r.version}, final : {r.final},
                       channel : Views, first : {0}, last : {0}, answer : {"NONE"}, items : {{}},
                       more : {FALSE}]
             /\ r.channel = NoChannel
<1>1. chat.rev \in Nat
  BY DEF SnapFits
<1>2. Fresh(NotRefreshing) /\ NotRefreshing.rev = 0
  BY NoChannelFits DEF NotRefreshing
<1>3. Fresh(refreshing') /\ refreshing'.rev <= chat'.rev
  <2>1. CASE refreshing' = NotRefreshing
    <3> HIDE DEF Fresh
    <3>1. 0 <= chat'.rev
      OBVIOUS
    <3> QED BY <1>2, <2>1, <3>1
  <2>2. ASSUME NEW p, refreshing' = NewRefresh(chat, p) PROVE Fresh(refreshing') /\ refreshing'.rev = chat.rev
    <3> DEFINE N(v, f) == [NotRefreshing EXCEPT !.phase = "CHANNEL", !.rev = chat.rev, !.version = v, !.final = f]
    <3>1. ASSUME NEW v, NEW f PROVE Fresh(N(v, f)) /\ N(v, f).rev = chat.rev
      BY <1>1, <1>2
    <3>2. refreshing' = N(p.version, p.final)
      BY <2>2 DEF NewRefresh
    <3> HIDE DEF N, Fresh
    <3> QED BY <3>1, <3>2
  <2> HIDE DEF Fresh
  <2> QED BY <2>1, <2>2
<1>4. refreshing'.phase \in {"NONE", "CHANNEL"} /\ refreshing'.last = 0 /\ refreshing'.answer = "NONE"
  BY <1>3
<1>5. RefreshFits(refreshing')
  BY <1>3 DEF RefreshFits
<1>6. RefreshAccess' /\ PagesFit'
  BY <1>3, <1>4, NoChannelFits DEF RefreshAccess, PagesFit
<1> QED BY <1>3, <1>5, <1>6

OlderFollows(o) == (\E q \in olders : q.rev = o.rev) \/ (o.rev = chat.rev /\ chat.channel.got)

LEMMA OldersKept ==
    ASSUME SnapFits(chat), OldersAccess, Later, \A o \in olders : OlderFits(o),
           \A o \in olders' : OlderFits(o) /\ OlderFollows(o)
    PROVE  OldersAccess'
<1> SUFFICES ASSUME NEW o \in olders' PROVE o.rev <= chat'.rev /\ (o.rev = chat'.rev => chat'.channel.got)
  BY DEF OldersAccess, Current
<1>1. o.rev \in Nat /\ o.rev <= chat.rev /\ (o.rev = chat.rev => chat.channel.got)
  <2>1. CASE \E q \in olders : q.rev = o.rev
    BY <2>1 DEF OldersAccess, OlderFits, Current
  <2>2. CASE o.rev = chat.rev /\ chat.channel.got
    BY <2>2 DEF Later
  <2> QED BY <2>1, <2>2 DEF OlderFollows
<1> QED BY <1>1 DEF Later

(* A send that goes on, another tab's or student's, or one that begins.    *)
Follows(t) == \E s \in sends : t.client = s.client /\ t.rev = s.rev /\ (t.awaited => s.awaited)
Elsewhere(t) == t.rev = 0 /\ ~t.awaited /\ \A n : t.client # <<"PAGE", n>>
Begins(t) == t.rev = chat.rev /\ chat.channel.got
SendsFollow == \A t \in sends' : (t.phase = "DONE" => t.awaited) /\ (Follows(t) \/ Elsewhere(t))
SendsBegin == \A t \in sends' : t \in sends \/ (Begins(t) /\ t.phase # "DONE")

LEMMA SendsAccessKept ==
    ASSUME SnapFits(chat), SendsAccess, Later, SendsFollow \/ SendsBegin
    PROVE  SendsAccess'
<1> SUFFICES ASSUME NEW t \in sends'
             PROVE  /\ t.rev \in Nat /\ t.rev <= chat'.rev
                    /\ t.phase = "DONE" => t.awaited
                    /\ t.awaited /\ t.rev = chat'.rev => chat'.channel.got
  BY DEF SendsAccess, Current
<1>1. /\ t.rev \in Nat /\ t.rev <= chat.rev /\ (t.awaited /\ t.rev = chat.rev => chat.channel.got)
      /\ t.phase = "DONE" => t.awaited
  <2>1. CASE SendsFollow /\ Follows(t)
    BY <2>1 DEF SendsFollow, Follows, SendsAccess, Current
  <2>2. CASE SendsFollow /\ Elsewhere(t)
    BY <2>2 DEF SendsFollow, Elsewhere, Later
  <2>3. CASE SendsBegin
    BY <2>3 DEF SendsBegin, Begins, SendsAccess, Later, Current
  <2> QED BY <2>1, <2>2, <2>3 DEF SendsFollow
<1> QED BY <1>1 DEF Later

LEMMA PagesKept ==
    ASSUME FitsInv, RefreshAccess, PagesFit, Grows \/ Clears, UNCHANGED refreshing
    PROVE  PagesFit'
<1>1. CASE Grows
  <2>1. Seqs(chat.messages) \subseteq Seqs(chat'.messages)
    BY <1>1 DEF Grows, Seqs
  <2> QED BY <1>1, <2>1 DEF PagesFit, Grows, Current
<1>2. CASE Clears
  <2>1. refreshing.rev # chat'.rev /\ fetched' = fetched
    BY <1>2 DEF Clears, Cleared, RefreshAccess, FitsInv, RefreshFits, SnapFits
  <2> QED BY <2>1 DEF PagesFit, Current
<1> QED BY <1>1, <1>2

LEMMA UnreadKept ==
    ASSUME FitsInv, UnreadExact, Grows \/ Clears
    PROVE  UnreadExact'
<1>1. CASE Grows
  <2> SUFFICES ASSUME chat'.channel.got, chat'.cursor > chat'.channel.lastRead,
                      NEW x \in chat'.channel.lastRead + 1 .. chat'.cursor
               PROVE  x \in Seqs(chat'.messages)
    BY DEF UnreadExact
  <2>1. Seqs(chat.messages) \subseteq Seqs(chat'.messages)
    BY <1>1 DEF Grows, Seqs
  <2>2. /\ chat'.channel.lastRead \in Nat /\ chat.channel.lastRead \in Nat
        /\ chat.cursor \in Int /\ chat'.cursor = chat.cursor /\ chat.channel.got
        /\ chat.channel.lastRead <= chat'.channel.lastRead
    BY <1>1 DEF Grows, FitsInv, SnapFits, Views
  <2>3. chat.cursor > chat.channel.lastRead /\ x \in chat.channel.lastRead + 1 .. chat.cursor
    BY <2>2
  <2> QED BY <2>1, <2>2, <2>3 DEF UnreadExact
<1>2. CASE Clears
  BY <1>2, NoChannelFits DEF Clears, Cleared, UnreadExact
<1> QED BY <1>1, <1>2

(* What was shown stays so, and a position that goes back is covered.      *)
LEMMA ShownKept ==
    ASSUME ShownInv, fetched \subseteq fetched', Mine \in Channels,
           readTo'[Mine] \in {readTo[Mine], 0, marking.seq},
           chat'.cursor \in {chat.cursor, -1},
           refreshing'.channel.lastRead \in {refreshing.channel.lastRead, 0, readTo[Mine]},
           marking'.seq \in {marking.seq, 0, readTo[Mine], chat.cursor}
    PROVE  ShownInv'
<1>1. ShownTo(0) /\ ShownTo(-1)
  BY DEF ShownTo
<1>2. \A n : ShownTo(n) => ShownTo(n)'
  BY DEF ShownTo
<1> QED BY <1>1, <1>2 DEF ShownInv

(* Nothing is told that was not there, and nothing new goes out.           *)
AddsNoText ==
    /\ chat'.messages \subseteq Texts
    /\ \A p \in chat'.outgoing : \E q \in chat.outgoing : p.client = q.client

MarksFit ==
    /\ MarkFits' /\ marking'.seq \in {marking.seq, 0, readTo[Mine], chat.cursor}
    /\ readTo' \in [Channels -> Nat]
    /\ readTo'[Mine] \in {readTo[Mine], 0, marking.seq}

(* Whatever else happens, a conversation that only grows, or is cleared,   *)
(* stays in order.                                                         *)
LEMMA TalkMoves ==
    ASSUME TalkInv, Mine \in Channels, Grows \/ Clears, OutgoingInv', SendsFollow \/ SendsBegin, MarksFit,
           \A o \in olders' : OlderFits(o) /\ OlderFollows(o),
           \/ UNCHANGED refreshing
           \/ refreshing' = NotRefreshing
           \/ \E p : refreshing' = NewRefresh(chat, p)
    PROVE  TalkInv'
<1>1. FitsInv /\ AccessInv /\ ShownInv /\ GapInv
  BY DEF TalkInv
<1>2. Later /\ SnapFits(chat') /\ SnapFits(chat)
  BY <1>1, MovesAreLater DEF FitsInv, Grows, Clears, Cleared
<1>3. RefreshFits(refreshing') /\ RefreshAccess' /\ PagesFit'
      /\ refreshing'.channel.lastRead \in {refreshing.channel.lastRead, 0}
  <2>1. CASE UNCHANGED refreshing
    BY <1>1, <2>1, RefreshAccessKept, PagesKept DEF FitsInv, AccessInv, GapInv
  <2>2. CASE refreshing' = NotRefreshing \/ \E p : refreshing' = NewRefresh(chat, p)
    <3>1. chat'.rev \in Nat /\ chat.rev <= chat'.rev
      BY <1>2 DEF Later
    <3> QED BY <1>2, <2>2, <3>1, RefreshAnew, NoChannelFits
  <2> QED BY <2>1, <2>2
<1>4. ChatAccess' /\ UnreadExact'
  BY <1>1, ChatAccessKept, UnreadKept DEF AccessInv, GapInv
<1>5. OldersAccess' /\ SendsAccess'
  BY <1>1, <1>2, OldersKept, SendsAccessKept DEF AccessInv, FitsInv
<1>6. ShownInv'
  <2>1. chat'.cursor \in {chat.cursor, -1}
    BY DEF Grows, Clears, Cleared
  <2> QED BY <1>1, <1>2, <1>3, <2>1, ShownKept DEF MarksFit, Later
<1>7. FitsInv'
  BY <1>2, <1>3 DEF FitsInv, MarksFit
<1> QED BY <1>3, <1>4, <1>5, <1>6, <1>7 DEF TalkInv, AccessInv, GapInv

LEMMA StandsStill ==
    ASSUME TalkInv
    PROVE  /\ UNCHANGED <<chat, fetched>> => Grows /\ OutgoingInv' /\ AddsNoText
           /\ UNCHANGED olders => \A o \in olders' : OlderFits(o) /\ OlderFollows(o)
           /\ UNCHANGED sends => SendsFollow
           /\ UNCHANGED <<marking, readTo>> => MarksFit
<1>1. UNCHANGED <<chat, fetched>> => Grows /\ OutgoingInv' /\ AddsNoText
  BY DEF TalkInv, Grows, FitsInv, SnapFits, Views, AccessInv, ChatAccess, NothingLeft, OutgoingInv, OutgoingOnce,
         AddsNoText, Texts
<1>2. UNCHANGED olders => \A o \in olders' : OlderFits(o) /\ OlderFollows(o)
  BY DEF TalkInv, FitsInv, OlderFollows
<1>3. UNCHANGED sends => SendsFollow
  BY DEF TalkInv, AccessInv, SendsAccess, SendsFollow, Follows
<1>4. UNCHANGED <<marking, readTo>> => MarksFit
  BY DEF TalkInv, FitsInv, MarksFit, MarkFits
<1> QED BY <1>1, <1>2, <1>3, <1>4

(* What goes out is told by its clients' IDs.                              *)
LEMMA OutgoingKept ==
    ASSUME OutgoingInv, chat'.messages = chat.messages,
           \A p \in chat'.outgoing : Goes(p) /\ \E q \in chat.outgoing : p.client = q.client
    PROVE  OutgoingInv'
BY DEF OutgoingInv, OutgoingOnce

LEMMA OutgoingMerged ==
    ASSUME OutgoingInv, NEW items, SnapFits(chat), chat'.messages = Merge(chat, items).messages,
           chat'.outgoing = Merge(chat, items).outgoing
    PROVE  OutgoingInv'
BY Merging DEF OutgoingInv, OutgoingOnce

LEMMA OutgoingCleared == ASSUME Clears PROVE OutgoingInv'
BY DEF Clears, Cleared, OutgoingInv, OutgoingOnce

-----------------------------------------------------------------------------
(* The service.                                                            *)

LEMMA SendTurns ==
    ASSUME SendsAccess, NEW s \in sends, NEW t, t.client = s.client, t.rev = s.rev, t.awaited = s.awaited,
           t.phase = "DONE" => s.awaited, sends' \subseteq sends \cup {t}
    PROVE  SendsFollow
<1>1. ASSUME NEW u \in sends' PROVE (u.phase = "DONE" => u.awaited) /\ Follows(u)
  <2>1. CASE u \in sends
    BY <2>1 DEF Follows, SendsAccess
  <2>2. CASE u = t
    BY <2>2 DEF Follows
  <2> QED BY <2>1, <2>2
<1> QED BY <1>1 DEF SendsFollow

LEMMA SendsAnswered ==
    ASSUME SendsFit, SendsAccess, NEW s \in sends, NEW answer, NEW seq, SendAnswered(s, answer, seq)
    PROVE  SendsFollow
<1> DEFINE t == [s EXCEPT !.phase = "DONE", !.answer = answer, !.seq = seq]
<1>1. s \in [channel : Channels, by : {s.by}, client : {s.client}, awaited : {s.awaited}, rev : {s.rev},
             phase : {s.phase}, order : {s.order}, seq : {s.seq}, answer : {s.answer}]
  BY DEF SendsFit, SendFits
<1>2. t.client = s.client /\ t.rev = s.rev /\ t.awaited = s.awaited
  BY <1>1
<1>3. CASE s.awaited
  <2>1. sends' \subseteq sends \cup {t}
    BY <1>3 DEF SendAnswered
  <2> HIDE DEF t
  <2> QED BY <1>2, <1>3, <2>1, SendTurns
<1>4. CASE ~s.awaited
  <2>1. sends' \subseteq sends
    BY <1>4 DEF SendAnswered
  <2> QED BY <2>1 DEF SendsFollow, Follows, SendsAccess
<1> QED BY <1>3, <1>4

LEMMA SendsProceed ==
    ASSUME SendsFit, SendsAccess, NEW s \in sends, NEW phase \in {"KNOWN", "BEGUN", "SENDER", "CHANNEL"},
           NEW x,
           \/ Proceeds(s, [s EXCEPT !.phase = phase, !.order = x])
           \/ Proceeds(s, [s EXCEPT !.phase = phase, !.seq = x])
           \/ Proceeds(s, [s EXCEPT !.phase = phase])
    PROVE  SendsFollow
<1>1. s \in [channel : Channels, by : {s.by}, client : {s.client}, awaited : {s.awaited}, rev : {s.rev},
             phase : {s.phase}, order : {s.order}, seq : {s.seq}, answer : {s.answer}]
  BY DEF SendsFit, SendFits
<1> DEFINE Is(t) == t.client = s.client /\ t.rev = s.rev /\ t.awaited = s.awaited /\ t.phase = phase
<1>2. /\ Is([s EXCEPT !.phase = phase, !.order = x]) /\ Is([s EXCEPT !.phase = phase, !.seq = x])
      /\ Is([s EXCEPT !.phase = phase])
  BY <1>1
<1>3. PICK t : Is(t) /\ Proceeds(s, t)
  <2> HIDE DEF Is
  <2> QED BY <1>2
<1>4. t.phase # "DONE" /\ sends' \subseteq sends \cup {t}
  BY <1>3 DEF Proceeds
<1> QED BY <1>3, <1>4, SendTurns

LEMMA ServiceSends == ASSUME ChatInv, SendsAccess, ServerNext PROVE SendsFollow
<1>0. SendsFit
  BY DEF ChatInv
<1>a. sends' = sends => SendsFollow
  BY DEF SendsFollow, Follows, SendsAccess
<1>1. ASSUME NEW c, NEW by, SendsElsewhere(c, by) PROVE SendsFollow
  <2> DEFINE new == NewSend(c, by, <<"ELSEWHERE", quota["SEND_ELSEWHERE"]>>, FALSE, 0)
  <2>1. Elsewhere(new) /\ new.phase = "ASKED"
    BY DEF Elsewhere, NewSend
  <2>2. sends' = sends \cup {new}
    BY <1>1 DEF SendsElsewhere
  <2> HIDE DEF new
  <2>3. ASSUME NEW t \in sends' PROVE (t.phase = "DONE" => t.awaited) /\ (Follows(t) \/ Elsewhere(t))
    BY <2>1, <2>2 DEF SendsAccess, Follows
  <2> QED BY <2>3 DEF SendsFollow
<1>2. ASSUME NEW s \in sends, SendAsked(s) PROVE SendsFollow
  <2>1. ASSUME Proceeds(s, [s EXCEPT !.phase = "KNOWN", !.order = orders[s.channel]]) PROVE SendsFollow
    BY <1>0, <2>1, SendsProceed
  <2>2. ASSUME SendAnswered(s, "UNAVAILABLE", 0) PROVE SendsFollow
    BY <1>0, <2>2, SendsAnswered
  <2> QED BY <1>2, <2>1, <2>2 DEF SendAsked
<1>3. ASSUME NEW s \in sends, SendChecked(s) PROVE SendsFollow
  <2>1. (\E answer, seq : SendAnswered(s, answer, seq)) \/ Proceeds(s, [s EXCEPT !.phase = "BEGUN"])
    BY <1>3, Zenon DEF SendChecked
  <2>2. ASSUME NEW answer, NEW seq, SendAnswered(s, answer, seq) PROVE SendsFollow
    BY <1>0, <2>2, SendsAnswered
  <2>3. ASSUME Proceeds(s, [s EXCEPT !.phase = "BEGUN"]) PROVE SendsFollow
    BY <1>0, <2>3, SendsProceed
  <2> QED BY <2>1, <2>2, <2>3
<1>4. ASSUME NEW s \in sends, LockSender(s) PROVE SendsFollow
  <2>1. Proceeds(s, [s EXCEPT !.phase = "SENDER"])
    BY <1>4 DEF LockSender
  <2> QED BY <1>0, <2>1, SendsProceed
<1>5. ASSUME NEW s \in sends, LockChannel(s) PROVE SendsFollow
  <2> DEFINE n == channels[s.channel].latest + 1
  <2>1. \/ \E answer, seq : SendAnswered(s, answer, seq)
        \/ Proceeds(s, [s EXCEPT !.phase = "CHANNEL", !.seq = n])
    BY <1>5, Zenon DEF LockChannel
  <2> HIDE DEF n
  <2>2. ASSUME NEW answer, NEW seq, SendAnswered(s, answer, seq) PROVE SendsFollow
    BY <1>0, <2>2, SendsAnswered
  <2>3. ASSUME Proceeds(s, [s EXCEPT !.phase = "CHANNEL", !.seq = n]) PROVE SendsFollow
    BY <1>0, <2>3, SendsProceed
  <2> QED BY <2>1, <2>2, <2>3
<1>6. ASSUME NEW s \in sends, SendStored(s) \/ LockTimesOut(s) PROVE SendsFollow
  <2>1. PICK answer, seq : SendAnswered(s, answer, seq)
    BY <1>6 DEF SendStored, LockTimesOut
  <2> QED BY <1>0, <2>1, SendsAnswered
<1>7. ASSUME \/ \E c \in Channels, courier \in {Me, Nobody}, ends \in BOOLEAN : ErrandChanges(c, courier, ends)
             \/ SecondPasses \/ DayPasses \/ SweepStarts \/ PageSettled
             \/ \E c \in Channels : Settle(c) \/ DeleteChannel(c) \/ DeleteFails(c)
      PROVE  SendsFollow
  <2>1. sends' = sends
    BY <1>7 DEF ErrandChanges, SecondPasses, DayPasses, SweepStarts, PageSettled, Settle, DeleteChannel,
                DeleteFails, ChatKept
  <2> QED BY <1>a, <2>1
<1> QED BY <1>1, <1>2, <1>3, <1>4, <1>5, <1>6, <1>7 DEF ServerNext

(* Read positions go when their channel does, and are else left alone.     *)
LEMMA ServicePositions ==
    ASSUME TalkInv, ServerNext, UNCHANGED marking, Mine \in Channels
    PROVE  MarksFit
<1>1. readTo' = readTo \/ \E c \in Channels : readTo' = [readTo EXCEPT ![c] = 0]
  <2>1. ASSUME NEW s \in sends,
               \/ SendAsked(s) \/ SendChecked(s) \/ LockSender(s) \/ LockChannel(s)
               \/ SendStored(s) \/ LockTimesOut(s)
        PROVE  readTo' = readTo
    BY <2>1 DEF SendAsked, SendChecked, LockSender, LockChannel, SendStored, LockTimesOut
  <2>2. ASSUME \/ \E c \in Channels, courier \in {Me, Nobody}, ends \in BOOLEAN : ErrandChanges(c, courier, ends)
               \/ \E c \in Channels, by \in {Me, Other} : SendsElsewhere(c, by)
               \/ SecondPasses \/ DayPasses \/ SweepStarts \/ PageSettled
               \/ \E c \in Channels : Settle(c) \/ DeleteFails(c)
        PROVE  readTo' = readTo
    BY <2>2 DEF ErrandChanges, SendsElsewhere, SecondPasses, DayPasses, SweepStarts, PageSettled, Settle,
                DeleteFails, ChatKept
  <2>3. ASSUME NEW c \in Channels, DeleteChannel(c) PROVE readTo' = [readTo EXCEPT ![c] = 0]
    BY <2>3 DEF DeleteChannel
  <2> QED BY <2>1, <2>2, <2>3 DEF ServerNext
<1>2. readTo \in [Channels -> Nat] /\ MarkFits
  BY DEF TalkInv, FitsInv
<1>3. readTo' \in [Channels -> Nat] /\ readTo'[Mine] \in {readTo[Mine], 0}
  BY <1>1, <1>2
<1>4. MarkFits'
  BY <1>2 DEF MarkFits
<1> QED BY <1>3, <1>4 DEF MarksFit

LEMMA ServiceTalks ==
    ASSUME ChatInv, TalkInv, ServerNext, UNCHANGED chatPageVars, Mine \in Channels
    PROVE  TalkInv'
<1>1. UNCHANGED <<chat, refreshing, olders, marking, fetched>>
  BY DEF chatPageVars
<1>2. SendsFollow
  BY ServiceSends DEF TalkInv, AccessInv
<1>3. MarksFit
  BY <1>1, ServicePositions
<1>4. Grows /\ OutgoingInv' /\ \A o \in olders' : OlderFits(o) /\ OlderFollows(o)
  BY <1>1, StandsStill
<1> QED BY <1>1, <1>2, <1>3, <1>4, TalkMoves

-----------------------------------------------------------------------------
(* The page, but for what a refresh fetches.                               *)

LEMMA RefreshRestarts ==
    ASSUME TalkInv, Mine \in Channels, ChatTimer \/ RefreshNow \/ ErrandShown
    PROVE  TalkInv' /\ AddsNoText
<1>1. PICK p : Restart(p)
  BY DEF ChatTimer, RefreshNow, ErrandShown
<1>2. UNCHANGED <<olders, marking, fetched, readTo, sends>>
  BY <1>1 DEF Restart, chatVars
<1>3. Alike(chat', chat) /\ chat'.outgoing = chat.outgoing
  BY <1>1, SnapEdits DEF Restart, TalkInv, FitsInv
<1>4. Grows
  BY <1>2, <1>3, AlikeGrows DEF TalkInv, AccessInv, ChatAccess, NothingLeft
<1>5. OutgoingInv'
  BY <1>3, OutgoingKept DEF TalkInv, Alike, OutgoingInv
<1>6. refreshing' = NewRefresh(chat, p)
  BY <1>1 DEF Restart
<1>7. AddsNoText
  BY <1>3 DEF Alike, AddsNoText, Texts
<1> QED BY <1>2, <1>4, <1>5, <1>6, <1>7, StandsStill, TalkMoves

(* What is left as it was, or merged with what was fetched, or cleared by  *)
(* a refusal.                                                              *)
Merges(items) ==
    /\ Alike(chat', Merge(chat, items)) /\ chat'.outgoing = Merge(chat, items).outgoing
    /\ fetched' = fetched \cup Seqs(items)
Stays == Alike(chat', chat) /\ chat'.outgoing = chat.outgoing /\ fetched' = fetched

LEMMA SettledMoves ==
    ASSUME TalkInv, Stays \/ Clears \/ (chat.channel.got /\ \E items \in SUBSET Texts : Merges(items))
    PROVE  (Grows \/ Clears) /\ OutgoingInv' /\ AddsNoText
<1>0. FitsInv /\ SnapFits(chat) /\ ChatAccess /\ OutgoingInv
  BY DEF TalkInv, FitsInv, AccessInv
<1>1. CASE Stays
  <2>1. Grows
    BY <1>0, <1>1, AlikeGrows DEF Stays, ChatAccess, NothingLeft
  <2>2. OutgoingInv'
    BY <1>0, <1>1, OutgoingKept DEF Stays, Alike, OutgoingInv
  <2>3. AddsNoText
    BY <1>1 DEF Stays, Alike, AddsNoText, Texts
  <2> QED BY <2>1, <2>2, <2>3
<1>2. CASE Clears
  BY <1>2, OutgoingCleared DEF Clears, Cleared, AddsNoText
<1>3. ASSUME chat.channel.got, NEW items \in SUBSET Texts, Merges(items) PROVE Grows /\ OutgoingInv' /\ AddsNoText
  <2> DEFINE d == Merge(chat, items)
  <2>1. /\ SnapFits(d) /\ d.channel = chat.channel /\ d.cursor = chat.cursor /\ d.rev = chat.rev
        /\ d.messages = chat.messages \cup items
    BY <1>0, Merging
  <2>2. Alike(chat', d) /\ chat'.outgoing = d.outgoing /\ fetched \subseteq fetched'
    BY <1>3 DEF Merges
  <2>3. OutgoingInv'
    BY <1>0, <2>2, OutgoingMerged DEF Alike
  <2>7. AddsNoText
    <3>1. d.outgoing \subseteq chat.outgoing
      BY <1>0, Merging
    <3> HIDE DEF d
    <3> QED BY <2>1, <2>2, <3>1 DEF Alike, AddsNoText, Texts
  <2> HIDE DEF d
  <2>4. /\ chat'.channel = chat.channel /\ chat'.rev = chat.rev /\ chat'.cursor = chat.cursor
        /\ chat.messages \subseteq chat'.messages /\ SnapFits(chat')
    BY <2>1, <2>2 DEF Alike
  <2>5. chat.channel.lastRead <= chat'.channel.lastRead
    BY <1>0, <2>4 DEF SnapFits, Views
  <2>6. Grows
    BY <1>3, <2>2, <2>4, <2>5 DEF Grows
  <2> QED BY <2>3, <2>6, <2>7
<1> QED BY <1>1, <1>2, <1>3

LEMMA OlderAsks == ASSUME TalkInv, Mine \in Channels, Older PROVE TalkInv' /\ AddsNoText
<1> DEFINE new == [rev |-> chat.rev, before |-> Min(Seqs(chat.messages)), answer |-> "NONE", items |-> {},
                   more |-> FALSE]
<1>1. /\ UNCHANGED <<refreshing, marking, fetched, readTo, sends>> /\ chat.channel.got
      /\ olders' = olders \cup {new} /\ chat' = [chat EXCEPT !.olderLoading = TRUE]
  BY DEF Older, chatVars
<1>2. OlderFits(new) /\ OlderFollows(new)
  BY <1>1 DEF OlderFits, OlderFollows, TalkInv, FitsInv, SnapFits
<1> HIDE DEF new
<1>3. \A o \in olders' : OlderFits(o) /\ OlderFollows(o)
  BY <1>1, <1>2 DEF TalkInv, FitsInv, OlderFollows
<1>4. Stays
  BY <1>1, SnapEdits DEF Stays, TalkInv, FitsInv
<1> QED BY <1>1, <1>3, <1>4, SettledMoves, StandsStill, TalkMoves

LEMMA OlderIsServed ==
    ASSUME TalkInv, Mine \in Channels, NEW o \in olders, NEW reached, OlderServed(o, reached)
    PROVE  TalkInv' /\ AddsNoText
<1>1. UNCHANGED <<chat, refreshing, marking, fetched, readTo, sends>>
  BY DEF OlderServed, ServerKept
<1> DEFINE A(answer, items, more) == [o EXCEPT !.answer = answer, !.items = items, !.more = more]
           B(answer) == [o EXCEPT !.answer = answer]
<1>2. PICK answer, items, more : olders' = (olders \ {o}) \cup {A(answer, items, more)}
                                 \/ olders' = (olders \ {o}) \cup {B(answer)}
  BY Zenon DEF OlderServed
<1>3. OlderFits(o)
  BY DEF TalkInv, FitsInv
<1>4. /\ OlderFits(A(answer, items, more)) /\ A(answer, items, more).rev = o.rev
      /\ OlderFits(B(answer)) /\ B(answer).rev = o.rev
  BY <1>3 DEF OlderFits
<1> HIDE DEF A, B
<1>5. \A q \in olders' : OlderFits(q) /\ OlderFollows(q)
  BY <1>2, <1>4 DEF TalkInv, FitsInv, OlderFollows
<1> QED BY <1>1, <1>5, StandsStill, TalkMoves

LEMMA OlderComes ==
    ASSUME TalkInv, Mine \in Channels, NEW o \in olders, OlderArrives(o)
    PROVE  TalkInv' /\ AddsNoText
<1>1. UNCHANGED <<refreshing, marking, readTo, sends>> /\ olders' = olders \ {o}
  BY DEF OlderArrives, chatVars
<1>2. \A q \in olders' : OlderFits(q) /\ OlderFollows(q)
  BY <1>1 DEF TalkInv, FitsInv, OlderFollows
<1>0. SnapFits(chat) /\ SnapFits(Merge(chat, o.items))
  BY Merging DEF TalkInv, FitsInv
<1>3. Stays \/ Clears \/ (chat.channel.got /\ \E items \in SUBSET Texts : Merges(items))
  <2>1. CASE ~Current(o.rev)
    <3>1. UNCHANGED <<chat, fetched>>
      BY <2>1 DEF OlderArrives
    <3> QED BY <1>0, <3>1 DEF Stays, Alike
  <2>2. CASE Current(o.rev) /\ o.answer = "GRANTED"
    <3> DEFINE d == Merge(chat, o.items)
    <3>1. chat' = [d EXCEPT !.hasOlder = o.more, !.error = FALSE, !.olderLoading = FALSE]
          /\ fetched' = fetched \cup Seqs(o.items)
      BY <2>2 DEF OlderArrives
    <3>a. SnapFits(d)
      BY <1>0
    <3>b. Alike(chat', d) /\ chat'.outgoing = d.outgoing
      <4> HIDE DEF d
      <4> QED BY <3>1, <3>a DEF Alike, SnapFits
    <3>2. Merges(o.items)
      BY <3>1, <3>b DEF Merges
    <3>3. chat.channel.got
      BY <2>2 DEF TalkInv, AccessInv, OldersAccess
    <3>4. o.items \in SUBSET Texts
      BY DEF Texts
    <3> QED BY <3>2, <3>3, <3>4
  <2>3. CASE Current(o.rev) /\ o.answer # "GRANTED"
    <3> DEFINE d == AfterFailure(chat, o.answer)
    <3>1. chat' = [d EXCEPT !.olderLoading = FALSE] /\ fetched' = fetched
      BY <2>3 DEF OlderArrives
    <3>2. Cleared(d, chat) \/ (Alike(d, chat) /\ d.outgoing = chat.outgoing)
      BY <1>0, RefusalClears
    <3> HIDE DEF d
    <3>a. SnapFits(d)
      BY <3>2 DEF Alike, Cleared
    <3>3. Alike(chat', d) /\ chat'.outgoing = d.outgoing
      BY <3>1, <3>a DEF Alike, SnapFits
    <3> QED BY <3>1, <3>2, <3>3 DEF Stays, Clears, Cleared, Alike
  <2> QED BY <2>1, <2>2, <2>3
<1> QED BY <1>1, <1>2, <1>3, SettledMoves, StandsStill, TalkMoves

LEMMA Transmits ==
    ASSUME TalkInv, Mine \in Channels, NEW client, Transmit(client),
           \A m \in chat.messages : m.by = Me => m.client # client
    PROVE  TalkInv'
<1> DEFINE new == NewSend(Mine, Me, client, TRUE, chat.rev)
           p1 == [client |-> client, state |-> "pending"]
           out == {p \in chat.outgoing : p.client # client} \cup {p1}
<1>1. /\ UNCHANGED <<refreshing, olders, marking, fetched, readTo>> /\ chat.channel.open
      /\ sends' = sends \cup {new} /\ chat' = [chat EXCEPT !.outgoing = out]
  BY DEF Transmit, MaySend
<1>2. chat.channel.got /\ SnapFits(chat) /\ OutgoingInv /\ SendsAccess
  BY <1>1 DEF TalkInv, AccessInv, ChatAccess, FitsInv
<1>3. new.rev = chat.rev /\ new.phase = "ASKED"
  BY DEF NewSend
<1>4. p1.client = client /\ Goes(p1)
  BY DEF Goes
<1>5. SendsBegin
  BY <1>1, <1>2, <1>3 DEF SendsBegin, Begins
<1> HIDE DEF new, p1
<1>6. Alike(chat', chat) /\ chat'.outgoing = out
  <2> HIDE DEF out
  <2> QED BY <1>1, <1>2 DEF SnapFits, Alike
<1>7. Grows
  BY <1>1, <1>2, <1>6, AlikeGrows DEF TalkInv, AccessInv
<1>8. OutgoingInv'
  <2>1. chat'.messages = chat.messages
    BY <1>6 DEF Alike
  <2>2. ASSUME NEW p \in chat'.outgoing
        PROVE  Goes(p) /\ \A m \in chat.messages : m.by = Me => m.client # p.client
    BY <1>2, <1>4, <1>6 DEF OutgoingInv, OutgoingOnce
  <2> QED BY <2>1, <2>2 DEF OutgoingInv, OutgoingOnce
<1> QED BY <1>1, <1>5, <1>7, <1>8, StandsStill, TalkMoves

LEMMA FailureMarked ==
    ASSUME OutgoingInv, NEW client
    PROVE  \A p \in MarkedFailed(chat.outgoing, client) : Goes(p) /\ \E q \in chat.outgoing : p.client = q.client
<1> SUFFICES ASSUME NEW q \in chat.outgoing, NEW p, p = IF q.client = client THEN [q EXCEPT !.state = "failed"] ELSE q
             PROVE  Goes(p) /\ p.client = q.client
  BY DEF MarkedFailed
<1>1. Goes(q)
  BY DEF OutgoingInv
<1> QED BY <1>1 DEF Goes

LEMMA SendFails ==
    ASSUME TalkInv, NEW s \in sends, NEW answer, chat' = NotSent(s, answer), fetched' = fetched,
           chat.channel.got
    PROVE  (Grows \/ Clears) /\ OutgoingInv' /\ AddsNoText
<1>0. SnapFits(chat) /\ OutgoingInv
  BY DEF TalkInv, FitsInv
<1>1. CASE Refusal(answer)
  <2>1. Clears
    BY <1>0, <1>1, RefusalClears DEF NotSent, Clears
  <2> QED BY <2>1, SettledMoves
<1>2. CASE ~Refusal(answer)
  <2> DEFINE out == MarkedFailed(chat.outgoing, s.client)
             D(x, y) == [chat EXCEPT !.closed = x, !.throttled = y, !.outgoing = out]
  <2>1. \E x, y : chat' = D(x, y)
    BY <1>2 DEF NotSent
  <2>2. ASSUME NEW x, NEW y PROVE Alike(D(x, y), chat) /\ D(x, y).outgoing = out
    <3> HIDE DEF out
    <3> QED BY <1>0 DEF SnapFits, Alike
  <2> HIDE DEF D
  <2>3. Alike(chat', chat) /\ chat'.outgoing = out
    BY <2>1, <2>2
  <2>4. OutgoingInv'
    BY <1>0, <2>3, FailureMarked, OutgoingKept DEF Alike
  <2>5. Grows
    BY <2>3, AlikeGrows DEF TalkInv, AccessInv
  <2>6. AddsNoText
    BY <2>3, FailureMarked, <1>0 DEF AddsNoText, Texts, Alike
  <2> QED BY <2>4, <2>5, <2>6
<1> QED BY <1>1, <1>2

LEMMA SendComes ==
    ASSUME TalkInv, Mine \in Channels, NEW s \in sends, SendArrives(s)
    PROVE  TalkInv' /\ AddsNoText
<1>1. UNCHANGED <<refreshing, olders, marking, readTo>> /\ sends' = sends \ {s}
  BY DEF SendArrives
<1>2. SendsFollow
  BY <1>1 DEF SendsFollow, Follows, TalkInv, AccessInv, SendsAccess
<1>3. SnapFits(chat) /\ (Current(s.rev) => chat.channel.got)
  BY DEF TalkInv, FitsInv, AccessInv, SendsAccess, SendArrives
<1>4. (Grows \/ Clears) /\ OutgoingInv' /\ AddsNoText
  <2>1. CASE ~Current(s.rev)
    <3>1. UNCHANGED <<chat, fetched>>
      BY <2>1 DEF SendArrives
    <3> QED BY <3>1, StandsStill
  <2>2. CASE Current(s.rev) /\ s.answer = "SENT"
    <3> DEFINE sent == {m \in Of(Mine) : m.seq = s.seq}
    <3>1. chat' = Merge(chat, sent) /\ fetched' = fetched \cup Seqs(sent)
      BY <2>2 DEF SendArrives
    <3>4. sent \in SUBSET Texts
      BY DEF Of, Texts
    <3> HIDE DEF sent
    <3>2. SnapFits(Merge(chat, sent))
      BY <1>3, Merging
    <3>3. Merges(sent)
      BY <3>1, <3>2 DEF Merges, Alike
    <3> QED BY <1>3, <2>2, <3>3, <3>4, SettledMoves
  <2>3. CASE Current(s.rev) /\ s.answer # "SENT"
    <3>1. chat' = NotSent(s, s.answer) /\ fetched' = fetched
      BY <2>3 DEF SendArrives
    <3> QED BY <1>3, <2>3, <3>1, SendFails
  <2> QED BY <2>1, <2>2, <2>3
<1> QED BY <1>1, <1>2, <1>4, StandsStill, TalkMoves

LEMMA SendIsLost ==
    ASSUME SendsFit, TalkInv, Mine \in Channels, NEW s \in sends, SendLost(s)
    PROVE  TalkInv' /\ AddsNoText
<1> DEFINE t == [s EXCEPT !.awaited = FALSE]
<1>1. /\ UNCHANGED <<refreshing, olders, marking, readTo, fetched>> /\ s.awaited
      /\ sends' = (sends \ {s}) \cup (IF s.phase = "DONE" THEN {} ELSE {t})
  BY DEF SendLost
<1>2. t.client = s.client /\ t.rev = s.rev /\ t.phase = s.phase /\ ~t.awaited
  <2>1. s \in [channel : Channels, by : {s.by}, client : {s.client}, awaited : {s.awaited}, rev : {s.rev},
               phase : {s.phase}, order : {s.order}, seq : {s.seq}, answer : {s.answer}]
    BY DEF SendsFit, SendFits
  <2> QED BY <2>1
<1> HIDE DEF t
<1>3. SendsFollow
  BY <1>1, <1>2 DEF SendsFollow, Follows, TalkInv, AccessInv, SendsAccess
<1>4. (Grows \/ Clears) /\ OutgoingInv' /\ AddsNoText
  <2>1. CASE ~Current(s.rev)
    <3>1. UNCHANGED <<chat, fetched>>
      BY <1>1, <2>1 DEF SendLost
    <3> QED BY <3>1, StandsStill
  <2>2. CASE Current(s.rev)
    <3>1. chat' = NotSent(s, "NETWORK")
      BY <2>2 DEF SendLost
    <3>2. chat.channel.got
      BY <1>1, <2>2 DEF TalkInv, AccessInv, SendsAccess
    <3> QED BY <1>1, <3>1, <3>2, SendFails
  <2> QED BY <2>1, <2>2
<1> QED BY <1>1, <1>3, <1>4, StandsStill, TalkMoves

LEMMA ThrottlePasses == ASSUME TalkInv, Mine \in Channels, ThrottleEnds PROVE TalkInv' /\ AddsNoText
<1>1. UNCHANGED <<refreshing, olders, marking, fetched, readTo, sends>>
      /\ chat' = [chat EXCEPT !.throttled = FALSE]
  BY DEF ThrottleEnds, chatVars
<1>2. Stays
  BY <1>1, SnapEdits DEF Stays, TalkInv, FitsInv
<1> QED BY <1>1, <1>2, SettledMoves, StandsStill, TalkMoves

(* Marking read.                                                           *)
LEMMA MarksBegin == ASSUME TalkInv, Mine \in Channels, MarkVisibleRead PROVE TalkInv' /\ AddsNoText
<1>1. UNCHANGED <<chat, refreshing, olders, fetched, readTo, sends>>
  BY DEF MarkVisibleRead, chatVars
<1>2. /\ marking' = [NotMarking EXCEPT !.phase = "ASKED", !.rev = chat.rev, !.seq = chat.cursor]
      /\ chat.cursor > chat.channel.lastRead
  BY DEF MarkVisibleRead, ReadSeq
<1>3. chat.cursor \in Nat /\ readTo \in [Channels -> Nat]
  BY <1>2 DEF TalkInv, FitsInv, SnapFits, Views
<1>4. MarkFits' /\ marking'.seq = chat.cursor
  BY <1>2, <1>3 DEF MarkFits, NotMarking
<1>5. MarksFit
  BY <1>1, <1>3, <1>4 DEF MarksFit
<1> QED BY <1>1, <1>5, StandsStill, TalkMoves

LEMMA MarksServed == ASSUME TalkInv, Mine \in Channels, MarkServed PROVE TalkInv' /\ AddsNoText
<1>1. UNCHANGED <<chat, refreshing, olders, fetched, sends>>
  BY DEF MarkServed, ServerKept
<1>2. MarkFits /\ readTo \in [Channels -> Nat] /\ readTo[Mine] \in Nat /\ marking.seq \in Nat
  BY DEF TalkInv, FitsInv, MarkFits
<1> DEFINE D(answer) == [marking EXCEPT !.phase = "DONE", !.answer = answer,
                                        !.seq = IF readTo[Mine] > @ THEN readTo[Mine] ELSE @]
<1>3. \E answer : marking' = D(answer)
  BY DEF MarkServed
<1>4. ASSUME NEW answer
      PROVE  /\ D(answer) \in [phase : {D(answer).phase}, rev : {D(answer).rev}, seq : Nat,
                               answer : {D(answer).answer}]
             /\ D(answer).seq \in {marking.seq, readTo[Mine]}
  BY <1>2 DEF MarkFits
<1> HIDE DEF D
<1>5. MarkFits' /\ marking'.seq \in {marking.seq, readTo[Mine]}
  BY <1>3, <1>4 DEF MarkFits
<1>6. readTo' = readTo \/ readTo' = [readTo EXCEPT ![Mine] = marking.seq]
  BY Zenon DEF MarkServed
<1>7. readTo' \in [Channels -> Nat] /\ readTo'[Mine] \in {readTo[Mine], marking.seq}
  BY <1>2, <1>6
<1>8. MarksFit
  BY <1>5, <1>7 DEF MarksFit
<1> QED BY <1>1, <1>8, StandsStill, TalkMoves

LEMMA MarksCome ==
    ASSUME TalkInv, Mine \in Channels, NEW lost \in BOOLEAN, MarkArrives(lost)
    PROVE  TalkInv' /\ AddsNoText
<1>1. UNCHANGED <<refreshing, olders, fetched, readTo, sends>> /\ marking' = NotMarking
  BY DEF MarkArrives, chatVars
<1>2. MarkFits' /\ marking'.seq = 0 /\ readTo \in [Channels -> Nat]
  BY <1>1 DEF MarkFits, NotMarking, TalkInv, FitsInv
<1>3. MarksFit
  BY <1>1, <1>2 DEF MarksFit
<1>0. SnapFits(chat) /\ MarkFits /\ OutgoingInv /\ ChatAccess
  BY DEF TalkInv, FitsInv, AccessInv
<1>4. \/ chat' = chat
      \/ Refusal(marking.answer) /\ chat' = AfterFailure(chat, marking.answer)
      \/ chat' = [chat EXCEPT !.channel.lastRead = IF @ > marking.seq \/ ~chat.channel.got THEN @ ELSE marking.seq]
  BY DEF MarkArrives
<1>5. CASE chat' = chat
  BY <1>1, <1>3, <1>5, StandsStill, TalkMoves
<1>6. CASE Refusal(marking.answer) /\ chat' = AfterFailure(chat, marking.answer)
  <2>1. Clears
    BY <1>0, <1>1, <1>6, RefusalClears DEF Clears
  <2> QED BY <1>1, <1>3, <2>1, OutgoingCleared, SettledMoves, StandsStill, TalkMoves
<1>7. CASE chat' = [chat EXCEPT !.channel.lastRead = IF @ > marking.seq \/ ~chat.channel.got THEN @ ELSE marking.seq]
  <2>1. /\ SnapFits(chat') /\ chat'.rev = chat.rev /\ chat'.cursor = chat.cursor
        /\ chat'.messages = chat.messages /\ chat'.outgoing = chat.outgoing
        /\ chat'.channel.got = chat.channel.got /\ chat'.channel.open = chat.channel.open
        /\ chat.channel.lastRead <= chat'.channel.lastRead
    BY <1>0, <1>7 DEF SnapFits, Views, MarkFits
  <2>2. Grows
    BY <1>0, <1>1, <2>1 DEF Grows, ChatAccess, NothingLeft
  <2>3. OutgoingInv'
    BY <1>0, <2>1, OutgoingKept DEF OutgoingInv
  <2>4. AddsNoText
    BY <2>1 DEF AddsNoText, Texts
  <2> QED BY <1>1, <1>3, <2>2, <2>3, <2>4, StandsStill, TalkMoves
<1> QED BY <1>4, <1>5, <1>6, <1>7

-----------------------------------------------------------------------------
(* What a refresh fetches.                                                 *)

LEMMA RefreshIsServed ==
    ASSUME ChatInv, ChatInv', TalkInv, NEW reached \in BOOLEAN, RefreshServed(reached)
    PROVE  TalkInv' /\ AddsNoText
<1> DEFINE answer == IF reached THEN Granted ELSE "UNAVAILABLE"
           items == CASE refreshing.phase = "LATEST" -> Of(Mine)
                      [] refreshing.phase = "AFTER" -> {m \in Of(Mine) : m.seq > chat.cursor}
                      [] OTHER -> {}
           fitting == IF refreshing.phase = "LATEST" THEN Highest(items) ELSE Lowest(items)
           got == IF answer = "GRANTED" THEN fitting ELSE {}
           view == IF answer = "GRANTED" /\ refreshing.phase = "CHANNEL"
                   THEN [got |-> TRUE, open |-> Open(orders[Mine]), lastRead |-> readTo[Mine],
                         latest |-> channels'[Mine].latest]
                   ELSE refreshing.channel
           E(a, i, m, v) == [refreshing EXCEPT !.answer = a, !.items = i, !.more = m, !.channel = v]
<1>1. /\ UNCHANGED <<chat, olders, marking, fetched, readTo, sends>> /\ refreshing.phase # "NONE"
      /\ refreshing' = E(answer, got, answer = "GRANTED" /\ fitting # items, view)
  BY DEF RefreshServed, ServerKept
<1>2. FitsInv /\ AccessInv /\ ShownInv /\ GapInv /\ RefreshFits(refreshing) /\ RefreshAccess /\ PagesFit
  BY DEF TalkInv, FitsInv, AccessInv, GapInv
<1>3. Mine \in Channels /\ readTo[Mine] \in Nat
  BY <1>2, ChatAssumption DEF FitsInv, Mine, Channels
<1>4. /\ view \in Views /\ (view.open => view.got)
      /\ answer = "GRANTED" /\ refreshing.phase = "CHANNEL" => view.got
      /\ refreshing.phase # "CHANNEL" => view = refreshing.channel
      /\ view.lastRead \in {refreshing.channel.lastRead, readTo[Mine]}
  <2>1. channels'[Mine].latest \in Nat
    BY <1>3 DEF ChatInv, ChannelsInv, ChatTypes
  <2>2. refreshing.channel \in Views /\ (refreshing.channel.open => refreshing.channel.got)
    BY <1>2 DEF RefreshFits, RefreshAccess
  <2>3. CASE answer = "GRANTED" /\ refreshing.phase = "CHANNEL"
    <3> DEFINE o == Open(orders[Mine])
    <3>1. o \in BOOLEAN
      BY DEF Open
    <3>2. view = [got |-> TRUE, open |-> o, lastRead |-> readTo[Mine], latest |-> channels'[Mine].latest]
      BY <2>3
    <3> HIDE DEF o, view
    <3>3. view \in Views /\ view.got /\ view.lastRead = readTo[Mine]
      BY <1>3, <2>1, <3>1, <3>2 DEF Views
    <3> QED BY <2>3, <3>3
  <2>4. CASE ~(answer = "GRANTED" /\ refreshing.phase = "CHANNEL")
    <3>1. view = refreshing.channel
      BY <2>4
    <3> HIDE DEF view, answer
    <3> QED BY <2>2, <2>4, <3>1
  <2> QED BY <2>3, <2>4
<1>5. refreshing.phase = "LATEST" /\ answer = "GRANTED" => \E a \in Nat \ {0}, b \in Nat : Seqs(got) = a .. b
  <2> SUFFICES ASSUME refreshing.phase = "LATEST", answer = "GRANTED"
               PROVE  \E a \in Nat \ {0}, b \in Nat : Seqs(got) = a .. b
    OBVIOUS
  <2> DEFINE ms == Of(Mine)
  <2>1. got = Highest(ms)
    OBVIOUS
  <2>a. PICK one \in Nat \ {0} : one = 1
    OBVIOUS
  <2>2. /\ Seqs(ms) = one .. channels[Mine].latest /\ channels[Mine].latest \in Nat
        /\ \A m, k \in ms : m.seq = k.seq => m = k
    BY <2>a, RowOf
  <2> HIDE DEF ms
  <2>3. PICK d \in Nat \ {0} : Seqs(Highest(ms)) = d .. channels[Mine].latest
    BY <2>2, PagesAreRows
  <2> QED BY <2>1, <2>2, <2>3
<1>6. refreshing.phase = "AFTER" /\ Current(refreshing.rev) /\ answer = "GRANTED" =>
          \E b \in Nat : Seqs(got) = chat.cursor + 1 .. b
  <2> SUFFICES ASSUME refreshing.phase = "AFTER", Current(refreshing.rev), answer = "GRANTED"
               PROVE  \E b \in Nat : Seqs(got) = chat.cursor + 1 .. b
    OBVIOUS
  <2> DEFINE ms == {m \in Of(Mine) : m.seq > chat.cursor}
  <2>1. got = Lowest(ms)
    OBVIOUS
  <2>2. chat.cursor \in Nat
    BY <1>2 DEF PagesFit
  <2>3. /\ Seqs(ms) = chat.cursor + 1 .. channels[Mine].latest /\ channels[Mine].latest \in Nat
        /\ \A m, k \in ms : m.seq = k.seq => m = k
    <3>1. /\ Seqs(Of(Mine)) = 1 .. channels[Mine].latest /\ channels[Mine].latest \in Nat
          /\ \A m, k \in Of(Mine) : m.seq = k.seq => m = k
      BY RowOf
    <3> QED BY <2>2, <3>1, RowAfter
  <2>4. chat.cursor + 1 \in Nat \ {0}
    BY <2>2
  <2> HIDE DEF ms
  <2>5. PICK d \in Nat : Seqs(Lowest(ms)) = chat.cursor + 1 .. d
    BY <2>3, <2>4, PagesAreRows
  <2> QED BY <2>1, <2>5
<1> HIDE DEF got, answer, view, fitting, items
<1>7. ASSUME NEW a, NEW i, NEW m, NEW v \in Views
      PROVE  E(a, i, m, v) \in [phase : {refreshing.phase}, rev : {refreshing.rev}, version : {E(a, i, m, v).version},
                                final : {E(a, i, m, v).final}, channel : {v}, first : {refreshing.first},
                                last : {refreshing.last}, answer : {a}, items : {i}, more : {E(a, i, m, v).more}]
  BY <1>2 DEF RefreshFits
<1> HIDE DEF E
<1>8. /\ refreshing' \in [phase : {refreshing.phase}, rev : {refreshing.rev}, version : {refreshing'.version},
                          final : {refreshing'.final}, channel : {view}, first : {refreshing.first},
                          last : {refreshing.last}, answer : {answer}, items : {got}, more : {refreshing'.more}]
  BY <1>1, <1>4, <1>7
<1>9. /\ refreshing'.phase = refreshing.phase /\ refreshing'.rev = refreshing.rev /\ refreshing'.channel = view
      /\ refreshing'.first = refreshing.first /\ refreshing'.last = refreshing.last
      /\ refreshing'.answer = answer /\ refreshing'.items = got
  BY <1>8
<1>10. RefreshFits(refreshing')
  BY <1>1, <1>2, <1>4, <1>8, <1>9 DEF RefreshFits
<1>11. RefreshAccess'
  BY <1>1, <1>2, <1>4, <1>9 DEF RefreshAccess, Current
<1>12. PagesFit'
  BY <1>1, <1>2, <1>5, <1>6, <1>9 DEF PagesFit, Current
<1>13. ShownInv'
  BY <1>1, <1>2, <1>4, <1>9 DEF ShownInv, ShownTo
<1>14. FitsInv' /\ OutgoingInv' /\ UnreadExact'
  BY <1>1, <1>2, <1>10 DEF TalkInv, FitsInv, MarkFits, OutgoingInv, OutgoingOnce, GapInv, UnreadExact
<1>15. ChatAccess' /\ OldersAccess' /\ SendsAccess'
  BY <1>1, <1>2 DEF AccessInv, ChatAccess, NothingLeft, OldersAccess, SendsAccess, Current
<1>16. AddsNoText
  BY <1>1 DEF AddsNoText, Texts
<1> QED BY <1>11, <1>12, <1>13, <1>14, <1>15, <1>16 DEF TalkInv, AccessInv, GapInv

(* An answer that was awaited moves the refresh on, with the snapshot c    *)
(* and what it has fetched, r.                                             *)
Advances(c, r) == NextOf(c, r) \/ Ends(c, r)

LEMMA Advancing ==
    ASSUME NEW c, SnapFits(c), NEW r, RefreshFits(r), Advances(c, r)
    PROVE  /\ Alike(chat', c) /\ chat'.outgoing = c.outgoing /\ refreshing'.items = {}
           /\ \/ refreshing' = NotRefreshing
              \/ /\ RefreshFits(refreshing') /\ refreshing'.answer = "NONE" /\ refreshing'.rev = r.rev
                 /\ refreshing'.channel = r.channel /\ refreshing'.first = r.first /\ refreshing'.last = r.last
                 /\ \/ refreshing'.phase = "LATEST"
                    \/ refreshing'.phase = "AFTER" /\ c.cursor # -1
<1>1. ASSUME Ends(c, r)
      PROVE  /\ Alike(chat', c) /\ chat'.outgoing = c.outgoing
             /\ refreshing' = NotRefreshing /\ refreshing'.items = {}
  <2> DEFINE D(x, y) == [c EXCEPT !.error = FALSE, !.hasOlder = x, !.timer = y]
  <2>1. chat' = D(c.messages # {} /\ Min(Seqs(c.messages)) > 1, r.channel.open /\ ~c.closed /\ ~r.final)
        /\ refreshing' = NotRefreshing
    BY <1>1 DEF Ends
  <2>2. ASSUME NEW x, NEW y PROVE Alike(D(x, y), c) /\ D(x, y).outgoing = c.outgoing
    BY DEF SnapFits, Alike
  <2> HIDE DEF D
  <2> QED BY <2>1, <2>2 DEF NotRefreshing
<1>2. ASSUME NEW phase \in {"LATEST", "AFTER"}, Continues(c, r, phase)
      PROVE  /\ Alike(chat', c) /\ chat'.outgoing = c.outgoing
             /\ RefreshFits(refreshing') /\ refreshing'.answer = "NONE" /\ refreshing'.rev = r.rev
             /\ refreshing'.channel = r.channel /\ refreshing'.first = r.first /\ refreshing'.last = r.last
             /\ refreshing'.phase = phase /\ refreshing'.items = {}
  <2>1. chat' = c /\ refreshing' = [r EXCEPT !.phase = phase, !.answer = "NONE", !.items = {}, !.more = FALSE]
    BY <1>2 DEF Continues
  <2>2. Alike(chat', c) /\ chat'.outgoing = c.outgoing
    BY <2>1 DEF Alike
  <2> QED BY <2>1, <2>2 DEF RefreshFits
<1>3. Ends(c, r) \/ Continues(c, r, "LATEST") \/ (Continues(c, r, "AFTER") /\ c.cursor # -1)
  BY DEF Advances, NextOf
<1> QED BY <1>1, <1>2, <1>3

(* What the snapshot that an answer makes has to fulfil.                   *)
Sound(c, r) ==
    /\ SnapFits(c) /\ c.rev = chat.rev /\ c.channel.got
    /\ \A p \in c.outgoing : Goes(p) /\ \A m \in c.messages : m.by = Me => m.client # p.client
    /\ c.messages \subseteq Texts /\ \A p \in c.outgoing : \E q \in chat.outgoing : p.client = q.client
    /\ RefreshFits(r) /\ r.rev = chat.rev /\ (r.channel.open => r.channel.got)
    /\ r.channel.lastRead <= c.channel.lastRead /\ ShownTo(r.channel.lastRead)
    /\ 1 .. c.cursor \subseteq fetched'
    /\ c.cursor > c.channel.lastRead => c.channel.lastRead + 1 .. c.cursor \subseteq Seqs(c.messages)
    /\ r.last # 0 => r.first .. r.last \subseteq fetched' \cap Seqs(c.messages)

LEMMA RefreshAdvances ==
    ASSUME TalkInv, NEW c, NEW r, Sound(c, r), Advances(c, r), fetched \subseteq fetched',
           UNCHANGED <<olders, marking, sends, readTo>>
    PROVE  TalkInv' /\ AddsNoText /\ refreshing'.items = {}
<1>1. FitsInv /\ AccessInv /\ ShownInv /\ GapInv /\ SnapFits(chat) /\ chat.rev \in Nat
  BY DEF TalkInv, FitsInv, SnapFits
<1>2. /\ Alike(chat', c) /\ chat'.outgoing = c.outgoing /\ refreshing'.items = {}
      /\ \/ refreshing' = NotRefreshing
         \/ /\ RefreshFits(refreshing') /\ refreshing'.answer = "NONE" /\ refreshing'.rev = r.rev
            /\ refreshing'.channel = r.channel /\ refreshing'.first = r.first /\ refreshing'.last = r.last
            /\ \/ refreshing'.phase = "LATEST"
               \/ refreshing'.phase = "AFTER" /\ c.cursor # -1
  BY Advancing DEF Sound
<1>3. /\ SnapFits(chat') /\ chat'.channel = c.channel /\ chat'.cursor = c.cursor /\ chat'.rev = chat.rev
      /\ chat'.messages = c.messages /\ chat'.channel.got
  BY <1>2 DEF Alike, Sound
<1>4. Later
  BY <1>1, <1>3 DEF Later
<1>5. ChatAccess' /\ OldersAccess' /\ SendsAccess'
  <2>1. ChatAccess'
    BY <1>3 DEF ChatAccess, NothingLeft
  <2>2. SendsFollow /\ \A o \in olders' : OlderFits(o) /\ OlderFollows(o)
    BY StandsStill
  <2> QED BY <1>1, <1>4, <2>1, <2>2, OldersKept, SendsAccessKept DEF AccessInv, FitsInv
<1>6. RefreshFits(refreshing') /\ RefreshAccess' /\ PagesFit' /\ 1 .. refreshing'.channel.lastRead \subseteq fetched'
  <2>1. CASE refreshing' = NotRefreshing
    <3>1. chat'.rev \in Nat /\ chat.rev <= chat'.rev
      BY <1>1, <1>3
    <3>2. RefreshFits(refreshing') /\ RefreshAccess' /\ PagesFit' /\ refreshing'.channel = NoChannel
      BY <1>1, <2>1, <3>1, RefreshAnew
    <3> QED BY <3>2, NoChannelFits
  <2>2. CASE refreshing' # NotRefreshing
    <3>1. RefreshAccess'
      BY <1>1, <1>2, <1>3, <2>2 DEF RefreshAccess, Current, Sound
    <3>2. PagesFit'
      BY <1>2, <1>3, <2>2 DEF PagesFit, Current, Sound, SnapFits
    <3>3. 1 .. refreshing'.channel.lastRead \subseteq fetched'
      BY <1>2, <2>2 DEF ShownTo, Sound
    <3> QED BY <1>2, <2>2, <3>1, <3>2, <3>3
  <2> QED BY <2>1, <2>2
<1>7. ShownInv'
  BY <1>1, <1>3, <1>6 DEF ShownInv, ShownTo, Sound
<1>8. FitsInv' /\ OutgoingInv' /\ UnreadExact'
  <2>1. FitsInv'
    BY <1>1, <1>3, <1>6 DEF FitsInv, MarkFits
  <2>2. OutgoingInv'
    BY <1>2, <1>3 DEF OutgoingInv, OutgoingOnce, Sound
  <2>3. UnreadExact'
    BY <1>3 DEF UnreadExact, Sound
  <2> QED BY <2>1, <2>2, <2>3
<1>9. AddsNoText
  BY <1>2, <1>3 DEF AddsNoText, Sound
<1> QED BY <1>2, <1>5, <1>6, <1>7, <1>8, <1>9 DEF TalkInv, AccessInv, GapInv

LEMMA ChannelComes ==
    ASSUME TalkInv, Current(refreshing.rev), refreshing.answer = "GRANTED", refreshing.phase = "CHANNEL",
           ChannelArrives(refreshing), UNCHANGED <<olders, marking, sends, readTo>>
    PROVE  TalkInv' /\ AddsNoText /\ refreshing'.items = {}
<1> DEFINE r == refreshing
           n == IF chat.channel.lastRead > r.channel.lastRead THEN chat.channel.lastRead ELSE r.channel.lastRead
           x == IF r.version # chat.orderVersion /\ r.channel.open THEN FALSE ELSE chat.closed
           D(v, y, z) == [chat EXCEPT !.channel = v, !.error = FALSE, !.closed = y, !.orderVersion = z]
           v == [r.channel EXCEPT !.lastRead = n]
           c == D(v, x, r.version)
<1>1. FitsInv /\ AccessInv /\ ShownInv /\ PagesFit /\ UnreadExact /\ OutgoingInv /\ SnapFits(chat) /\ RefreshFits(r)
  BY DEF TalkInv, FitsInv, GapInv
<1>2. NextOf(c, r) /\ fetched' = fetched
  <2>1. c = [chat EXCEPT !.channel = [r.channel EXCEPT !.lastRead = IF chat.channel.lastRead > @
                                                                   THEN chat.channel.lastRead ELSE @],
                         !.error = FALSE,
                         !.closed = IF r.version # chat.orderVersion /\ r.channel.open THEN FALSE ELSE @,
                         !.orderVersion = r.version]
    BY Zenon
  <2> QED BY <2>1 DEF ChannelArrives
<1>3. r.channel \in Views /\ r.channel.got /\ chat.channel \in Views /\ r.rev = chat.rev
  BY <1>1 DEF RefreshFits, SnapFits, Current
<1>4. /\ n \in Nat /\ v \in Views /\ v.got /\ v.lastRead = n
      /\ r.channel.lastRead <= n /\ chat.channel.lastRead <= n
      /\ chat.channel.lastRead \in Nat /\ r.channel.lastRead \in Nat
  BY <1>3 DEF Views
<1> HIDE DEF v, n, x
<1>5. \A y, z : /\ SnapFits(D(v, y, z)) /\ D(v, y, z).rev = chat.rev /\ D(v, y, z).channel = v
                /\ D(v, y, z).messages = chat.messages /\ D(v, y, z).outgoing = chat.outgoing
                /\ D(v, y, z).cursor = chat.cursor
  BY <1>1, <1>4 DEF SnapFits
<1> HIDE DEF D
<1>6. /\ SnapFits(c) /\ c.rev = chat.rev /\ c.channel = v /\ c.messages = chat.messages
      /\ c.outgoing = chat.outgoing /\ c.cursor = chat.cursor
  BY <1>5
<1> HIDE DEF c
<1>7. c.cursor > c.channel.lastRead => c.channel.lastRead + 1 .. c.cursor \subseteq Seqs(c.messages)
  <2> SUFFICES ASSUME chat.cursor > n, NEW k \in n + 1 .. chat.cursor PROVE k \in Seqs(chat.messages)
    BY <1>4, <1>6
  <2>1. chat.cursor \in Int /\ chat.cursor # -1
    BY <1>1, <1>4 DEF SnapFits
  <2>2. chat.channel.got
    BY <1>1, <2>1 DEF AccessInv, ChatAccess
  <2>3. chat.cursor > chat.channel.lastRead /\ k \in chat.channel.lastRead + 1 .. chat.cursor
    BY <1>4, <2>1
  <2> QED BY <1>1, <2>2, <2>3 DEF UnreadExact
<1>8. \A p \in c.outgoing : Goes(p) /\ \A m \in c.messages : m.by = Me => m.client # p.client
  BY <1>1, <1>6 DEF OutgoingInv, OutgoingOnce
<1>a. c.messages \subseteq Texts /\ \A p \in c.outgoing : \E q \in chat.outgoing : p.client = q.client
  BY <1>6 DEF Texts
<1>9. /\ ShownTo(r.channel.lastRead) /\ 1 .. c.cursor \subseteq fetched'
      /\ r.last # 0 => r.first .. r.last \subseteq fetched' \cap Seqs(c.messages)
      /\ r.channel.open => r.channel.got
  BY <1>1, <1>2, <1>3, <1>6 DEF ShownInv, ShownTo, PagesFit, Current
<1>10. Sound(c, r)
  BY <1>1, <1>3, <1>4, <1>6, <1>7, <1>8, <1>9, <1>a DEF Sound
<1> HIDE DEF r
<1> QED BY <1>2, <1>10, RefreshAdvances DEF Advances

(* Merging what was fetched, with a new cursor.                            *)
LEMMA MergedSound ==
    ASSUME TalkInv, NEW items, items \subseteq Texts, NEW n \in Nat, NEW r, RefreshFits(r), r.rev = chat.rev,
           r.channel.open => r.channel.got, chat.channel.got,
           r.channel.lastRead <= chat.channel.lastRead, ShownTo(r.channel.lastRead),
           fetched' = fetched \cup Seqs(items), 1 .. n \subseteq fetched',
           n > chat.channel.lastRead =>
               chat.channel.lastRead + 1 .. n \subseteq Seqs(chat.messages) \cup Seqs(items),
           r.last # 0 => /\ r.first .. r.last \subseteq fetched'
                         /\ r.first .. r.last \subseteq Seqs(chat.messages) \cup Seqs(items)
    PROVE  Sound([Merge(chat, items) EXCEPT !.cursor = n], r)
<1> DEFINE d == Merge(chat, items)
           c == [d EXCEPT !.cursor = n]
<1>1. SnapFits(chat) /\ OutgoingInv
  BY DEF TalkInv, FitsInv
<1>2. /\ SnapFits(d) /\ d.channel = chat.channel /\ d.rev = chat.rev
      /\ d.messages = chat.messages \cup items
      /\ d.outgoing = {p \in chat.outgoing : \A m \in d.messages : m.by = Me => m.client # p.client}
  BY <1>1, Merging
<1> HIDE DEF d
<1>3. /\ SnapFits(c) /\ c.channel = chat.channel /\ c.rev = chat.rev /\ c.cursor = n
      /\ c.messages = d.messages /\ c.outgoing = d.outgoing
  BY <1>2 DEF SnapFits
<1> HIDE DEF c
<1>4. Seqs(c.messages) = Seqs(chat.messages) \cup Seqs(items)
  BY <1>2, <1>3 DEF Seqs
<1>5. \A p \in c.outgoing : Goes(p) /\ \A m \in c.messages : m.by = Me => m.client # p.client
  BY <1>1, <1>2, <1>3 DEF OutgoingInv
<1>6. c.cursor > c.channel.lastRead => c.channel.lastRead + 1 .. c.cursor \subseteq Seqs(c.messages)
  BY <1>3, <1>4
<1>7. r.last # 0 => r.first .. r.last \subseteq fetched' \cap Seqs(c.messages)
  BY <1>4
<1>a. c.messages \subseteq Texts /\ \A p \in c.outgoing : \E q \in chat.outgoing : p.client = q.client
  BY <1>2, <1>3 DEF Texts
<1>8. Sound(c, r)
  BY <1>3, <1>5, <1>6, <1>7, <1>a DEF Sound
<1> QED BY <1>8 DEF c, d

LEMMA LatestComes ==
    ASSUME TalkInv, Current(refreshing.rev), refreshing.answer = "GRANTED", refreshing.phase = "LATEST",
           LatestArrives(refreshing), UNCHANGED <<olders, marking, sends, readTo>>
    PROVE  TalkInv' /\ AddsNoText /\ refreshing'.items = {}
<1> DEFINE r == refreshing
           first == IF r.items = {} THEN 1 ELSE Min(Seqs(r.items))
           last == IF r.items = {} THEN 0 ELSE Max(Seqs(r.items))
           n == FirstCursor(r.channel.lastRead, first, last)
           q == [r EXCEPT !.first = first, !.last = last]
           c == [Merge(chat, r.items) EXCEPT !.cursor = n]
<1>1. /\ FitsInv /\ RefreshAccess /\ ShownInv /\ PagesFit /\ SnapFits(chat) /\ RefreshFits(r)
      /\ r.channel \in Views /\ chat.channel \in Views /\ r.rev = chat.rev
  BY DEF TalkInv, FitsInv, AccessInv, GapInv, RefreshFits, SnapFits, Current
<1>2. NextOf(c, q) /\ fetched' = fetched \cup Seqs(r.items)
  BY DEF LatestArrives
<1>3. first \in Nat \ {0} /\ last \in Nat /\ Seqs(r.items) = first .. last
  <2>1. PICK a \in Nat \ {0}, b \in Nat : Seqs(r.items) = a .. b
    BY <1>1 DEF PagesFit
  <2>2. CASE r.items = {}
    <3>1. Seqs(r.items) = {} /\ first = 1 /\ last = 0
      BY <2>2 DEF Seqs
    <3> QED BY <3>1
  <2>3. CASE r.items # {}
    <3>1. Seqs(r.items) # {}
      BY <2>3 DEF Seqs
    <3>2. a <= b
      BY <2>1, <3>1
    <3>3. first = a /\ last = b
      BY <2>1, <2>3, <3>2, RowEnds
    <3> QED BY <2>1, <3>3
  <2> QED BY <2>2, <2>3
<1>4. /\ chat.channel.got /\ r.channel.lastRead <= chat.channel.lastRead /\ ShownTo(r.channel.lastRead)
      /\ r.channel.lastRead \in Nat /\ chat.channel.lastRead \in Nat /\ (r.channel.open => r.channel.got)
  BY <1>1 DEF RefreshAccess, ShownInv, Views
<1> HIDE DEF first, last
<1>5. /\ RefreshFits(q) /\ q.rev = r.rev /\ q.channel = r.channel /\ q.first = first /\ q.last = last
  BY <1>1, <1>3 DEF RefreshFits
<1>6. n \in Nat /\ ((n = last /\ first - 1 <= r.channel.lastRead) \/ n = r.channel.lastRead)
  BY <1>3, <1>4 DEF FirstCursor
<1> HIDE DEF n, q
<1>7. 1 .. n \subseteq fetched'
  <2>1. CASE n = r.channel.lastRead
    BY <1>2, <1>4, <2>1 DEF ShownTo
  <2>2. CASE n = last /\ first - 1 <= r.channel.lastRead
    <3>1. ASSUME NEW x \in 1 .. n PROVE x \in 1 .. r.channel.lastRead \/ x \in first .. last
      BY <1>3, <1>4, <2>2
    <3> QED BY <1>2, <1>3, <1>4, <3>1 DEF ShownTo
  <2> QED BY <1>6, <2>1, <2>2
<1>8. n > chat.channel.lastRead =>
          chat.channel.lastRead + 1 .. n \subseteq Seqs(chat.messages) \cup Seqs(r.items)
  <2> SUFFICES ASSUME n > chat.channel.lastRead, NEW x \in chat.channel.lastRead + 1 .. n
               PROVE  x \in Seqs(r.items)
    OBVIOUS
  <2>1. n = last /\ first - 1 <= r.channel.lastRead
    BY <1>4, <1>6
  <2>2. x \in first .. last
    BY <1>3, <1>4, <2>1
  <2> QED BY <1>3, <2>2
<1>9. q.last # 0 => /\ q.first .. q.last \subseteq fetched'
                    /\ q.first .. q.last \subseteq Seqs(chat.messages) \cup Seqs(r.items)
  BY <1>2, <1>3, <1>5
<1>a. r.items \subseteq Texts
  BY DEF Texts
<1>10. Sound(c, q)
  BY <1>1, <1>2, <1>4, <1>5, <1>6, <1>7, <1>8, <1>9, <1>a, MergedSound
<1> HIDE DEF c, r
<1> QED BY <1>2, <1>10, RefreshAdvances DEF Advances

LEMMA AfterComes ==
    ASSUME TalkInv, Current(refreshing.rev), refreshing.answer = "GRANTED", refreshing.phase = "AFTER",
           AfterArrives(refreshing), UNCHANGED <<olders, marking, sends, readTo>>
    PROVE  TalkInv' /\ AddsNoText /\ refreshing'.items = {}
<1> DEFINE r == refreshing
           reached == IF r.items = {} THEN chat.cursor ELSE Max(Seqs(r.items))
           n == IF r.last # 0 /\ reached >= r.first - 1 /\ r.last > reached THEN r.last ELSE reached
           c == [Merge(chat, r.items) EXCEPT !.cursor = n]
<1>1. /\ FitsInv /\ RefreshAccess /\ ShownInv /\ PagesFit /\ UnreadExact /\ SnapFits(chat) /\ RefreshFits(r)
      /\ r.channel \in Views /\ chat.channel \in Views /\ r.rev = chat.rev
  BY DEF TalkInv, FitsInv, AccessInv, GapInv, RefreshFits, SnapFits, Current
<1>2. (NextOf(c, r) \/ Ends(c, r)) /\ fetched' = fetched \cup Seqs(r.items)
  BY DEF AfterArrives
<1>3. chat.cursor \in Nat /\ \E b \in Nat : Seqs(r.items) = chat.cursor + 1 .. b
  BY <1>1 DEF PagesFit
<1>4. reached \in Nat /\ chat.cursor <= reached /\ Seqs(r.items) = chat.cursor + 1 .. reached
  <2>1. PICK b \in Nat : Seqs(r.items) = chat.cursor + 1 .. b
    BY <1>3
  <2>2. CASE r.items = {}
    <3>1. Seqs(r.items) = {} /\ reached = chat.cursor
      BY <2>2 DEF Seqs
    <3> QED BY <1>3, <3>1
  <2>3. CASE r.items # {}
    <3>1. Seqs(r.items) # {}
      BY <2>3 DEF Seqs
    <3>2. chat.cursor + 1 <= b /\ chat.cursor + 1 \in Nat
      BY <1>3, <2>1, <3>1
    <3>3. reached = b
      BY <2>1, <2>3, <3>2, RowEnds
    <3> QED BY <1>3, <2>1, <3>2, <3>3
  <2> QED BY <2>2, <2>3
<1>5. /\ chat.channel.got /\ r.channel.lastRead <= chat.channel.lastRead /\ ShownTo(r.channel.lastRead)
      /\ chat.channel.lastRead \in Nat /\ (r.channel.open => r.channel.got) /\ ShownTo(chat.cursor)
  BY <1>1 DEF RefreshAccess, ShownInv, Views
<1>6. /\ r.first \in Nat /\ r.last \in Nat
      /\ r.last # 0 => /\ r.first .. r.last \subseteq fetched
                       /\ r.first .. r.last \subseteq Seqs(chat.messages)
  BY <1>1 DEF RefreshFits, PagesFit
<1> HIDE DEF reached
<1>7. n \in Nat /\ (n = reached \/ (n = r.last /\ r.last # 0 /\ reached >= r.first - 1))
  BY <1>4, <1>6
<1> HIDE DEF n
(* A number up to n was there, has come, or is in the page fetched first.  *)
<1>8. ASSUME NEW x \in 1 .. n
      PROVE  \/ x \in 1 .. chat.cursor
             \/ x \in Seqs(r.items)
             \/ r.last # 0 /\ x \in r.first .. r.last
  BY <1>3, <1>4, <1>6, <1>7
<1>9. 1 .. n \subseteq fetched'
  BY <1>2, <1>5, <1>6, <1>8 DEF ShownTo
<1>10. n > chat.channel.lastRead =>
           chat.channel.lastRead + 1 .. n \subseteq Seqs(chat.messages) \cup Seqs(r.items)
  <2> SUFFICES ASSUME n > chat.channel.lastRead, NEW x \in chat.channel.lastRead + 1 .. n
               PROVE  x \in Seqs(chat.messages) \cup Seqs(r.items)
    OBVIOUS
  <2>1. x \in 1 .. n
    BY <1>5, <1>7
  <2>2. CASE x \in 1 .. chat.cursor
    <3>1. chat.cursor > chat.channel.lastRead /\ x \in chat.channel.lastRead + 1 .. chat.cursor
      BY <1>3, <1>5, <2>2
    <3> QED BY <1>1, <1>5, <3>1 DEF UnreadExact
  <2> QED BY <1>6, <1>8, <2>1, <2>2
<1>11. r.last # 0 => /\ r.first .. r.last \subseteq fetched'
                     /\ r.first .. r.last \subseteq Seqs(chat.messages) \cup Seqs(r.items)
  BY <1>2, <1>6
<1>a. r.items \subseteq Texts
  BY DEF Texts
<1>12. Sound(c, r)
  BY <1>1, <1>2, <1>5, <1>7, <1>9, <1>10, <1>11, <1>a, MergedSound
<1> HIDE DEF c, r
<1> QED BY <1>2, <1>12, RefreshAdvances DEF Advances

LEMMA RefreshComes ==
    ASSUME TalkInv, Mine \in Channels, RefreshArrives
    PROVE  TalkInv' /\ AddsNoText /\ refreshing'.items = {}
<1>1. UNCHANGED <<olders, marking, sends, readTo>>
  BY DEF RefreshArrives, chatVars
<1>2. SnapFits(chat)
  BY DEF TalkInv, FitsInv
<1>a. NotRefreshing.items = {}
  BY DEF NotRefreshing
<1>3. CASE ~Current(refreshing.rev)
  <2>1. refreshing' = NotRefreshing /\ UNCHANGED <<chat, fetched>>
    BY <1>3 DEF RefreshArrives
  <2> QED BY <1>1, <1>a, <2>1, StandsStill, TalkMoves
<1>4. CASE Current(refreshing.rev) /\ refreshing.answer # "GRANTED"
  <2> DEFINE d == AfterFailure(chat, refreshing.answer)
             D(x) == [d EXCEPT !.timer = x]
  <2>1. refreshing' = NotRefreshing /\ fetched' = fetched /\ \E x : chat' = D(x)
    BY <1>4 DEF RefreshArrives
  <2>2. Cleared(d, chat) \/ (Alike(d, chat) /\ d.outgoing = chat.outgoing)
    BY <1>2, RefusalClears
  <2> HIDE DEF d
  <2>3. SnapFits(d)
    BY <2>2 DEF Alike, Cleared
  <2>4. ASSUME NEW x PROVE Alike(D(x), d) /\ D(x).outgoing = d.outgoing
    BY <2>3 DEF Alike, SnapFits
  <2> HIDE DEF D
  <2>5. Alike(chat', d) /\ chat'.outgoing = d.outgoing
    BY <2>1, <2>4
  <2>6. Stays \/ Clears
    BY <2>1, <2>2, <2>5 DEF Stays, Clears, Cleared, Alike
  <2> QED BY <1>1, <1>a, <2>1, <2>6, SettledMoves, StandsStill, TalkMoves
<1>5. CASE Current(refreshing.rev) /\ refreshing.answer = "GRANTED" /\ refreshing.phase = "CHANNEL"
  <2>1. ChannelArrives(refreshing)
    BY <1>5 DEF RefreshArrives
  <2> QED BY <1>1, <1>5, <2>1, ChannelComes
<1>6. CASE Current(refreshing.rev) /\ refreshing.answer = "GRANTED" /\ refreshing.phase = "LATEST"
  <2>1. LatestArrives(refreshing)
    BY <1>6 DEF RefreshArrives
  <2> QED BY <1>1, <1>6, <2>1, LatestComes
<1>7. CASE /\ Current(refreshing.rev) /\ refreshing.answer = "GRANTED"
           /\ refreshing.phase \notin {"CHANNEL", "LATEST"}
  <2>1. AfterArrives(refreshing)
    BY <1>7 DEF RefreshArrives
  <2>2. refreshing.phase = "AFTER"
    BY <1>7 DEF TalkInv, FitsInv, RefreshFits
  <2> QED BY <1>1, <1>7, <2>1, <2>2, AfterComes
<1> QED BY <1>3, <1>4, <1>5, <1>6, <1>7

(* A message that is sent again is not on the page yet, and a new one has  *)
(* an ID of its own.                                                       *)
LEMMA PageSends ==
    ASSUME TalkInv, GivenInv, Mine \in Channels, SendMessage \/ \E p \in chat.outgoing : RetryMessage(p)
    PROVE  TalkInv'
<1>1. CASE SendMessage
  <2>1. Transmit(<<"PAGE", quota["SEND"]>>)
    BY <1>1 DEF SendMessage
  <2>2. ASSUME NEW m \in chat.messages PROVE m.client # <<"PAGE", quota["SEND"]>>
    <3>1. Given(m.client) /\ quota["SEND"] \in Nat
      BY DEF GivenInv, Texts
    <3> QED BY <3>1 DEF Given
  <2> QED BY <2>1, <2>2, Transmits
<1>2. ASSUME NEW p \in chat.outgoing, RetryMessage(p) PROVE TalkInv'
  <2>1. Transmit(p.client)
    BY <1>2 DEF RetryMessage
  <2>2. \A m \in chat.messages : m.by = Me => m.client # p.client
    BY DEF TalkInv, OutgoingInv, OutgoingOnce
  <2> QED BY <2>1, <2>2, Transmits
<1> QED BY <1>1, <1>2

LEMMA TalkStep == ASSUME ChatInv, ChatInv', TalkInv, GivenInv, ChatPageNext PROVE TalkInv'
<1>0. Mine \in Channels /\ SendsFit
  BY ChatAssumption DEF Mine, Channels, ChatInv
<1>1. ASSUME ServerNext /\ UNCHANGED chatPageVars PROVE TalkInv'
  BY <1>0, <1>1, ServiceTalks
<1>2. ASSUME RefreshSteps PROVE TalkInv'
  <2>1. ASSUME NEW reached \in BOOLEAN, RefreshServed(reached) PROVE TalkInv'
    BY <2>1, RefreshIsServed
  <2>2. ASSUME RefreshArrives PROVE TalkInv'
    BY <1>0, <2>2, RefreshComes
  <2>3. ASSUME ChatTimer \/ RefreshNow \/ ErrandShown PROVE TalkInv'
    BY <1>0, <2>3, RefreshRestarts
  <2> QED BY <1>2, <2>1, <2>2, <2>3 DEF RefreshSteps
<1>3. ASSUME OutgoingSteps PROVE TalkInv'
  <2>1. ASSUME SendMessage \/ \E p \in chat.outgoing : RetryMessage(p) PROVE TalkInv'
    BY <1>0, <2>1, PageSends
  <2>2. ASSUME ThrottleEnds PROVE TalkInv'
    BY <1>0, <2>2, ThrottlePasses
  <2>3. ASSUME NEW s \in sends, SendArrives(s) PROVE TalkInv'
    BY <1>0, <2>3, SendComes
  <2>4. ASSUME NEW s \in sends, SendLost(s) PROVE TalkInv'
    BY <1>0, <2>4, SendIsLost
  <2> QED BY <1>3, <2>1, <2>2, <2>3, <2>4 DEF OutgoingSteps
<1>4. ASSUME ReadingSteps PROVE TalkInv'
  <2>1. ASSUME NEW o \in olders, OlderArrives(o) PROVE TalkInv'
    BY <1>0, <2>1, OlderComes
  <2>2. ASSUME NEW o \in olders, NEW reached \in BOOLEAN, OlderServed(o, reached) PROVE TalkInv'
    BY <1>0, <2>2, OlderIsServed
  <2>3. ASSUME NEW lost \in BOOLEAN, MarkArrives(lost) PROVE TalkInv'
    BY <1>0, <2>3, MarksCome
  <2>4. ASSUME Older \/ MarkVisibleRead \/ MarkServed PROVE TalkInv'
    BY <1>0, <2>4, OlderAsks, MarksBegin, MarksServed
  <2> QED BY <1>4, <2>1, <2>2, <2>3, <2>4 DEF ReadingSteps
<1> QED BY <1>1, <1>2, <1>3, <1>4 DEF ChatPageNext

-----------------------------------------------------------------------------
(* The IDs of messages.                                                    *)

Carriers == Texts \cup sends \cup chat.outgoing
Old(x) == \E y \in Carriers : y.client = x.client
NotOfPage(x) == \A n : x.client # <<"PAGE", n>>
Lessened == quota' = quota \/ \E e : Use(e)

LEMMA QuotaUsed ==
    ASSUME quota = [e \in DOMAIN quota |-> quota[e]], "SEND" \in DOMAIN quota, quota["SEND"] \in Nat, Lessened
    PROVE  /\ quota' = [e \in DOMAIN quota' |-> quota'[e]] /\ "SEND" \in DOMAIN quota' /\ quota'["SEND"] \in Nat
           /\ quota'["SEND"] <= quota["SEND"]
           /\ Use("SEND") => quota'["SEND"] < quota["SEND"]
<1>1. CASE quota' = quota
  BY <1>1 DEF Use
<1>2. ASSUME NEW e, Use(e)
      PROVE  /\ quota' = [f \in DOMAIN quota' |-> quota'[f]] /\ "SEND" \in DOMAIN quota' /\ quota'["SEND"] \in Nat
             /\ quota'["SEND"] <= quota["SEND"]
  <2>1. quota' = [f \in DOMAIN quota |-> IF f = e THEN quota[e] - 1 ELSE quota[f]] /\ quota[e] > 0
    BY <1>2 DEF Use
  <2>2. quota' = [f \in DOMAIN quota' |-> quota'[f]] /\ "SEND" \in DOMAIN quota'
    BY <2>1
  <2>3. CASE e = "SEND"
    BY <2>1, <2>2, <2>3
  <2>4. CASE e # "SEND"
    <3>1. quota'["SEND"] = quota["SEND"]
      BY <2>1, <2>4
    <3> QED BY <2>2, <3>1
  <2> QED BY <2>3, <2>4
<1>3. Use("SEND") => quota'["SEND"] < quota["SEND"]
  BY DEF Use
<1> QED BY <1>1, <1>2, <1>3 DEF Lessened

LEMMA GivenKept ==
    ASSUME GivenInv, Lessened, \A x \in Carriers' : Old(x) \/ NotOfPage(x)
    PROVE  GivenInv'
<1>1. /\ quota' = [e \in DOMAIN quota' |-> quota'[e]] /\ "SEND" \in DOMAIN quota' /\ quota'["SEND"] \in Nat
      /\ quota'["SEND"] <= quota["SEND"] /\ quota["SEND"] \in Nat
  BY QuotaUsed DEF GivenInv
<1>2. ASSUME NEW x \in Carriers', NEW n \in Nat, x.client = <<"PAGE", n>> PROVE n > quota'["SEND"]
  <2>1. PICK y \in Carriers : y.client = x.client
    BY <1>2 DEF Old, NotOfPage
  <2>2. n > quota["SEND"]
    BY <1>2, <2>1 DEF GivenInv, Given, Carriers
  <2> QED BY <1>1, <2>2
<1> QED BY <1>1, <1>2 DEF GivenInv, Given, Carriers

LEMMA ServiceGives ==
    ASSUME ChatInv, SendsAccess, GivenInv, ServerNext, UNCHANGED chatPageVars
    PROVE  GivenInv'
<1>0. SendsFit /\ UNCHANGED <<chat, refreshing, olders>>
  BY DEF ChatInv, chatPageVars
<1>1. ASSUME NEW s \in sends, SendStored(s)
      PROVE  Lessened /\ \A x \in Texts' : Old(x)
  <2> DEFINE new == [channel |-> s.channel, seq |-> s.seq, by |-> s.by, client |-> s.client, at |-> clock]
  <2>1. messages' = messages \cup {new} /\ quota' = quota
    BY <1>1 DEF SendStored
  <2>2. new.client = s.client
    OBVIOUS
  <2> HIDE DEF new
  <2>3. Texts' = Texts \cup {new}
    BY <1>0, <2>1 DEF Texts
  <2> QED BY <2>1, <2>2, <2>3 DEF Old, Carriers, Lessened
<1>2. ASSUME NEW s \in sends,
             SendAsked(s) \/ SendChecked(s) \/ LockSender(s) \/ LockChannel(s) \/ LockTimesOut(s)
      PROVE  Lessened /\ messages' = messages
  BY <1>2 DEF SendAsked, SendChecked, LockSender, LockChannel, LockTimesOut, Lessened
<1>3. ASSUME \/ \E c \in Channels, courier \in {Me, Nobody}, ends \in BOOLEAN : ErrandChanges(c, courier, ends)
             \/ \E c \in Channels, by \in {Me, Other} : SendsElsewhere(c, by)
             \/ SecondPasses \/ DayPasses \/ SweepStarts \/ PageSettled
             \/ \E c \in Channels : Settle(c) \/ DeleteFails(c)
      PROVE  Lessened /\ messages' = messages
  BY <1>3 DEF ErrandChanges, SendsElsewhere, SecondPasses, DayPasses, SweepStarts, PageSettled, Settle, DeleteFails,
              Lessened
<1>4. ASSUME NEW c \in Channels, DeleteChannel(c) PROVE Lessened /\ messages' \subseteq messages
  BY <1>4 DEF DeleteChannel, Lessened
<1>5. messages' \subseteq messages => \A x \in Texts' : Old(x)
  BY <1>0 DEF Texts, Old, Carriers
<1>6. Lessened /\ \A x \in Texts' : Old(x)
  BY <1>1, <1>2, <1>3, <1>4, <1>5 DEF ServerNext
<1>7. \A x \in sends' : Old(x) \/ NotOfPage(x)
  <2>1. SendsFollow
    BY ServiceSends
  <2>2. \A x : Follows(x) => Old(x)
    BY DEF Follows, Old, Carriers
  <2>3. \A x : Elsewhere(x) => NotOfPage(x)
    BY DEF Elsewhere, NotOfPage
  <2> QED BY <2>1, <2>2, <2>3 DEF SendsFollow
<1>8. \A x \in chat'.outgoing : Old(x)
  BY <1>0 DEF Old, Carriers
<1> QED BY <1>6, <1>7, <1>8, GivenKept DEF Carriers

(* What a refresh holds, what loads of older messages hold, and what is    *)
(* sent, was known before.                                                 *)
RefreshTold == refreshing'.items \subseteq Texts
OldersTold == \A o \in olders' : o.items \subseteq Texts
SendsTold == \A s \in sends' : \E q \in sends : q.client = s.client

LEMMA PageTells ==
    ASSUME GivenInv, Lessened, UNCHANGED messages, AddsNoText, RefreshTold, OldersTold, SendsTold
    PROVE  GivenInv'
<1>1. Texts' \subseteq Texts
  BY DEF Texts, AddsNoText, RefreshTold, OldersTold
<1>2. \A x \in Carriers' : Old(x)
  BY <1>1 DEF Carriers, Old, AddsNoText, SendsTold
<1> QED BY <1>2, GivenKept

LEMMA ToldBefore ==
    /\ UNCHANGED refreshing => RefreshTold
    /\ UNCHANGED olders => OldersTold
    /\ UNCHANGED sends => SendsTold
    /\ UNCHANGED chat => AddsNoText
BY DEF RefreshTold, OldersTold, SendsTold, AddsNoText, Texts

LEMMA RefreshGives ==
    ASSUME ChatInv, ChatInv', TalkInv, GivenInv, Mine \in Channels, RefreshSteps
    PROVE  GivenInv'
<1>1. ASSUME NEW reached \in BOOLEAN, RefreshServed(reached) PROVE GivenInv'
  <2>1. UNCHANGED <<olders, sends, messages>> /\ Lessened
    BY <1>1 DEF RefreshServed, ServerKept, Lessened
  <2>2. RefreshTold
    <3> DEFINE answer == IF reached THEN Granted ELSE "UNAVAILABLE"
               items == CASE refreshing.phase = "LATEST" -> Of(Mine)
                          [] refreshing.phase = "AFTER" -> {m \in Of(Mine) : m.seq > chat.cursor}
                          [] OTHER -> {}
               fitting == IF refreshing.phase = "LATEST" THEN Highest(items) ELSE Lowest(items)
               got == IF answer = "GRANTED" THEN fitting ELSE {}
               view == IF answer = "GRANTED" /\ refreshing.phase = "CHANNEL"
                       THEN [got |-> TRUE, open |-> Open(orders[Mine]), lastRead |-> readTo[Mine],
                             latest |-> channels'[Mine].latest]
                       ELSE refreshing.channel
               E(a, i, m, v) == [refreshing EXCEPT !.answer = a, !.items = i, !.more = m, !.channel = v]
    <3>1. refreshing' = E(answer, got, answer = "GRANTED" /\ fitting # items, view)
      BY <1>1 DEF RefreshServed
    <3>2. got \subseteq messages
      <4>1. items \subseteq messages
        BY DEF Of
      <4> HIDE DEF items, answer
      <4>2. Highest(items) \subseteq items /\ Lowest(items) \subseteq items
        BY DEF Highest, Lowest
      <4> QED BY <4>1, <4>2
    <3>3. \A a, i, m, v : E(a, i, m, v).items = i
      BY DEF TalkInv, FitsInv, RefreshFits
    <3> HIDE DEF E, view, got, fitting, items, answer
    <3> QED BY <3>1, <3>2, <3>3 DEF RefreshTold, Texts
  <2>3. AddsNoText
    BY <1>1, RefreshIsServed
  <2> QED BY <2>1, <2>2, <2>3, ToldBefore, PageTells
<1>2. ASSUME RefreshArrives PROVE GivenInv'
  <2>1. UNCHANGED <<olders, sends, messages, quota>>
    BY <1>2 DEF RefreshArrives, chatVars
  <2>2. AddsNoText /\ refreshing'.items = {}
    BY <1>2, RefreshComes
  <2> QED BY <2>1, <2>2, ToldBefore, PageTells DEF RefreshTold, Lessened
<1>3. ASSUME ChatTimer \/ RefreshNow \/ ErrandShown PROVE GivenInv'
  <2>1. Lessened /\ \E p : Restart(p)
    BY <1>3 DEF ChatTimer, RefreshNow, ErrandShown, Lessened
  <2>2. UNCHANGED <<olders, sends, messages>> /\ \E p : refreshing' = NewRefresh(chat, p)
    BY <2>1 DEF Restart, chatVars
  <2>3. refreshing'.items = {}
    <3> DEFINE N(r, v, f) == [NotRefreshing EXCEPT !.phase = "CHANNEL", !.rev = r, !.version = v, !.final = f]
    <3>1. \A r, v, f : N(r, v, f).items = {}
      BY DEF NotRefreshing
    <3>2. \E v, f : refreshing' = N(chat.rev, v, f)
      BY <2>2 DEF NewRefresh
    <3> HIDE DEF N
    <3> QED BY <3>1, <3>2
  <2>4. AddsNoText
    BY <1>3, RefreshRestarts
  <2> QED BY <2>1, <2>2, <2>3, <2>4, ToldBefore, PageTells DEF RefreshTold
<1> QED BY <1>1, <1>2, <1>3 DEF RefreshSteps

LEMMA ReadingGives ==
    ASSUME TalkInv, GivenInv, Mine \in Channels, ReadingSteps
    PROVE  GivenInv'
<1>1. ASSUME Older PROVE GivenInv'
  <2> DEFINE new == [rev |-> chat.rev, before |-> Min(Seqs(chat.messages)), answer |-> "NONE", items |-> {},
                     more |-> FALSE]
  <2>1. UNCHANGED <<refreshing, sends, messages>> /\ Lessened /\ olders' = olders \cup {new}
    BY <1>1 DEF Older, chatVars, Lessened
  <2>2. new.items = {}
    OBVIOUS
  <2> HIDE DEF new
  <2>3. OldersTold
    BY <2>1, <2>2 DEF OldersTold, Texts
  <2>4. AddsNoText
    BY <1>1, OlderAsks
  <2> QED BY <2>1, <2>3, <2>4, ToldBefore, PageTells
<1>2. ASSUME NEW o \in olders, NEW reached \in BOOLEAN, OlderServed(o, reached) PROVE GivenInv'
  <2>1. UNCHANGED <<refreshing, sends, messages>> /\ Lessened
    BY <1>2 DEF OlderServed, ServerKept, Lessened
  <2>2. OldersTold
    <3> DEFINE older == Highest({m \in Of(Mine) : m.seq < o.before})
               A(a, m) == [o EXCEPT !.answer = a, !.items = older, !.more = m]
               B(a) == [o EXCEPT !.answer = a]
    <3>1. PICK a, m : olders' = (olders \ {o}) \cup {A(a, m)} \/ olders' = (olders \ {o}) \cup {B(a)}
      BY <1>2, Zenon DEF OlderServed
    <3>2. older \subseteq messages
      BY DEF Highest, Of
    <3> HIDE DEF older
    <3>3. A(a, m).items = older /\ B(a).items = o.items
      BY DEF TalkInv, FitsInv, OlderFits
    <3> HIDE DEF A, B
    <3> QED BY <3>1, <3>2, <3>3 DEF OldersTold, Texts
  <2>3. AddsNoText
    BY <1>2, OlderIsServed
  <2> QED BY <2>1, <2>2, <2>3, ToldBefore, PageTells
<1>3. ASSUME NEW o \in olders, OlderArrives(o) PROVE GivenInv'
  <2>1. UNCHANGED <<refreshing, sends, messages, quota>> /\ olders' = olders \ {o}
    BY <1>3 DEF OlderArrives, chatVars
  <2>2. OldersTold
    BY <2>1 DEF OldersTold, Texts
  <2>3. AddsNoText
    BY <1>3, OlderComes
  <2> QED BY <2>1, <2>2, <2>3, ToldBefore, PageTells DEF Lessened
<1>4. ASSUME MarkVisibleRead PROVE GivenInv'
  <2>1. UNCHANGED <<refreshing, olders, sends, messages, chat>> /\ Lessened
    BY <1>4 DEF MarkVisibleRead, chatVars, Lessened
  <2> QED BY <2>1, ToldBefore, PageTells
<1>5. ASSUME MarkServed PROVE GivenInv'
  <2>1. UNCHANGED <<refreshing, olders, sends, messages, chat, quota>>
    BY <1>5 DEF MarkServed, ServerKept
  <2> QED BY <2>1, ToldBefore, PageTells DEF Lessened
<1>6. ASSUME NEW lost \in BOOLEAN, MarkArrives(lost) PROVE GivenInv'
  <2>1. UNCHANGED <<refreshing, olders, sends, messages>> /\ Lessened
    BY <1>6 DEF MarkArrives, chatVars, Lessened
  <2>2. AddsNoText
    BY <1>6, MarksCome
  <2> QED BY <2>1, <2>2, ToldBefore, PageTells
<1> QED BY <1>1, <1>2, <1>3, <1>4, <1>5, <1>6 DEF ReadingSteps

(* A message that goes out has an ID that was given before, or the next    *)
(* one of the page, which then is given.                                   *)
LEMMA TransmitGives ==
    ASSUME GivenInv, NEW client, Transmit(client), Lessened,
           \/ \E p \in chat.outgoing : p.client = client
           \/ client = <<"PAGE", quota["SEND"]>> /\ Use("SEND"),
           SnapFits(chat)
    PROVE  GivenInv'
<1> DEFINE new == NewSend(Mine, Me, client, TRUE, chat.rev)
           p1 == [client |-> client, state |-> "pending"]
           out == {p \in chat.outgoing : p.client # client} \cup {p1}
<1>1. /\ UNCHANGED <<refreshing, olders, messages>>
      /\ sends' = sends \cup {new} /\ chat' = [chat EXCEPT !.outgoing = out]
  BY DEF Transmit
<1>2. new.client = client /\ p1.client = client
  BY DEF NewSend
<1> HIDE DEF new, p1
<1>3. chat'.messages = chat.messages /\ chat'.outgoing = out
  <2> HIDE DEF out
  <2> QED BY <1>1 DEF SnapFits
<1>4. Texts' = Texts
  BY <1>1, <1>3 DEF Texts
<1>5. \A x \in Carriers' : Old(x) \/ x.client = client
  BY <1>1, <1>2, <1>3, <1>4 DEF Carriers, Old
<1>6. CASE \E p \in chat.outgoing : p.client = client
  <2>1. \A x \in Carriers' : Old(x)
    BY <1>5, <1>6 DEF Old, Carriers
  <2> QED BY <2>1, GivenKept
<1>7. CASE client = <<"PAGE", quota["SEND"]>> /\ Use("SEND")
  <2>1. /\ quota' = [e \in DOMAIN quota' |-> quota'[e]] /\ "SEND" \in DOMAIN quota' /\ quota'["SEND"] \in Nat
        /\ quota'["SEND"] < quota["SEND"] /\ quota["SEND"] \in Nat
    BY <1>7, QuotaUsed DEF GivenInv
  <2>2. ASSUME NEW x \in Carriers', NEW n \in Nat, x.client = <<"PAGE", n>> PROVE n > quota'["SEND"]
    <3>1. CASE Old(x)
      <4>1. n > quota["SEND"]
        BY <2>2, <3>1 DEF Old, GivenInv, Given, Carriers
      <4> QED BY <2>1, <4>1
    <3>2. CASE x.client = client
      <4>1. n = quota["SEND"]
        BY <1>7, <2>2, <3>2
      <4> QED BY <2>1, <4>1
    <3> QED BY <1>5, <3>1, <3>2
  <2> QED BY <2>1, <2>2 DEF GivenInv, Given, Carriers
<1> QED BY <1>6, <1>7

LEMMA OutgoingGives ==
    ASSUME SendsFit, TalkInv, GivenInv, Mine \in Channels, OutgoingSteps
    PROVE  GivenInv'
<1>0. SnapFits(chat)
  BY DEF TalkInv, FitsInv
<1>1. ASSUME SendMessage PROVE GivenInv'
  BY <1>0, <1>1, TransmitGives DEF SendMessage, Lessened
<1>2. ASSUME NEW p \in chat.outgoing, RetryMessage(p) PROVE GivenInv'
  BY <1>0, <1>2, TransmitGives DEF RetryMessage, Lessened
<1>3. ASSUME ThrottleEnds PROVE GivenInv'
  <2>1. UNCHANGED <<refreshing, olders, sends, messages, quota>>
    BY <1>3 DEF ThrottleEnds, chatVars
  <2>2. AddsNoText
    BY <1>3, ThrottlePasses
  <2> QED BY <2>1, <2>2, ToldBefore, PageTells DEF Lessened
<1>4. ASSUME NEW s \in sends, SendArrives(s) PROVE GivenInv'
  <2>1. UNCHANGED <<refreshing, olders, messages, quota>> /\ sends' = sends \ {s}
    BY <1>4 DEF SendArrives
  <2>2. AddsNoText
    BY <1>4, SendComes
  <2>3. SendsTold
    BY <2>1 DEF SendsTold
  <2> QED BY <2>1, <2>2, <2>3, ToldBefore, PageTells DEF Lessened
<1>5. ASSUME NEW s \in sends, SendLost(s) PROVE GivenInv'
  <2> DEFINE t == [s EXCEPT !.awaited = FALSE]
  <2>1. /\ UNCHANGED <<refreshing, olders, messages>> /\ Lessened
        /\ sends' = (sends \ {s}) \cup (IF s.phase = "DONE" THEN {} ELSE {t})
    BY <1>5 DEF SendLost, Lessened
  <2>2. t.client = s.client
    <3>1. s \in [channel : Channels, by : {s.by}, client : {s.client}, awaited : {s.awaited}, rev : {s.rev},
                 phase : {s.phase}, order : {s.order}, seq : {s.seq}, answer : {s.answer}]
      BY DEF SendsFit, SendFits
    <3> QED BY <3>1
  <2> HIDE DEF t
  <2>3. SendsTold
    BY <2>1, <2>2 DEF SendsTold
  <2>4. AddsNoText
    BY <1>5, SendIsLost
  <2> QED BY <2>1, <2>3, <2>4, ToldBefore, PageTells
<1> QED BY <1>1, <1>2, <1>3, <1>4, <1>5 DEF OutgoingSteps

LEMMA GivenStep == ASSUME ChatInv, ChatInv', TalkInv, GivenInv, ChatPageNext PROVE GivenInv'
<1>1. Mine \in Channels /\ SendsFit /\ SendsAccess
  BY ChatAssumption DEF Mine, Channels, ChatInv, TalkInv, AccessInv
<1> QED BY <1>1, ServiceGives, RefreshGives, ReadingGives, OutgoingGives DEF ChatPageNext

-----------------------------------------------------------------------------
(* A conversation at all times.                                            *)

TalkKept == TalkInv /\ (part = "CHAT" => GivenInv)

LEMMA TalkStart == Init => TalkKept
<1> SUFFICES ASSUME NEW c \in Cases, part = c.part, quota = c.quota,
                    ChatInit(c.start.talk, c.start.read), ChatPageInit
             PROVE  TalkKept
  BY DEF Init
<1> DEFINE talk == c.start.talk
           Earlier(d, n) == [channel |-> d, seq |-> n, by |-> Other, client |-> <<"EARLIER", n>>, at |-> -Window]
<1>1. talk \in Nat /\ c.start.read \in Nat
  BY CasesAssumption
<1>2. Mine \in Channels
  BY ChatAssumption DEF Mine, Channels
<1>3. /\ readTo \in [Channels -> Nat] /\ sends = {}
      /\ messages = {Earlier(d, n) : d \in Channels, n \in 1 .. talk}
  BY <1>1 DEF ChatInit
<1>4. /\ chat = [channel |-> NoChannel, messages |-> {}, outgoing |-> {}, cursor |-> -1, rev |-> 0,
                 orderVersion |-> 0, closed |-> FALSE, throttled |-> FALSE, hasOlder |-> FALSE,
                 olderLoading |-> FALSE, error |-> FALSE, timer |-> FALSE]
      /\ refreshing = NewRefresh(chat, props) /\ olders = {} /\ marking = NotMarking
      /\ fetched = 1 .. readTo[Mine]
  BY DEF ChatPageInit
<1>5. /\ SnapFits(chat) /\ chat.channel = NoChannel /\ chat.messages = {} /\ chat.outgoing = {}
      /\ chat.cursor = -1 /\ chat.rev = 0
  BY <1>4, NoChannelFits DEF SnapFits
<1>6. /\ RefreshFits(refreshing) /\ refreshing.phase = "CHANNEL" /\ refreshing.answer = "NONE"
      /\ refreshing.rev = 0 /\ refreshing.channel = NoChannel /\ refreshing.last = 0 /\ refreshing.items = {}
  <2> DEFINE N(v, f) == [NotRefreshing EXCEPT !.phase = "CHANNEL", !.rev = 0, !.version = v, !.final = f]
  <2>1. ASSUME NEW v, NEW f
        PROVE  /\ N(v, f) \in [phase : {"CHANNEL"}, rev : {0}, version : {v}, final : {f}, channel : {NoChannel},
                               first : {0}, last : {0}, answer : {"NONE"}, items : {{}}, more : {FALSE}]
    BY DEF NotRefreshing
  <2>2. refreshing = N(props.version, props.final)
    BY <1>4, <1>5 DEF NewRefresh
  <2> HIDE DEF N
  <2>3. refreshing \in [phase : {"CHANNEL"}, rev : {0}, version : {props.version}, final : {props.final},
                        channel : {NoChannel}, first : {0}, last : {0}, answer : {"NONE"}, items : {{}},
                        more : {FALSE}]
    BY <2>1, <2>2
  <2> QED BY <2>3, NoChannelFits DEF RefreshFits
<1>7. MarkFits /\ marking.seq = 0
  BY <1>4 DEF MarkFits, NotMarking
<1>8. FitsInv /\ AccessInv
  BY <1>3, <1>4, <1>5, <1>6, <1>7, NoChannelFits
  DEF FitsInv, AccessInv, ChatAccess, NothingLeft, RefreshAccess, OldersAccess, SendsAccess
<1>9. ShownInv
  BY <1>4, <1>5, <1>6, <1>7, NoChannelFits DEF ShownInv, ShownTo
<1>10. GapInv /\ OutgoingInv
  BY <1>5, <1>6, NoChannelFits DEF GapInv, PagesFit, UnreadExact, OutgoingInv, OutgoingOnce
<1>11. part = "CHAT" => GivenInv
  <2>1. \A x \in Texts \cup sends \cup chat.outgoing : \E n : x.client = <<"EARLIER", n>>
    <3>1. \A d, n : Earlier(d, n).client = <<"EARLIER", n>>
      OBVIOUS
    <3>2. \A x \in messages : \E d, n : x = Earlier(d, n)
      BY <1>3
    <3> HIDE DEF Earlier
    <3>3. chat.messages = {} /\ refreshing.items = {} /\ olders = {} /\ sends = {} /\ chat.outgoing = {}
      BY <1>3, <1>4, <1>5, <1>6
    <3>4. Texts \cup sends \cup chat.outgoing \subseteq messages
      BY <3>3 DEF Texts
    <3> QED BY <3>1, <3>2, <3>4
  <2>2. \A x \in Texts \cup sends \cup chat.outgoing : Given(x.client)
    BY <2>1 DEF Given
  <2>3. part = "CHAT" =>
            quota = [e \in DOMAIN quota |-> quota[e]] /\ "SEND" \in DOMAIN quota /\ quota["SEND"] \in Nat
    BY QuotasAssumption
  <2> QED BY <2>2, <2>3 DEF GivenInv
<1> QED BY <1>8, <1>9, <1>10, <1>11 DEF TalkKept, TalkInv

LEMMA TalkStutters == ASSUME TalkInv, UNCHANGED talkVars PROVE TalkInv'
<1>1. UNCHANGED <<chat, refreshing, olders, marking, fetched, readTo, sends>>
  BY DEF talkVars, chatVars, chatPageVars
<1>2. Mine \in Channels
  BY ChatAssumption DEF Mine, Channels
<1> QED BY <1>1, <1>2, StandsStill, TalkMoves

(* The page and the service fit together at all times: what is fetched,    *)
(* what may be read and what goes out.                                     *)
THEOREM TalkIsSound == Spec => []TalkKept
<1>1. ChatInv /\ ChatInv' /\ TalkKept /\ [Next]_vars => TalkKept'
  <2> SUFFICES ASSUME ChatInv, ChatInv', TalkKept, [Next]_vars PROVE TalkKept'
    OBVIOUS
  <2>1. CASE TalkNext
    <3>1. TalkInv /\ GivenInv /\ ChatPageNext
      BY <2>1 DEF TalkNext, TalkKept
    <3> QED BY <3>1, TalkStep, GivenStep DEF TalkKept
  <2>2. CASE UNCHANGED talkVars /\ part # "CHAT" /\ part' = part
    BY <2>2, TalkStutters DEF TalkKept
  <2>3. CASE UNCHANGED <<talkVars, part, quota>>
    <3>1. UNCHANGED <<chat, refreshing, olders, messages, sends, quota>>
      BY <2>3 DEF talkVars, chatVars, chatPageVars
    <3>2. GivenInv => GivenInv'
      BY <3>1 DEF GivenInv, Given, Texts
    <3> QED BY <2>3, <3>2, TalkStutters DEF TalkKept
  <2> QED BY <2>1, <2>2, <2>3
          DEF Next, vars, SocketsNext, SuppliersNext, DraftNext, ErrandNext, ListNext, LoginNext, AdminNext,
              DeskPagesNext, PickupNext, TimesNext
<1> QED BY <1>1, TalkStart, ChatInvHolds, PTL DEF Spec

(* A conversation on screen is what its reader may see, whatever is lost,  *)
(* late or refused: nothing counted as read that was not shown, no gap,    *)
(* nothing left after a refusal, and no message twice.                     *)
THEOREM ConversationIsSound == Spec => []ConversationSound
<1>1. TalkKept => ConversationSound
  BY DEF TalkKept, TalkInv, AccessInv, ChatAccess, ShownInv, ShownTo, GapInv, OutgoingInv, ConversationSound,
         ReadWasShown
<1> QED BY <1>1, TalkIsSound, PTL
=============================================================================
