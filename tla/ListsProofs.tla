----------------------------- MODULE ListsProofs -----------------------------
(***************************************************************************)
(* Proofs about what a client reads page by page while it changes: the     *)
(* feed, the history and the wallet, the errands of the console and the    *)
(* suppliers to choose from, for any number of entries, pages and answers. *)
(***************************************************************************)
EXTENDS PagesProofs

-----------------------------------------------------------------------------
(* The lists a student pages through.                                      *)

EntryRow == [id : Nat, place : Int]

(* Entries that there are, or have been.                                   *)
WereGiven(S) ==
    \A e \in S : /\ e \in EntryRow /\ e.id <= given.id
                 /\ given.place <= e.place /\ e.place < EndOfList

OneEach(S) == \A d, e \in S : d.id = e.id => d = e

Listing(S) == WereGiven(S) /\ IsFiniteSet(S) /\ OneEach(S)

ShelfFits ==
    /\ given \in [id : Nat, place : Int] /\ given.place < EndOfList
    /\ Listing(shelf)

ListFits ==
    /\ list \in [filter : {list.filter}, items : {list.items}, next : Int, pages : Nat, since : {list.since}]
    /\ Listing(list.items) /\ WereGiven(list.since) /\ given.place <= list.next
    /\ list.pages = 0 => list.items = {} /\ list.next = EndOfList
    /\ kind = "LEDGER" => list.items \subseteq shelf
    (* What is on the page of an entry that has not changed is that entry. *)
    /\ \A d \in list.items, e \in list.since \cap shelf : d.id = e.id => d = e

(* What a read from the top has brought: all there was to its last entry.  *)
ReloadFits ==
    /\ reload \in [phase : {"NONE", "ASKED", "SERVED", "WALKING"}, filter : {reload.filter},
                   items : {reload.items}, next : Int, walk : BOOLEAN, from : {reload.from}]
    /\ Listing(reload.items) /\ WereGiven(reload.from) /\ OneEach(reload.from)
    /\ given.place <= reload.next /\ reload.next <= EndOfList
    /\ reload.phase # "NONE" => reload.filter = filter
    /\ reload.walk \/ reload.phase = "WALKING" => kind = "LEDGER"
    /\ reload.phase = "ASKED" => reload.items = {}
    /\ IF kind = "LEDGER" THEN reload.items \subseteq shelf ELSE reload.items \subseteq reload.from
    /\ reload.phase \in {"SERVED", "WALKING"} =>
          /\ list.since \cap shelf \subseteq reload.from
          /\ \A e \in reload.items : e.place <= reload.next
          /\ \A e \in shelf :
                /\ Matches(e, reload.filter) /\ e.place <= reload.next
                /\ e \in reload.from \/ (kind = "LEDGER" /\ \E top \in reload.items : top.place <= e.place)
                => e \in reload.items

(* What a page after a cursor has brought.  It may have been read before   *)
(* the list it will follow was begun: but then what came since came above. *)
MoreFits(m) ==
    /\ m \in [filter : {m.filter}, cursor : Int, served : BOOLEAN, items : {m.items}, next : Int]
    /\ Listing(m.items) /\ given.place <= m.cursor /\ m.cursor # EndOfList /\ given.place <= m.next
    /\ kind = "FEED" => m.filter = filter /\ list.filter = filter /\ list.pages > 0
    /\ kind = "LEDGER" => m.items \subseteq shelf
    /\ \A d \in m.items :
          /\ Matches(d, m.filter) /\ m.cursor < d.place
          /\ \A e \in shelf : d.id = e.id => d = e \/ e.place <= m.cursor
    /\ m.served =>
          \A e \in shelf :
              /\ Matches(e, m.filter) /\ m.cursor < e.place /\ e.place <= m.next
              /\ kind = "FEED" => e \in list.since
              => e \in m.items

MoresFit == \A m \in mores : MoreFits(m)

ListInv == ShelfFits /\ ListFits /\ ReloadFits /\ MoresFit /\ NothingSkipped

(* Among numbers below a bound there is a largest one.                     *)
LEMMA LargestBelow ==
    ASSUME NEW b \in Int, NEW T, \A t \in T : t \in Int /\ t < b, T # {}
    PROVE  Max(T) \in T /\ \A y \in T : y <= Max(T)
<1> DEFINE U == {b - y : y \in T}
<1>1. U \subseteq Nat /\ U # {}
  <2>1. \A y \in T : b - y \in Nat
    OBVIOUS
  <2>2. PICK y \in T : TRUE
    OBVIOUS
  <2> QED BY <2>1, <2>2
<1>2. PICK u \in U : \A v \in U : u <= v
  <2> HIDE DEF U
  <2> QED BY <1>1, SmallestNumber
<1>3. PICK x \in T : u = b - x
  OBVIOUS
<1>4. \A y \in T : x >= y
  <2> SUFFICES ASSUME NEW y \in T PROVE x >= y
    OBVIOUS
  <2>1. b - x <= b - y
    BY <1>2, <1>3
  <2> QED BY <2>1
<1>5. Max(T) \in T /\ \A y \in T : Max(T) >= y
  BY <1>4 DEF Max
<1> QED BY <1>5

(* Above a bound there is a smallest one.                                  *)
LEMMA SmallestAbove ==
    ASSUME NEW b \in Int, NEW T, \A t \in T : t \in Int /\ b <= t, T # {}
    PROVE  \E x \in T : \A y \in T : x <= y
<1> DEFINE U == {y - b : y \in T}
<1>1. U \subseteq Nat /\ U # {}
  <2>1. \A y \in T : y - b \in Nat
    OBVIOUS
  <2>2. PICK y \in T : TRUE
    OBVIOUS
  <2> QED BY <2>1, <2>2
<1>2. PICK u \in U : \A v \in U : u <= v
  <2> HIDE DEF U
  <2> QED BY <1>1, SmallestNumber
<1>3. PICK x \in T : u = x - b
  OBVIOUS
<1>4. \A y \in T : x <= y
  <2> SUFFICES ASSUME NEW y \in T PROVE x <= y
    OBVIOUS
  <2>1. x - b <= y - b
    BY <1>2, <1>3
  <2> QED BY <2>1
<1> QED BY <1>4

LEMMA EndIsNumber == EndOfList \in Nat
BY ListAssumption DEF EndOfList

(* A page holds all there is from its cursor to its own.                   *)
LEMMA PageHolds ==
    ASSUME ShelfFits, NEW f, NEW after \in Int
    PROVE  /\ Page(f, after) = [items |-> Page(f, after).items, next |-> Page(f, after).next]
           /\ Page(f, after).items \subseteq shelf /\ Listing(Page(f, after).items)
           /\ Page(f, after).next \in Int /\ given.place <= Page(f, after).next
           /\ Page(f, after).next <= EndOfList /\ (after <= EndOfList => after <= Page(f, after).next)
           /\ \A e \in Page(f, after).items :
                 Matches(e, f) /\ after < e.place /\ e.place <= Page(f, after).next
           /\ \A e \in shelf :
                 Matches(e, f) /\ after < e.place /\ e.place <= Page(f, after).next => e \in Page(f, after).items
<1> DEFINE all  == {e \in shelf : Matches(e, f) /\ e.place > after}
           before(e) == {d \in all : d.place < e.place}
           onPage == {e \in all : Cardinality(before(e)) < ListPage}
           next == IF onPage = all THEN EndOfList ELSE Max({e.place : e \in onPage})
<1>1. Page(f, after) = [items |-> onPage, next |-> next]
  BY DEF Page
<1>2. /\ \A e \in shelf : e \in EntryRow /\ given.place <= e.place /\ e.place < EndOfList
      /\ given.place \in Int /\ IsFiniteSet(shelf)
  BY DEF ShelfFits, Listing, WereGiven
<1>3. \A e \in shelf : e.place \in Int
  BY <1>2 DEF EntryRow
<1>4. onPage \subseteq shelf /\ Listing(onPage)
  <2>1. onPage \subseteq shelf
    OBVIOUS
  <2>2. IsFiniteSet(onPage)
    BY <1>2, <2>1, FS_Subset
  <2> HIDE DEF onPage
  <2> QED BY <2>1, <2>2 DEF ShelfFits, Listing, WereGiven, OneEach
<1>5. ASSUME NEW e \in onPage, NEW d \in all, d.place <= e.place PROVE d \in onPage
  <2>1. before(d) \subseteq before(e)
    BY <1>3, <1>5
  <2>2. IsFiniteSet(before(e)) /\ IsFiniteSet(before(d))
    BY <1>2, FS_Subset
  <2>3. Cardinality(before(d)) <= Cardinality(before(e))
    <3> HIDE DEF before
    <3> QED BY <2>1, <2>2, FS_Subset
  <2>4. Cardinality(before(e)) \in Nat /\ Cardinality(before(d)) \in Nat
    <3> HIDE DEF before
    <3> QED BY <2>2, FS_CardinalityType
  <2>5. Cardinality(before(e)) < ListPage
    OBVIOUS
  <2>6. Cardinality(before(d)) < ListPage
    <3> HIDE DEF before
    <3> QED BY <2>3, <2>4, <2>5, ListAssumption
  <2> QED BY <2>6
<1>6. onPage # all => onPage # {}
  <2> SUFFICES ASSUME onPage # all PROVE onPage # {}
    OBVIOUS
  <2> DEFINE T == {e.place : e \in all}
  <2>1. T # {} /\ \A t \in T : t \in Int /\ given.place <= t
    BY <1>2, <1>3
  <2>2. PICK x \in T : \A y \in T : x <= y
    <3> HIDE DEF T
    <3> QED BY <1>2, <2>1, SmallestAbove
  <2>3. PICK e \in all : e.place = x
    OBVIOUS
  <2>4. before(e) = {}
    BY <1>3, <2>2, <2>3
  <2>5. Cardinality(before(e)) < ListPage
    <3> HIDE DEF before
    <3> QED BY <2>4, FS_EmptySet, ListAssumption
  <2> QED BY <2>3, <2>5
<1>7. /\ next \in Int /\ given.place <= next /\ next <= EndOfList /\ (after <= EndOfList => after <= next)
      /\ \A e \in onPage : e.place <= next
      /\ \A e \in all : e.place <= next => e \in onPage
  <2>1. CASE onPage = all
    BY <1>2, <1>3, <2>1, EndIsNumber DEF ShelfFits
  <2>2. CASE onPage # all
    <3> DEFINE T == {e.place : e \in onPage}
    <3>1. T # {} /\ \A t \in T : t \in Int /\ t < EndOfList
      BY <1>2, <1>3, <1>6, <2>2
    <3>2. Max(T) \in T /\ \A y \in T : y <= Max(T)
      <4> HIDE DEF T
      <4> QED BY <3>1, EndIsNumber, LargestBelow
    <3>3. next = Max(T)
      BY <2>2
    <3>4. PICK d \in onPage : d.place = next
      BY <3>2, <3>3
    <3>5. next \in Int /\ given.place <= next /\ next <= EndOfList /\ after <= next
      BY <1>2, <1>3, <3>4, EndIsNumber
    <3>6. \A e \in onPage : e.place <= next
      BY <3>2, <3>3
    <3>7. \A e \in all : e.place <= next => e \in onPage
      BY <1>5, <3>4
    <3> QED BY <3>5, <3>6, <3>7
  <2> QED BY <2>1, <2>2
<1>8. \A e \in onPage : Matches(e, f) /\ after < e.place
  BY <1>3
<1>9. \A e \in shelf : Matches(e, f) /\ after < e.place => e \in all
  BY <1>3
<1> HIDE DEF onPage, next, all
<1> QED BY <1>1, <1>4, <1>7, <1>8, <1>9

(* What was given before a change is still among what was given.           *)
LEMMA GivenGrows ==
    ASSUME ShelfFits, given' \in [id : Nat, place : Int], given.id <= given'.id, given'.place <= given.place
    PROVE  \A S : WereGiven(S) => WereGiven(S)'
<1> SUFFICES ASSUME NEW S, WereGiven(S), NEW e \in S
             PROVE  e \in EntryRow /\ e.id <= given'.id /\ given'.place <= e.place /\ e.place < EndOfList
  BY DEF WereGiven
<1>1. e \in EntryRow /\ e.id <= given.id /\ given.place <= e.place /\ e.place < EndOfList
  BY DEF WereGiven
<1>2. e.id \in Nat /\ e.place \in Int /\ given.id \in Nat /\ given.place \in Int
  BY <1>1 DEF EntryRow, ShelfFits
<1>3. given'.id \in Nat /\ given'.place \in Int
  OBVIOUS
<1> QED BY <1>1, <1>2, <1>3

(* The list changes: what is new to it has an ID of its own or, but for    *)
(* the feed, is at the top.                                                *)
LEMMA ShelfMoves ==
    ASSUME ListInv, UNCHANGED <<kind, filter, list, reload, mores>>, ShelfFits',
           given.id <= given'.id, given'.place <= given.place,
           \A e \in shelf' \ shelf :
               /\ e.id > given.id \/ e.place < given.place
               /\ kind # "FEED" => e.place < given.place,
           kind = "LEDGER" => shelf \subseteq shelf'
    PROVE  ListInv'
<1>1. /\ given.id \in Nat /\ given.place \in Int /\ given'.id \in Nat /\ given'.place \in Int
      /\ \A S : WereGiven(S) => WereGiven(S)'
  BY GivenGrows DEF ListInv, ShelfFits
<1>2. \A S : Listing(S) => Listing(S)'
  BY <1>1 DEF Listing, OneEach
<1>3. \A e \in shelf' : e \in EntryRow /\ e.id \in Nat /\ e.place \in Int
  BY DEF ShelfFits, Listing, WereGiven, EntryRow
<1>4. \A S, d : WereGiven(S) /\ d \in S => d.id \in Nat /\ d.place \in Int /\ d.id <= given.id /\ given.place <= d.place
  BY DEF WereGiven, EntryRow
<1>5. \A S : WereGiven(S) => S \cap shelf' \subseteq shelf
  <2> SUFFICES ASSUME NEW S, WereGiven(S), NEW e \in S, e \in shelf', e \notin shelf PROVE FALSE
    OBVIOUS
  <2> QED BY <1>1, <1>3, <1>4
<1>6. ListFits'
  <2>1. list.since \cap shelf' \subseteq list.since \cap shelf
    BY <1>5 DEF ListInv, ListFits
  <2>2. Listing(list.items)' /\ WereGiven(list.since)'
    BY <1>1, <1>2 DEF ListInv, ListFits
  <2>3. given'.place <= list.next
    BY <1>1 DEF ListInv, ListFits
  <2> QED BY <2>1, <2>2, <2>3 DEF ListInv, ListFits
<1>7. ReloadFits'
  <2>1. /\ Listing(reload.items)' /\ WereGiven(reload.from)' /\ OneEach(reload.from)'
        /\ given'.place <= reload.next /\ reload.next <= EndOfList
    BY <1>1, <1>2 DEF ListInv, ReloadFits, OneEach
  <2>2. kind = "LEDGER" => reload.items \subseteq shelf'
    BY DEF ListInv, ReloadFits
  <2>3. list.since \cap shelf' \subseteq list.since \cap shelf
    BY <1>5 DEF ListInv, ListFits
  <2>4. reload.from \cap shelf' \subseteq shelf
    BY <1>5 DEF ListInv, ReloadFits
  <2>5. ASSUME reload.phase \in {"SERVED", "WALKING"}, NEW e \in shelf',
               Matches(e, reload.filter), e.place <= reload.next,
               e \in reload.from \/ (kind = "LEDGER" /\ \E top \in reload.items : top.place <= e.place)
        PROVE  e \in reload.items
    <3>1. e \in shelf
      <4>1. CASE e \in reload.from
        BY <2>4, <4>1
      <4>2. CASE kind = "LEDGER" /\ \E top \in reload.items : top.place <= e.place
        <5> SUFFICES ASSUME e \notin shelf PROVE FALSE
          OBVIOUS
        <5>1. PICK top \in reload.items : top.place <= e.place
          BY <4>2
        <5>2. top.place \in Int /\ given.place <= top.place
          BY <1>4 DEF ListInv, ReloadFits, Listing
        <5>3. e.place < given.place
          BY <4>2
        <5> QED BY <1>1, <1>3, <5>1, <5>2, <5>3
      <4> QED BY <2>5, <4>1, <4>2
    <3> QED BY <2>5, <3>1 DEF ListInv, ReloadFits
  <2>6. \A e : Matches(e, reload.filter)' <=> Matches(e, reload.filter)
    BY DEF Matches
  <2> QED BY <2>1, <2>2, <2>3, <2>5, <2>6 DEF ListInv, ReloadFits
<1>8. ASSUME NEW m \in mores PROVE MoreFits(m)'
  <2>0. MoreFits(m)
    BY DEF ListInv, MoresFit
  <2>1. Listing(m.items)' /\ given'.place <= m.cursor /\ given'.place <= m.next
    BY <1>1, <1>2, <2>0 DEF MoreFits
  <2>2. kind = "LEDGER" => m.items \subseteq shelf'
    BY <2>0 DEF MoreFits
  <2>3. \A e : Matches(e, m.filter)' <=> Matches(e, m.filter)
    BY DEF Matches
  <2>4. m.cursor \in Int /\ given.place <= m.cursor
    BY <2>0 DEF MoreFits
  <2>5. ASSUME NEW d \in m.items, NEW e \in shelf', d.id = e.id PROVE d = e \/ e.place <= m.cursor
    <3>1. CASE e \in shelf
      BY <2>0, <2>5, <3>1 DEF MoreFits
    <3>2. CASE e \notin shelf
      <4>1. d.id \in Nat /\ d.id <= given.id
        BY <1>4, <2>0 DEF MoreFits, Listing
      <4>2. e.place < given.place
        BY <1>1, <1>3, <2>5, <3>2, <4>1
      <4> QED BY <1>1, <1>3, <2>4, <4>2
    <3> QED BY <3>1, <3>2
  <2>6. ASSUME m.served, NEW e \in shelf', Matches(e, m.filter), m.cursor < e.place, e.place <= m.next,
               kind = "FEED" => e \in list.since
        PROVE  e \in m.items
    <3>1. CASE e \in shelf
      BY <2>0, <2>6, <3>1 DEF MoreFits
    <3>2. CASE e \notin shelf
      <4>1. CASE kind = "FEED"
        BY <1>5, <2>6, <3>2, <4>1 DEF ListInv, ListFits
      <4>2. CASE kind # "FEED"
        <5>1. e.place < given.place
          BY <3>2, <4>2
        <5> QED BY <1>1, <1>3, <2>4, <2>6, <5>1
      <4> QED BY <4>1, <4>2
    <3> QED BY <3>1, <3>2
  <2> QED BY <2>0, <2>1, <2>2, <2>3, <2>5, <2>6 DEF MoreFits
<1>9. NothingSkipped'
  <2>1. \A e : Matches(e, list.filter)' <=> Matches(e, list.filter)
    BY DEF Matches
  <2>2. list.since \cap shelf' \subseteq list.since \cap shelf
    BY <1>5 DEF ListInv, ListFits
  <2>3. ASSUME kind = "LEDGER", NEW e \in shelf', NEW top \in list.items, e.place >= top.place PROVE e \in shelf
    <3> SUFFICES ASSUME e \notin shelf PROVE FALSE
      OBVIOUS
    <3>1. e.place < given.place
      BY <2>3
    <3>2. top.place \in Int /\ given.place <= top.place
      BY <1>4 DEF ListInv, ListFits, Listing
    <3> QED BY <1>1, <1>3, <2>3, <3>1, <3>2
  <2> QED BY <2>1, <2>2, <2>3 DEF ListInv, NothingSkipped, Reached
<1> QED BY <1>6, <1>7, <1>8, <1>9 DEF ListInv, MoresFit

LEMMA ShelfSteps ==
    ASSUME ListInv, \/ \E place \in Top .. Entries + 1 : EntryAdded(place)
                    \/ \E e \in shelf : EntryGone(e) \/ EntryTouched(e)
    PROVE  ListInv'
<1>0. /\ given \in [id : Nat, place : Int] /\ given.id \in Nat /\ given.place \in Int /\ given.place < EndOfList
      /\ WereGiven(shelf) /\ IsFiniteSet(shelf) /\ OneEach(shelf) /\ EndOfList \in Nat
  BY EndIsNumber DEF ListInv, ShelfFits, Listing
<1>1. ASSUME NEW place \in Top .. Entries + 1, EntryAdded(place) PROVE ListInv'
  <2> DEFINE new == [id |-> given.id + 1, place |-> place]
  <2>1. /\ UNCHANGED <<kind, filter, list, reload, mores>>
        /\ shelf' = shelf \cup {new} /\ (kind # "FEED" => place = Top)
        /\ given' = [id |-> given.id + 1, place |-> IF place = Top THEN Top ELSE given.place]
    BY <1>1 DEF EntryAdded, ListKept
  <2>2. place \in Int /\ Top <= place /\ place < EndOfList /\ Top = given.place - 1
    BY <1>0, ListAssumption DEF Top, EndOfList
  <2>3. /\ given'.id = given.id + 1 /\ given'.place \in Int /\ given'.place <= given.place
        /\ given'.place <= place /\ given'.place < EndOfList
        /\ given' \in [id : Nat, place : Int]
    BY <1>0, <2>1, <2>2
  <2>4. new \in EntryRow /\ new.id = given.id + 1 /\ new.place = place
    BY <1>0, <2>2 DEF EntryRow
  <2> HIDE DEF new
  <2>5. WereGiven(shelf)'
    <3>1. \A e \in shelf : e \in EntryRow /\ e.id <= given'.id /\ given'.place <= e.place /\ e.place < EndOfList
      BY <1>0, <2>3, GivenGrows DEF WereGiven, ListInv
    <3>2. new \in EntryRow /\ new.id <= given'.id /\ given'.place <= new.place /\ new.place < EndOfList
      BY <1>0, <2>2, <2>3, <2>4
    <3> QED BY <2>1, <3>1, <3>2 DEF WereGiven
  <2>6. \A e \in shelf : e.id \in Nat /\ e.id <= given.id
    BY <1>0 DEF WereGiven, EntryRow
  <2>7. OneEach(shelf)'
    BY <1>0, <2>1, <2>4, <2>6 DEF OneEach
  <2>8. IsFiniteSet(shelf')
    BY <1>0, <2>1, FS_AddElement
  <2>9. ShelfFits'
    BY <2>3, <2>5, <2>7, <2>8 DEF ShelfFits, Listing
  <2>10. \A e \in shelf' \ shelf : /\ e.id > given.id \/ e.place < given.place
                                   /\ kind # "FEED" => e.place < given.place
    BY <1>0, <2>1, <2>2, <2>4
  <2>11. given.id <= given'.id
    BY <1>0, <2>3
  <2> QED BY <2>1, <2>3, <2>9, <2>10, <2>11, ShelfMoves
<1>2. ASSUME NEW e \in shelf, EntryGone(e) PROVE ListInv'
  <2>1. UNCHANGED <<kind, filter, list, reload, mores, given>> /\ shelf' = shelf \ {e} /\ kind # "LEDGER"
    BY <1>2 DEF EntryGone, ListKept
  <2>2. ShelfFits'
    <3>1. IsFiniteSet(shelf')
      BY <1>0, <2>1, FS_Subset
    <3> QED BY <1>0, <2>1, <3>1 DEF ShelfFits, Listing, WereGiven, OneEach
  <2> QED BY <1>0, <2>1, <2>2, ShelfMoves
<1>3. ASSUME NEW e \in shelf, EntryTouched(e) PROVE ListInv'
  <2>1. /\ UNCHANGED <<kind, filter, list, reload, mores>> /\ kind = "HISTORY"
        /\ shelf' = (shelf \ {e}) \cup {[e EXCEPT !.place = Top]} /\ given' = [given EXCEPT !.place = Top]
    BY <1>3 DEF EntryTouched, ListKept
  <2>2. Top \in Int /\ Top = given.place - 1
    BY <1>0 DEF Top
  <2>3. given'.id = given.id /\ given'.place = Top /\ given' \in [id : Nat, place : Int]
    BY <1>0, <2>1, <2>2
  <2>4. PICK new : new = [e EXCEPT !.place = Top]
    OBVIOUS
  <2>5. e \in EntryRow /\ e.id \in Nat /\ e.id <= given.id
    BY <1>0 DEF WereGiven, EntryRow
  <2>6. new \in EntryRow /\ new.id = e.id /\ new.place = Top
    BY <2>2, <2>4, <2>5 DEF EntryRow
  <2>7. shelf' = (shelf \ {e}) \cup {new}
    BY <2>1, <2>4
  <2>8. WereGiven(shelf)'
    <3>1. \A d \in shelf : d \in EntryRow /\ d.id <= given'.id /\ given'.place <= d.place /\ d.place < EndOfList
      BY <1>0, <2>2, <2>3, GivenGrows DEF WereGiven, ListInv
    <3>2. new \in EntryRow /\ new.id <= given'.id /\ given'.place <= new.place /\ new.place < EndOfList
      BY <1>0, <2>2, <2>3, <2>5, <2>6
    <3> QED BY <2>7, <3>1, <3>2 DEF WereGiven
  <2>9. OneEach(shelf)'
    BY <1>0, <2>6, <2>7 DEF OneEach
  <2>10. IsFiniteSet(shelf')
    <3>1. IsFiniteSet(shelf \ {e})
      BY <1>0, FS_Subset
    <3> QED BY <2>7, <3>1, FS_AddElement
  <2>11. ShelfFits'
    BY <1>0, <2>2, <2>3, <2>8, <2>9, <2>10 DEF ShelfFits, Listing
  <2>12. \A d \in shelf' \ shelf : d.place < given.place
    BY <1>0, <2>2, <2>6, <2>7
  <2> QED BY <1>0, <2>1, <2>2, <2>3, <2>11, <2>12, ShelfMoves
<1> QED BY <1>1, <1>2, <1>3

LEMMA MergeListed ==
    ASSUME NEW A, NEW B, Listing(A), Listing(B)
    PROVE  /\ Listing(MergeOrders(A, B)) /\ A \subseteq MergeOrders(A, B) /\ MergeOrders(A, B) \subseteq A \cup B
           /\ \A d \in B : d \in MergeOrders(A, B) \/ \E a \in A : a.id = d.id
           /\ \A d \in MergeOrders(A, B) : d \in A \/ (d \in B /\ \A a \in A : a.id # d.id)
<1> DEFINE M == MergeOrders(A, B)
<1>1. /\ A \subseteq M /\ M \subseteq A \cup B
      /\ \A d \in B : d \in M \/ \E a \in A : a.id = d.id
      /\ \A d \in M : d \in A \/ (d \in B /\ \A a \in A : a.id # d.id)
  BY DEF MergeOrders, IdsOf
<1> HIDE DEF M
<1>2. IsFiniteSet(M)
  <2>1. IsFiniteSet(A \cup B)
    BY FS_Union DEF Listing
  <2> QED BY <1>1, <2>1, FS_Subset
<1>3. OneEach(M)
  BY <1>1 DEF Listing, OneEach
<1>4. WereGiven(M)
  BY <1>1 DEF Listing, WereGiven
<1>5. Listing(M)
  BY <1>2, <1>3, <1>4 DEF Listing
<1> QED BY <1>1, <1>5 DEF M

LEMMA NothingListed == Listing({}) /\ WereGiven({}) /\ OneEach({})
BY FS_EmptySet DEF Listing, WereGiven, OneEach

LEMMA SameGiven ==
    ASSUME UNCHANGED given
    PROVE  \A S : (Listing(S) => Listing(S)') /\ (WereGiven(S) => WereGiven(S)')
BY DEF Listing, WereGiven

(* Nothing has been read.                                                  *)
Unread(r) ==
    /\ r \in [phase : {"NONE", "ASKED"}, filter : {r.filter}, items : {r.items}, next : Int, walk : BOOLEAN,
             from : {r.from}]
    /\ r.items = {} /\ r.from = {} /\ ~r.walk /\ r.next = EndOfList

LEMMA NothingRead ==
    /\ Unread(NoReload) /\ NoReload.phase = "NONE"
    /\ \A f : /\ Unread([NoReload EXCEPT !.phase = "ASKED", !.filter = f])
             /\ [NoReload EXCEPT !.phase = "ASKED", !.filter = f].filter = f
<1>1. EndOfList \in Int
  BY EndIsNumber
<1>2. /\ NoReload \in [phase : {"NONE"}, filter : {"NONE"}, items : {{}}, next : {EndOfList}, walk : BOOLEAN, from : {{}}]
      /\ ~NoReload.walk
  BY DEF NoReload
<1>3. Unread(NoReload) /\ NoReload.phase = "NONE"
  BY <1>1, <1>2 DEF Unread
<1>4. ASSUME NEW f, NEW r, r = [NoReload EXCEPT !.phase = "ASKED", !.filter = f] PROVE Unread(r) /\ r.filter = f
  <2>1. r \in [phase : {"ASKED"}, filter : {f}, items : {{}}, next : {EndOfList}, walk : BOOLEAN, from : {{}}]
    BY <1>2, <1>4
  <2>2. ~r.walk
    BY <1>2, <1>4
  <2> QED BY <1>1, <2>1, <2>2 DEF Unread
<1> QED BY <1>3, <1>4

(* A read begins, or is given up.                                          *)
LEMMA ReloadBegins ==
    ASSUME ListInv, UNCHANGED <<shelf, given, list, kind>>, Unread(reload'),
           reload'.phase # "NONE" => reload'.filter = filter',
           (kind # "FEED" /\ mores' = mores) \/ mores' = {} \/ UNCHANGED <<filter, mores>>
    PROVE  ListInv'
<1>1. /\ reload' \in [phase : {"NONE", "ASKED", "SERVED", "WALKING"}, filter : {reload'.filter},
                      items : {reload'.items}, next : Int, walk : BOOLEAN, from : {reload'.from}]
      /\ reload'.phase \in {"NONE", "ASKED"} /\ reload'.items = {} /\ reload'.from = {}
      /\ ~reload'.walk /\ reload'.next = EndOfList
  BY DEF Unread
<1>2. ReloadFits'
  <2>1. Listing(reload.items)' /\ WereGiven(reload.from)' /\ OneEach(reload.from)'
    BY <1>1, NothingListed, SameGiven DEF OneEach
  <2>2. given.place <= EndOfList /\ EndOfList <= EndOfList
    BY EndIsNumber DEF ListInv, ShelfFits
  <2> QED BY <1>1, <2>1, <2>2 DEF ReloadFits
<1>3. ShelfFits' /\ ListFits'
  BY DEF ListInv, ShelfFits, ListFits, Listing, WereGiven, OneEach
<1>4. NothingSkipped'
  BY DEF ListInv, NothingSkipped, Reached, Matches
<1>5. MoresFit'
  BY DEF ListInv, MoresFit, MoreFits, Listing, WereGiven, OneEach, Matches
<1> QED BY <1>2, <1>3, <1>4, <1>5 DEF ListInv

LEMMA ReloadServes == ASSUME ListInv, ReloadServed PROVE ListInv'
<1>1. /\ UNCHANGED <<kind, shelf, given, filter, list, mores>> /\ reload.phase \in {"ASKED", "WALKING"}
  BY DEF ReloadServed
<1>2. ShelfFits /\ ReloadFits /\ ListFits
  BY DEF ListInv
<1>3. PICK after : after = IF reload.phase = "ASKED" THEN Top ELSE reload.next
  OBVIOUS
<1>4. after \in Int /\ Top < given.place /\ Top \in Int /\ given.place \in Int
  BY <1>2, <1>3 DEF ReloadFits, ShelfFits, Top
<1>5. PICK items, next :
         /\ Page(reload.filter, after) = [items |-> items, next |-> next]
         /\ items \subseteq shelf /\ Listing(items)
         /\ next \in Int /\ given.place <= next
         /\ next <= EndOfList /\ (after <= EndOfList => after <= next)
         /\ \A e \in items : Matches(e, reload.filter) /\ after < e.place /\ e.place <= next
         /\ \A e \in shelf : Matches(e, reload.filter) /\ after < e.place /\ e.place <= next => e \in items
  BY <1>2, <1>4, PageHolds
<1>6. reload \in [phase : {"NONE", "ASKED", "SERVED", "WALKING"}, filter : {reload.filter},
                  items : {reload.items}, next : Int, walk : BOOLEAN, from : {reload.from}]
  BY <1>2 DEF ReloadFits
<1>7. PICK from : from = IF reload.phase = "ASKED" THEN shelf ELSE reload.from
  OBVIOUS
<1>8. reload' = [reload EXCEPT !.phase = "SERVED", !.items = reload.items \cup items, !.next = next, !.from = from]
  <2>1. Page(reload.filter, IF reload.phase = "ASKED" THEN Top ELSE reload.next) = [items |-> items, next |-> next]
    BY <1>3, <1>5
  <2>2. PICK p : p = Page(reload.filter, IF reload.phase = "ASKED" THEN Top ELSE reload.next)
    OBVIOUS
  <2>3. reload' = [reload EXCEPT !.phase = "SERVED", !.items = reload.items \cup p.items, !.next = p.next,
                                 !.from = IF reload.phase = "ASKED" THEN shelf ELSE reload.from]
    BY <2>2 DEF ReloadServed
  <2>4. p.items = items /\ p.next = next
    BY <2>1, <2>2
  <2> QED BY <1>7, <2>3, <2>4
<1>9. /\ reload'.phase = "SERVED" /\ reload'.filter = reload.filter /\ reload'.items = reload.items \cup items
      /\ reload'.next = next /\ reload'.walk = reload.walk /\ reload'.from = from
      /\ reload' \in [phase : {"NONE", "ASKED", "SERVED", "WALKING"}, filter : {reload'.filter},
                      items : {reload'.items}, next : Int, walk : BOOLEAN, from : {reload'.from}]
  BY <1>5, <1>6, <1>8
<1>10. \A e \in shelf : e.place \in Int /\ given.place <= e.place
  BY <1>2 DEF ShelfFits, Listing, WereGiven, EntryRow
<1>11. \A e, f : Matches(e, f)' <=> Matches(e, f)
  BY DEF Matches
<1>12. ReloadFits'
  <2>1. CASE reload.phase = "ASKED"
    <3>1. reload'.items = items /\ reload'.from = shelf /\ after = Top
      BY <1>2, <1>3, <1>7, <1>9, <2>1 DEF ReloadFits
    <3>2. Listing(items) /\ WereGiven(shelf) /\ OneEach(shelf)
      BY <1>2, <1>5 DEF ShelfFits, Listing
    <3>3. Listing(reload.items)' /\ WereGiven(reload.from)' /\ OneEach(reload.from)'
      BY <1>1, <3>1, <3>2, SameGiven DEF OneEach
    <3>4. \A e \in shelf : after < e.place
      BY <1>4, <1>10, <3>1
    <3>5. \A e \in shelf : Matches(e, reload.filter) /\ e.place <= next => e \in items
      BY <1>5, <3>4
    <3>6. reload.filter = filter /\ (reload.walk => kind = "LEDGER")
      BY <1>2, <2>1 DEF ReloadFits
    <3> QED BY <1>1, <1>5, <1>9, <1>11, <3>1, <3>3, <3>5, <3>6 DEF ReloadFits
  <2>2. CASE reload.phase = "WALKING"
    <3>0. kind = "LEDGER" /\ after = reload.next /\ from = reload.from
      BY <1>2, <1>3, <1>7, <2>2 DEF ReloadFits
    <3>1. reload'.items = reload.items \cup items /\ reload'.from = reload.from
      BY <1>9, <3>0
    <3>2. reload.items \subseteq shelf /\ reload'.items \subseteq shelf
      BY <1>2, <1>5, <3>0, <3>1 DEF ReloadFits
    <3>3. Listing(reload.items \cup items)
      <4>1. IsFiniteSet(reload.items \cup items)
        BY <1>2, <3>1, <3>2, FS_Subset DEF ShelfFits, Listing
      <4> QED BY <1>2, <1>5, <3>2, <4>1 DEF ShelfFits, Listing, WereGiven, OneEach
    <3>4. WereGiven(reload.from) /\ OneEach(reload.from)
      BY <1>2 DEF ReloadFits
    <3>5. Listing(reload.items)' /\ WereGiven(reload.from)' /\ OneEach(reload.from)'
      BY <1>1, <3>1, <3>3, <3>4, SameGiven DEF OneEach
    <3>6. \A e \in reload.items : e.place \in Int /\ e.place <= reload.next
      BY <1>2, <1>10, <2>2, <3>2 DEF ReloadFits
    <3>7. reload.next \in Int /\ reload.next <= next
      BY <1>2, <1>5, <1>6, <3>0 DEF ReloadFits
    <3>8. \A e \in reload'.items : e.place <= next
      BY <1>5, <3>1, <3>6, <3>7
    <3>9. ASSUME NEW e \in shelf, Matches(e, reload.filter), e.place <= next,
                 e \in reload.from \/ \E top \in reload'.items : top.place <= e.place
          PROVE  e \in reload'.items
      <4>1. CASE reload.next < e.place
        BY <1>5, <3>0, <3>1, <3>9, <4>1
      <4>2. CASE e.place <= reload.next
        <5>1. e \in reload.from \/ \E top \in reload.items : top.place <= e.place
          <6> SUFFICES ASSUME NEW top \in items, top.place <= e.place PROVE FALSE
            BY <3>1, <3>9
          <6>1. reload.next < top.place /\ top.place \in Int
            BY <1>5, <1>10, <3>0
          <6> QED BY <1>10, <3>7, <4>2, <6>1
        <5> QED BY <1>2, <2>2, <3>0, <3>1, <3>9, <4>2, <5>1 DEF ReloadFits
      <4> QED BY <1>10, <3>7, <4>1, <4>2
    <3>10. list.since \cap shelf \subseteq reload.from /\ reload.filter = filter
      BY <1>2, <2>2 DEF ReloadFits
    <3> QED BY <1>1, <1>5, <1>9, <1>11, <3>0, <3>1, <3>2, <3>5, <3>8, <3>9, <3>10 DEF ReloadFits
  <2> QED BY <1>1, <2>1, <2>2
<1>13. ShelfFits' /\ ListFits'
  BY <1>1 DEF ListInv, ShelfFits, ListFits, Listing, WereGiven, OneEach
<1>14. NothingSkipped'
  BY <1>1 DEF ListInv, NothingSkipped, Reached, Matches
<1>15. MoresFit'
  BY <1>1 DEF ListInv, MoresFit, MoreFits, Listing, WereGiven, OneEach, Matches
<1> QED BY <1>12, <1>13, <1>14, <1>15 DEF ListInv

(* A read from the top has arrived, and the list is what it made of it.    *)
LEMMA ListReplaced ==
    ASSUME ListInv, UNCHANGED <<kind, shelf, given, filter, mores>>, reload' = NoReload,
           list' \in [filter : {filter}, items : {list'.items}, next : Int, pages : Nat \ {0},
                      since : {list'.since}],
           Listing(list'.items), WereGiven(list'.since), given.place <= list'.next,
           kind = "LEDGER" => list'.items \subseteq shelf,
           \A d \in list'.items, e \in list'.since \cap shelf : d.id = e.id => d = e,
           \A e \in list'.since \cap shelf : Matches(e, filter) /\ e.place <= list'.next => e \in list'.items,
           kind = "LEDGER" =>
              \A e \in shelf, top \in list'.items :
                  e.place >= top.place /\ Matches(e, filter) /\ e.place <= list'.next => e \in list'.items,
           kind = "FEED" /\ mores # {} => list'.since = list.since
    PROVE  ListInv'
<1>1. ShelfFits'
  BY DEF ListInv, ShelfFits, Listing, WereGiven, OneEach
<1>2. list'.filter = filter /\ list'.pages # 0 /\ list'.pages > 0 /\ list'.next \in Int
      /\ list' \in [filter : {list'.filter}, items : {list'.items}, next : Int, pages : Nat, since : {list'.since}]
  OBVIOUS
<1>3. Listing(list.items)' /\ WereGiven(list.since)'
  BY DEF Listing, WereGiven, OneEach
<1>4. ListFits'
  BY <1>2, <1>3 DEF ListFits
<1>5. \A e, f : Matches(e, f)' <=> Matches(e, f)
  BY DEF Matches
<1>6. NothingSkipped'
  BY <1>2, <1>5 DEF NothingSkipped, Reached
<1>7. ReloadFits'
  <2>1. PICK r : r = NoReload
    OBVIOUS
  <2>2. Unread(r) /\ r.phase = "NONE" /\ reload' = r
    BY <2>1, NothingRead
  <2>3. /\ reload' \in [phase : {"NONE", "ASKED", "SERVED", "WALKING"}, filter : {reload'.filter},
                        items : {reload'.items}, next : Int, walk : BOOLEAN, from : {reload'.from}]
        /\ reload'.phase = "NONE" /\ reload'.items = {} /\ reload'.from = {}
        /\ ~reload'.walk /\ reload'.next = EndOfList
    BY <2>2 DEF Unread
  <2>4. Listing(reload.items)' /\ WereGiven(reload.from)' /\ OneEach(reload.from)'
    BY <2>3, NothingListed, SameGiven DEF OneEach
  <2>5. given.place <= EndOfList /\ EndOfList <= EndOfList
    BY EndIsNumber DEF ListInv, ShelfFits
  <2> QED BY <2>3, <2>4, <2>5 DEF ReloadFits
<1>8. ASSUME NEW m \in mores PROVE MoreFits(m)'
  <2>1. MoreFits(m)
    BY DEF ListInv, MoresFit
  <2>2. Listing(m.items)'
    BY <2>1, SameGiven DEF MoreFits
  <2>3. kind = "FEED" => m.filter = filter /\ list'.since = list.since
    BY <2>1 DEF MoreFits
  <2> QED BY <1>2, <1>5, <2>1, <2>2, <2>3 DEF MoreFits
<1>9. MoresFit'
  BY <1>8 DEF MoresFit
<1> QED BY <1>1, <1>4, <1>6, <1>7, <1>9 DEF ListInv

LEMMA ReloadArrived == ASSUME ListInv, ReloadArrives PROVE ListInv'
<1>1. UNCHANGED <<kind, shelf, given, filter, mores>> /\ reload.phase = "SERVED"
  BY DEF ReloadArrives
<1>2. ShelfFits /\ ListFits /\ ReloadFits /\ NothingSkipped /\ MoresFit
  BY DEF ListInv
<1>3. \A e, f : Matches(e, f)' <=> Matches(e, f)
  BY DEF Matches
<1>4. reload \in [phase : {"NONE", "ASKED", "SERVED", "WALKING"}, filter : {reload.filter},
                  items : {reload.items}, next : Int, walk : BOOLEAN, from : {reload.from}]
      /\ reload.filter = filter /\ Listing(reload.items) /\ WereGiven(reload.from) /\ OneEach(reload.from)
      /\ given.place <= reload.next
  BY <1>1, <1>2 DEF ReloadFits
<1>5. CASE Walks /\ reload.next # EndOfList /\ target \notin IdsOf(reload.items)
  <2>1. kind = "LEDGER"
    BY <1>2, <1>5 DEF Walks, ReloadFits
  <2>2. reload' = [reload EXCEPT !.phase = "WALKING", !.walk = TRUE] /\ list' = list
    BY <1>5 DEF ReloadArrives
  <2>3. /\ reload' \in [phase : {"NONE", "ASKED", "SERVED", "WALKING"}, filter : {reload'.filter},
                        items : {reload'.items}, next : Int, walk : BOOLEAN, from : {reload'.from}]
        /\ reload'.phase = "WALKING" /\ reload'.filter = reload.filter /\ reload'.items = reload.items
        /\ reload'.next = reload.next /\ reload'.from = reload.from
    BY <1>4, <2>2
  <2>4. ReloadFits'
    <3>1. Listing(reload.items)' /\ WereGiven(reload.from)' /\ OneEach(reload.from)'
      BY <1>1, <1>4, <2>3, SameGiven DEF OneEach
    <3> QED BY <1>1, <1>2, <1>3, <1>4, <2>1, <2>2, <2>3, <3>1 DEF ReloadFits
  <2>5. ShelfFits' /\ ListFits'
    BY <1>1, <2>2 DEF ListInv, ShelfFits, ListFits, Listing, WereGiven, OneEach
  <2>6. NothingSkipped'
    BY <1>1, <2>2 DEF ListInv, NothingSkipped, Reached, Matches
  <2>7. MoresFit'
    BY <1>1, <2>2 DEF ListInv, MoresFit, MoreFits, Listing, WereGiven, OneEach, Matches
  <2> QED BY <2>4, <2>5, <2>6, <2>7 DEF ListInv
<1>6. CASE ~(Walks /\ reload.next # EndOfList /\ target \notin IdsOf(reload.items))
  <2>1. PICK old : old = ListFor(reload.filter)
    OBVIOUS
  <2>2. PICK begun : begun = IF old.pages = 0 THEN reload.from ELSE old.since
    OBVIOUS
  <2>3. PICK new : list' = [new EXCEPT !.since = begun]
                   /\ \/ new = [old EXCEPT !.items = reload.items, !.next = reload.next, !.pages = 1]
                      \/ kind = "LEDGER" /\ new = MergeLedger(old, reload)
                      \/ kind # "LEDGER" /\ new = RefreshPage(old, reload)
    <3>1. PICK new : new = CASE Walks -> [old EXCEPT !.items = reload.items, !.next = reload.next, !.pages = 1]
                             [] ~Walks /\ kind = "LEDGER" -> MergeLedger(old, reload)
                             [] OTHER -> RefreshPage(old, reload)
      OBVIOUS
    <3>2. list' = [new EXCEPT !.since = begun]
      BY <1>6, <2>1, <2>2, <3>1 DEF ReloadArrives
    <3> QED BY <3>1, <3>2
  <2>4. reload' = NoReload
    BY <1>6 DEF ReloadArrives
  <2>5. /\ old \in [filter : {filter}, items : {old.items}, next : Int, pages : Nat, since : {old.since}]
        /\ old.pages # 0 => old = list /\ list.filter = filter
        /\ Listing(old.items) /\ given.place <= old.next
        /\ old.pages = 0 => list.pages = 0 \/ list.filter # filter
    <3>1. CASE list.filter = filter
      <4>1. old = list
        BY <1>4, <2>1, <3>1 DEF ListFor
      <4> QED BY <1>2, <3>1, <4>1 DEF ListFits
    <3>2. CASE list.filter # filter
      <4>1. old = [NoList EXCEPT !.filter = filter]
        BY <1>4, <2>1, <3>2 DEF ListFor
      <4>2. EndOfList \in Int /\ given.place <= EndOfList
        BY <1>2, EndIsNumber DEF ShelfFits
      <4>3. old = [filter |-> filter, items |-> {}, next |-> EndOfList, pages |-> 0, since |-> {}]
        BY <4>1 DEF NoList
      <4> QED BY <3>2, <4>2, <4>3, NothingListed
    <3> QED BY <3>1, <3>2
  <2>6. WereGiven(begun) /\ begun \cap shelf \subseteq reload.from
    <3>1. list.since \cap shelf \subseteq reload.from /\ WereGiven(list.since)
      BY <1>1, <1>2 DEF ReloadFits, ListFits
    <3> QED BY <1>4, <2>2, <2>5, <3>1
  <2>7. kind = "FEED" /\ mores # {} => begun = list.since
    <3> SUFFICES ASSUME kind = "FEED", NEW m \in mores PROVE begun = list.since
      OBVIOUS
    <3>1. list.filter = filter /\ list.pages > 0
      BY <1>2 DEF MoresFit, MoreFits
    <3>2. list.pages # 0
      BY <1>2, <3>1 DEF ListFits
    <3> QED BY <2>2, <2>5, <3>1, <3>2
  <2>8. \A d \in reload.items, e \in begun \cap shelf : d.id = e.id => d = e
    BY <1>2, <2>6 DEF ReloadFits, ShelfFits, Listing, OneEach
  <2>9. \A e \in shelf :
           /\ Matches(e, filter) /\ e.place <= reload.next
           /\ e \in begun \/ (kind = "LEDGER" /\ \E top \in reload.items : top.place <= e.place)
           => e \in reload.items
    BY <1>1, <1>2, <1>4, <2>6 DEF ReloadFits
  <2>10. kind = "LEDGER" => reload.items \subseteq shelf
    BY <1>2 DEF ReloadFits
  <2>11. \A e \in shelf : e.place \in Int
    BY <1>2 DEF ShelfFits, Listing, WereGiven, EntryRow
  <2>12. ASSUME new = [old EXCEPT !.items = reload.items, !.next = reload.next, !.pages = 1] PROVE ListInv'
    <3>1. /\ list' \in [filter : {filter}, items : {list'.items}, next : Int, pages : Nat \ {0}, since : {list'.since}]
          /\ list'.items = reload.items /\ list'.next = reload.next /\ list'.since = begun
      <4>1. reload.next \in Int
        BY <1>4
      <4>2. /\ new \in [filter : {filter}, items : {reload.items}, next : {reload.next}, pages : {1}, since : {old.since}]
        BY <2>5, <2>12
      <4>3. list' \in [filter : {filter}, items : {reload.items}, next : {reload.next}, pages : {1}, since : {begun}]
        BY <2>3, <4>2
      <4> QED BY <4>1, <4>3
    <3>2. kind = "LEDGER" =>
              \A e \in shelf, top \in reload.items :
                  e.place >= top.place /\ Matches(e, filter) /\ e.place <= reload.next => e \in reload.items
      BY <2>9, <2>10, <2>11
    <3> QED BY <1>1, <1>4, <2>4, <2>6, <2>7, <2>8, <2>9, <2>10, <3>1, <3>2, ListReplaced
  <2>13. ASSUME kind = "LEDGER", new = MergeLedger(old, reload) PROVE ListInv'
    <3>1. CASE old.pages = 0 \/ IdsOf(reload.items) \cap IdsOf(old.items) = {}
      BY <2>12, <2>13, <3>1 DEF MergeLedger
    <3>2. CASE ~(old.pages = 0 \/ IdsOf(reload.items) \cap IdsOf(old.items) = {})
      <4>1. new = [old EXCEPT !.items = MergeOrders(old.items, reload.items)] /\ old = list /\ list.filter = filter
            /\ old.pages # 0 /\ begun = list.since
        BY <2>2, <2>5, <2>13, <3>2 DEF MergeLedger
      <4>2. PICK both : both = MergeOrders(list.items, reload.items)
        OBVIOUS
      <4>3. /\ list' \in [filter : {filter}, items : {list'.items}, next : Int, pages : Nat \ {0}, since : {list'.since}]
            /\ list'.items = both /\ list'.next = list.next /\ list'.since = list.since
        BY <2>3, <2>5, <4>1, <4>2
      <4>4. list.items \subseteq shelf /\ Listing(list.items) /\ OneEach(shelf) /\ given.place <= list.next
            /\ WereGiven(list.since)
        BY <1>2, <2>13 DEF ListFits, ShelfFits, Listing
      <4>5. /\ Listing(both) /\ list.items \subseteq both /\ both \subseteq list.items \cup reload.items
            /\ \A d \in reload.items : d \in both \/ \E a \in list.items : a.id = d.id
        BY <1>4, <4>2, <4>4, MergeListed
      <4>6. both \subseteq shelf
        BY <2>10, <2>13, <4>4, <4>5
      <4>7. reload.items \subseteq both
        BY <2>10, <2>13, <4>4, <4>5 DEF OneEach
      <4>8. \A d \in both, e \in list.since \cap shelf : d.id = e.id => d = e
        BY <4>4, <4>6 DEF OneEach
      <4>9. \A e \in list.since \cap shelf : Matches(e, filter) /\ e.place <= list.next => e \in both
        <5>1. list.pages > 0
          BY <2>5, <4>1
        <5> QED BY <1>2, <4>1, <4>5, <5>1 DEF NothingSkipped, Reached
      <4>10. PICK x \in list.items : x \in reload.items
        <5>1. PICK a \in list.items, b \in reload.items : a.id = b.id
          BY <3>2, <4>1 DEF IdsOf
        <5> QED BY <2>10, <2>13, <4>4, <5>1 DEF OneEach
      <4>11. x.place \in Int /\ x.place <= reload.next /\ reload.next \in Int
        BY <1>1, <1>2, <1>4, <2>11, <4>4, <4>10 DEF ReloadFits
      <4>12. ASSUME NEW e \in shelf, NEW top \in both, e.place >= top.place, Matches(e, filter), e.place <= list.next
             PROVE  e \in both
        <5>1. CASE e.place >= x.place
          BY <1>2, <2>13, <4>1, <4>5, <4>10, <4>12, <5>1 DEF NothingSkipped, Reached
        <5>2. CASE top \in list.items
          BY <1>2, <2>13, <4>1, <4>5, <4>12, <5>2 DEF NothingSkipped, Reached
        <5>3. CASE e.place < x.place /\ top \in reload.items
          <6>1. e.place <= reload.next /\ top.place <= e.place
            BY <2>11, <4>6, <4>11, <4>12, <5>3
          <6>2. e \in reload.items
            BY <2>9, <2>13, <4>12, <5>3, <6>1
          <6> QED BY <4>7, <6>2
        <5> QED BY <2>11, <4>5, <4>11, <4>12, <5>1, <5>2, <5>3
      <4> QED BY <1>1, <2>4, <4>3, <4>4, <4>5, <4>6, <4>8, <4>9, <4>12, ListReplaced
    <3> QED BY <3>1, <3>2
  <2>14. ASSUME kind # "LEDGER", new = RefreshPage(old, reload) PROVE ListInv'
    <3>1. CASE old.pages <= 1
      BY <2>12, <2>14, <3>1 DEF RefreshPage
    <3>2. CASE ~(old.pages <= 1)
      <4>0. old.pages # 0 /\ old.pages > 0
        BY <2>5, <3>2
      <4>1. new = [old EXCEPT !.items = MergeOrders(reload.items, old.items)] /\ old = list /\ list.filter = filter
            /\ begun = list.since
        BY <2>2, <2>5, <2>14, <3>2, <4>0 DEF RefreshPage
      <4>2. PICK both : both = MergeOrders(reload.items, list.items)
        OBVIOUS
      <4>3. /\ list' \in [filter : {filter}, items : {list'.items}, next : Int, pages : Nat \ {0}, since : {list'.since}]
            /\ list'.items = both /\ list'.next = list.next /\ list'.since = list.since
        BY <2>3, <2>5, <4>0, <4>1, <4>2
      <4>4. Listing(list.items) /\ given.place <= list.next /\ WereGiven(list.since) /\ reload.items \subseteq reload.from
            /\ \A d \in list.items, e \in list.since \cap shelf : d.id = e.id => d = e
        BY <1>2, <2>14 DEF ListFits, ReloadFits
      <4>5. /\ Listing(both) /\ reload.items \subseteq both /\ both \subseteq list.items \cup reload.items
            /\ \A d \in list.items : d \in both \/ \E a \in reload.items : a.id = d.id
        BY <1>4, <4>2, <4>4, MergeListed
      <4>6. \A d \in both, e \in list.since \cap shelf : d.id = e.id => d = e
        BY <2>8, <4>1, <4>4, <4>5
      <4>7. ASSUME NEW e \in list.since \cap shelf, Matches(e, filter), e.place <= list.next PROVE e \in both
        <5>1. e \in list.items
          BY <1>2, <4>0, <4>1, <4>7 DEF NothingSkipped, Reached
        <5>2. ASSUME NEW a \in reload.items, a.id = e.id PROVE e \in both
          BY <2>8, <4>1, <4>5, <5>2
        <5> QED BY <4>5, <5>1, <5>2
      <4> QED BY <1>1, <2>4, <2>14, <4>3, <4>4, <4>5, <4>6, <4>7, ListReplaced
    <3> QED BY <3>1, <3>2
  <2> QED BY <2>3, <2>12, <2>13, <2>14
<1> QED BY <1>5, <1>6

(* Only the loads of further pages change.                                 *)
LEMMA MoresChange ==
    ASSUME ListInv, UNCHANGED <<kind, shelf, given, filter, list, reload>>, \A m \in mores' : MoreFits(m)
    PROVE  ListInv'
<1>1. ShelfFits' /\ ListFits'
  BY DEF ListInv, ShelfFits, ListFits, Listing, WereGiven, OneEach
<1>2. ReloadFits'
  BY DEF ListInv, ReloadFits, Listing, WereGiven, OneEach, Matches
<1>3. NothingSkipped'
  BY DEF ListInv, NothingSkipped, Reached, Matches
<1>4. MoresFit'
  BY DEF MoresFit, MoreFits, Listing, WereGiven, OneEach, Matches
<1> QED BY <1>1, <1>2, <1>3, <1>4 DEF ListInv

LEMMA MoreBegins == ASSUME ListInv, LoadMore PROVE ListInv'
<1>1. UNCHANGED <<kind, shelf, given, filter, list, reload>> /\ list.filter = filter /\ list.next # EndOfList
  BY DEF LoadMore
<1>2. PICK n : n = [filter |-> filter, cursor |-> list.next, served |-> FALSE, items |-> {}, next |-> EndOfList]
  OBVIOUS
<1>3. mores' = mores \cup {n}
  BY <1>2 DEF LoadMore
<1>4. /\ list.next \in Int /\ given.place <= list.next /\ list.pages > 0
      /\ given.place <= EndOfList
  BY <1>1, EndIsNumber DEF ListInv, ListFits, ShelfFits
<1>5. MoreFits(n)
  <2>1. n.filter = filter /\ n.cursor = list.next /\ ~n.served /\ n.items = {} /\ n.next = EndOfList
    BY <1>2
  <2>2. n \in [filter : {filter}, cursor : {list.next}, served : BOOLEAN, items : {{}}, next : {EndOfList}]
    BY <1>2
  <2>3. n \in [filter : {n.filter}, cursor : Int, served : BOOLEAN, items : {n.items}, next : Int]
    BY <1>4, <2>1, <2>2, EndIsNumber
  <2>4. Listing(n.items)
    BY <2>1, NothingListed
  <2> QED BY <1>1, <1>4, <2>1, <2>3, <2>4 DEF MoreFits
<1>6. \A m \in mores' : MoreFits(m)
  BY <1>3, <1>5 DEF ListInv, MoresFit
<1> QED BY <1>1, <1>6, MoresChange

LEMMA MoreServes == ASSUME ListInv, NEW m \in mores, MoreServed(m) PROVE ListInv'
<1>1. UNCHANGED <<kind, shelf, given, filter, list, reload>>
  BY DEF MoreServed
<1>2. MoreFits(m) /\ ShelfFits
  BY DEF ListInv, MoresFit
<1>3. m.cursor \in Int /\ m \in [filter : {m.filter}, cursor : Int, served : BOOLEAN, items : {m.items}, next : Int]
  BY <1>2 DEF MoreFits
<1>4. PICK items, next :
         /\ Page(m.filter, m.cursor) = [items |-> items, next |-> next]
         /\ items \subseteq shelf /\ Listing(items) /\ next \in Int /\ given.place <= next
         /\ \A e \in items : Matches(e, m.filter) /\ m.cursor < e.place /\ e.place <= next
         /\ \A e \in shelf : Matches(e, m.filter) /\ m.cursor < e.place /\ e.place <= next => e \in items
  BY <1>2, <1>3, PageHolds
<1>5. PICK n : n = [m EXCEPT !.served = TRUE, !.items = items, !.next = next]
  OBVIOUS
<1>6. mores' = (mores \ {m}) \cup {n}
  <2>1. PICK p : p = Page(m.filter, m.cursor)
    OBVIOUS
  <2>2. mores' = (mores \ {m}) \cup {[m EXCEPT !.served = TRUE, !.items = p.items, !.next = p.next]}
    BY <2>1 DEF MoreServed
  <2>3. p.items = items /\ p.next = next
    BY <1>4, <2>1
  <2> QED BY <1>5, <2>2, <2>3
<1>7. MoreFits(n)
  <2>1. /\ n.filter = m.filter /\ n.cursor = m.cursor /\ n.items = items /\ n.next = next
        /\ n \in [filter : {n.filter}, cursor : Int, served : BOOLEAN, items : {n.items}, next : Int]
    BY <1>3, <1>4, <1>5
  <2>2. \A d \in items, e \in shelf : d.id = e.id => d = e
    BY <1>2, <1>4 DEF ShelfFits, Listing, OneEach
  <2> QED BY <1>2, <1>4, <2>1, <2>2 DEF MoreFits
<1>8. \A k \in mores' : MoreFits(k)
  BY <1>6, <1>7 DEF ListInv, MoresFit
<1> QED BY <1>1, <1>8, MoresChange

LEMMA MoreDropped ==
    ASSUME ListInv, NEW m, mores' = mores \ {m}, UNCHANGED <<kind, shelf, given, filter, list, reload>>
    PROVE  ListInv'
<1>1. \A k \in mores' : MoreFits(k)
  BY DEF ListInv, MoresFit
<1> QED BY <1>1, MoresChange

(* A further page goes below the list, and has nothing the list has        *)
(* unless that has changed since.                                          *)
LEMMA MoreArrived == ASSUME ListInv, NEW m \in mores, MoreArrives(m) PROVE ListInv'
<1>1. UNCHANGED <<kind, shelf, given, filter, reload>> /\ mores' = mores \ {m} /\ m.served
  BY DEF MoreArrives
<1>2. CASE ~StillFollows(list, m)
  <2>1. list' = list
    BY <1>2 DEF MoreArrives
  <2> QED BY <1>1, <2>1, MoreDropped
<1>3. CASE StillFollows(list, m)
  <2>1. list.filter = m.filter /\ list.next = m.cursor
    BY <1>3 DEF StillFollows
  <2>2. MoreFits(m) /\ ListFits /\ ShelfFits /\ NothingSkipped /\ OneEach(shelf)
    BY DEF ListInv, MoresFit, ShelfFits, Listing
  <2>3. list.pages # 0 /\ list.pages > 0 /\ list.pages \in Nat /\ m.next \in Int /\ m.cursor \in Int /\ list.next \in Int
    BY <2>1, <2>2 DEF ListFits, MoreFits
  <2>4. PICK both : both = IF kind = "LEDGER" THEN list.items \cup m.items ELSE MergeOrders(list.items, m.items)
    OBVIOUS
  <2>5. list' = [list EXCEPT !.items = both, !.next = m.next, !.pages = list.pages + 1]
    BY <1>3, <2>4 DEF MoreArrives
  <2>6. /\ list'.filter = list.filter /\ list'.items = both /\ list'.next = m.next /\ list'.pages = list.pages + 1
        /\ list'.since = list.since
        /\ list' \in [filter : {list'.filter}, items : {list'.items}, next : Int, pages : Nat, since : {list'.since}]
    <3>1. PICK pages : pages = list.pages + 1
      OBVIOUS
    <3>2. list' = [list EXCEPT !.items = both, !.next = m.next, !.pages = pages] /\ pages \in Nat
      BY <2>3, <2>5, <3>1
    <3>3. list \in [filter : {list.filter}, items : {list.items}, next : Int, pages : Nat, since : {list.since}]
      BY <2>2 DEF ListFits
    <3>4. /\ list' \in [filter : {list.filter}, items : {both}, next : {m.next}, pages : {pages}, since : {list.since}]
      BY <3>2, <3>3
    <3> QED BY <2>3, <3>1, <3>2, <3>4
  <2>7. Listing(list.items) /\ Listing(m.items) /\ (kind = "LEDGER" => list.items \subseteq shelf /\ m.items \subseteq shelf)
    BY <2>2 DEF ListFits, MoreFits
  <2>8. /\ \A d \in list.items : d.place \in Int
        /\ \A d \in m.items : d.place \in Int
        /\ \A d \in shelf : d.place \in Int
    BY <2>2, <2>7 DEF Listing, WereGiven, EntryRow, ShelfFits
  <2>9. /\ Listing(both) /\ list.items \subseteq both /\ both \subseteq list.items \cup m.items
        /\ \A d \in m.items : d \in both \/ \E a \in list.items : a.id = d.id
        /\ kind # "LEDGER" => \A d \in both : d \in list.items \/ (d \in m.items /\ \A a \in list.items : a.id # d.id)
    <3>1. CASE kind = "LEDGER"
      <4>1. both = list.items \cup m.items
        BY <2>4, <3>1
      <4>2. IsFiniteSet(both)
        BY <2>7, <4>1, FS_Union DEF Listing
      <4>3. both \subseteq shelf
        BY <2>7, <3>1, <4>1
      <4>4. Listing(both)
        BY <2>2, <4>2, <4>3 DEF Listing, WereGiven, OneEach, ShelfFits
      <4> QED BY <3>1, <4>1, <4>4
    <3>2. CASE kind # "LEDGER"
      <4>1. both = MergeOrders(list.items, m.items)
        BY <2>4, <3>2
      <4> QED BY <2>7, <4>1, MergeListed
    <3> QED BY <3>1, <3>2
  <2>10. kind = "LEDGER" => both \subseteq shelf
    BY <2>7, <2>9
  <2>11. ASSUME NEW d \in both, NEW e \in list.since \cap shelf, d.id = e.id PROVE d = e
    <3>1. CASE d \in list.items
      BY <2>2, <2>11, <3>1 DEF ListFits
    <3>2. CASE kind = "LEDGER"
      BY <2>2, <2>10, <2>11, <3>2 DEF OneEach
    <3>3. CASE kind # "LEDGER" /\ d \notin list.items
      <4>1. d \in m.items /\ \A a \in list.items : a.id # d.id
        BY <2>9, <3>3
      <4>2. CASE e.place <= m.cursor
        <5>1. Matches(e, list.filter)
          BY <2>1, <2>2, <2>11, <4>1 DEF MoreFits, Matches
        <5>2. e \in list.items
          BY <2>1, <2>2, <2>3, <4>2, <5>1 DEF NothingSkipped, Reached
        <5> QED BY <2>11, <4>1, <5>2
      <4> QED BY <2>2, <2>11, <4>1, <4>2 DEF MoreFits
    <3> QED BY <3>1, <3>2, <3>3
  <2>12. ASSUME NEW e \in list.since \cap shelf, Matches(e, list.filter), e.place <= m.next PROVE e \in both
    <3>1. CASE e.place <= m.cursor
      <4>1. e \in list.items
        BY <2>1, <2>2, <2>3, <2>12, <3>1 DEF NothingSkipped, Reached
      <4> QED BY <2>9, <4>1
    <3>2. CASE m.cursor < e.place
      <4>1. e \in m.items
        BY <1>1, <2>1, <2>2, <2>12, <3>2 DEF MoreFits
      <4>2. ASSUME NEW a \in list.items, a.id = e.id PROVE e \in both
        BY <2>2, <2>9, <4>2 DEF ListFits
      <4> QED BY <2>9, <4>1, <4>2
    <3> QED BY <2>3, <2>8, <3>1, <3>2
  <2>13. ASSUME kind = "LEDGER", NEW e \in shelf, NEW top \in both, e.place >= top.place,
                Matches(e, list.filter), e.place <= m.next
         PROVE  e \in both
    <3>1. CASE e.place <= m.cursor
      <4>1. top \in list.items
        <5> SUFFICES ASSUME top \in m.items PROVE FALSE
          BY <2>9
        <5>1. m.cursor < top.place
          BY <2>2 DEF MoreFits
        <5> QED BY <2>3, <2>8, <2>13, <3>1, <5>1
      <4>2. e \in list.items
        BY <2>1, <2>2, <2>13, <3>1, <4>1 DEF NothingSkipped, Reached
      <4> QED BY <2>9, <4>2
    <3>2. CASE m.cursor < e.place
      <4>1. e \in m.items
        BY <1>1, <2>1, <2>2, <2>13, <3>2 DEF MoreFits
      <4> QED BY <2>4, <2>13, <4>1
    <3> QED BY <2>3, <2>8, <3>1, <3>2
  <2>14. \A e, f : Matches(e, f)' <=> Matches(e, f)
    BY DEF Matches
  <2>15. ListFits'
    <3>1. Listing(list.items)' /\ WereGiven(list.since)' /\ given.place <= m.next
      BY <1>1, <2>2, <2>6, <2>9, SameGiven DEF ListFits, MoreFits
    <3>2. list'.pages # 0
      BY <2>3, <2>6
    <3> QED BY <1>1, <2>6, <2>10, <2>11, <3>1, <3>2 DEF ListFits
  <2>16. NothingSkipped'
    BY <1>1, <2>6, <2>12, <2>13, <2>14 DEF NothingSkipped, Reached
  <2>17. ShelfFits' /\ ReloadFits'
    BY <1>1, <2>6 DEF ListInv, ShelfFits, ReloadFits, Listing, WereGiven, OneEach, Matches
  <2>18. ASSUME NEW k \in mores PROVE MoreFits(k)'
    <3>1. MoreFits(k)
      BY DEF ListInv, MoresFit
    <3>2. Listing(k.items)'
      BY <1>1, <3>1, SameGiven DEF MoreFits
    <3>3. list'.pages > 0
      BY <2>3, <2>6
    <3> QED BY <1>1, <2>6, <2>14, <3>1, <3>2, <3>3 DEF MoreFits
  <2>19. MoresFit'
    BY <1>1, <2>18 DEF MoresFit
  <2> QED BY <2>15, <2>16, <2>17, <2>19 DEF ListInv
<1> QED BY <1>2, <1>3

LEMMA RowRemoved == ASSUME ListInv, NEW e \in list.items, Removed(e) PROVE ListInv'
<1>1. UNCHANGED <<kind, shelf, given, filter, reload, mores>> /\ kind = "FEED" /\ e \notin shelf
  BY DEF Removed
<1>2. PICK rest : rest = list.items \ {e}
  OBVIOUS
<1>3. list' = [list EXCEPT !.items = rest]
  BY <1>2 DEF Removed
<1>4. /\ list'.filter = list.filter /\ list'.items = rest /\ list'.next = list.next /\ list'.pages = list.pages
      /\ list'.since = list.since
      /\ list' \in [filter : {list'.filter}, items : {list'.items}, next : Int, pages : Nat, since : {list'.since}]
  BY <1>3 DEF ListInv, ListFits
<1>5. Listing(rest) /\ rest \subseteq list.items
  <2>1. IsFiniteSet(rest)
    BY <1>2, FS_Subset DEF ListInv, ListFits, Listing
  <2> QED BY <1>2, <2>1 DEF ListInv, ListFits, Listing, WereGiven, OneEach
<1>6. ListFits'
  <2>1. Listing(list.items)' /\ WereGiven(list.since)'
    BY <1>1, <1>4, <1>5, SameGiven DEF ListInv, ListFits
  <2> QED BY <1>1, <1>2, <1>4, <1>5, <2>1 DEF ListInv, ListFits
<1>7. \A d, f : Matches(d, f)' <=> Matches(d, f)
  BY DEF Matches
<1>8. NothingSkipped'
  BY <1>1, <1>2, <1>4, <1>7 DEF ListInv, NothingSkipped, Reached
<1>9. ShelfFits' /\ ReloadFits'
  BY <1>1, <1>4 DEF ListInv, ShelfFits, ReloadFits, Listing, WereGiven, OneEach, Matches
<1>10. ASSUME NEW k \in mores PROVE MoreFits(k)'
  <2>1. MoreFits(k)
    BY DEF ListInv, MoresFit
  <2>2. Listing(k.items)'
    BY <1>1, <2>1, SameGiven DEF MoreFits
  <2> QED BY <1>1, <1>4, <1>7, <2>1, <2>2 DEF MoreFits
<1>11. MoresFit'
  BY <1>1, <1>10 DEF MoresFit
<1> QED BY <1>6, <1>8, <1>9, <1>11 DEF ListInv

LEMMA ListsStep == ASSUME ListInv, ListsNext PROVE ListInv'
<1>1. CASE ReloadFails \/ ReadAgain \/ \E f \in Filters : FilterChanges(f)
  <2>1. PICK r : r = NoReload
    OBVIOUS
  <2>2. CASE ReloadFails
    <3>1. reload' = r /\ UNCHANGED <<kind, shelf, given, filter, list, mores>>
      BY <2>1, <2>2 DEF ReloadFails
    <3>2. Unread(r) /\ r.phase = "NONE"
      BY <2>1, NothingRead
    <3> QED BY <3>1, <3>2, ReloadBegins
  <2>3. CASE ReadAgain
    <3>1. PICK q : q = [NoReload EXCEPT !.phase = "ASKED", !.filter = filter]
      OBVIOUS
    <3>2. reload' = q /\ UNCHANGED <<kind, shelf, given, filter, list, mores>>
      BY <2>3, <3>1 DEF ReadAgain
    <3>3. Unread(q) /\ q.filter = filter
      BY <3>1, NothingRead
    <3> QED BY <3>2, <3>3, ReloadBegins
  <2>4. ASSUME NEW f \in Filters, FilterChanges(f) PROVE ListInv'
    <3>1. PICK q : q = [NoReload EXCEPT !.phase = "ASKED", !.filter = f]
      OBVIOUS
    <3>2. /\ reload' = q /\ UNCHANGED <<kind, shelf, given, list>> /\ filter' = f
          /\ mores' = IF kind = "FEED" THEN {} ELSE mores
      BY <2>4, <3>1 DEF FilterChanges
    <3>3. Unread(q) /\ q.filter = f
      BY <3>1, NothingRead
    <3>4. (kind # "FEED" /\ mores' = mores) \/ mores' = {}
      BY <3>2
    <3> QED BY <3>2, <3>3, <3>4, ReloadBegins
  <2> QED BY <1>1, <2>2, <2>3, <2>4
<1>2. ASSUME NEW m \in mores, MoreFails(m) PROVE ListInv'
  BY <1>2, MoreDropped DEF MoreFails
<1> QED BY <1>1, <1>2, ShelfSteps, ReloadServes, ReloadArrived, RowRemoved, MoreBegins, MoreServes, MoreArrived
        DEF ListsNext

LEMMA ListsIdle == ASSUME ListInv, UNCHANGED <<kind, shelf, given, filter, list, reload, mores>> PROVE ListInv'
BY MoresChange DEF ListInv, MoresFit

LEMMA ListsBegin == ASSUME NEW what, NEW goal, ListInit(what, goal) PROVE ListInv
<1>1. /\ list = NoList /\ mores = {} /\ filter = "ALL"
      /\ shelf = {[id |-> n, place |-> n] : n \in 1 .. Entries} /\ given = [id |-> Entries, place |-> 1]
  BY DEF ListInit
<1>2. Entries \in Nat /\ EndOfList = Entries + 2
  BY ListAssumption DEF EndOfList
<1>3. given \in [id : Nat, place : Int] /\ given.id = Entries /\ given.place = 1 /\ given.place < EndOfList
  BY <1>1, <1>2
<1>4. \A e \in shelf : \E n \in 1 .. Entries : e = [id |-> n, place |-> n] /\ e.id = n /\ e.place = n
  BY <1>1
<1>5. WereGiven(shelf)
  BY <1>2, <1>3, <1>4 DEF WereGiven, EntryRow
<1>6. OneEach(shelf)
  BY <1>4 DEF OneEach
<1>7. IsFiniteSet(shelf)
  <2>1. IsFiniteSet(1 .. Entries)
    BY <1>2, FS_Interval
  <2> DEFINE At == [n \in 1 .. Entries |-> [id |-> n, place |-> n]]
  <2>2. At \in [1 .. Entries -> shelf] /\ \A e \in shelf : \E n \in 1 .. Entries : At[n] = e
    BY <1>1
  <2>3. At \in Surjection(1 .. Entries, shelf)
    <3> HIDE DEF At
    <3> QED BY <2>2 DEF Surjection
  <2> HIDE DEF At
  <2> QED BY <2>1, <2>3, FS_Surjection
<1>8. ShelfFits
  BY <1>3, <1>5, <1>6, <1>7 DEF ShelfFits, Listing
<1>9. /\ list.filter = "NONE" /\ list.items = {} /\ list.next = EndOfList /\ list.pages = 0 /\ list.since = {}
      /\ list \in [filter : {list.filter}, items : {list.items}, next : Int, pages : Nat, since : {list.since}]
  BY <1>1, <1>2 DEF NoList
<1>10. ListFits
  <2>1. Listing(list.items) /\ WereGiven(list.since)
    BY <1>9, NothingListed
  <2> QED BY <1>2, <1>3, <1>9, <2>1 DEF ListFits
<1>11. NothingSkipped
  BY <1>9 DEF NothingSkipped
<1>12. ReloadFits
  <2>1. PICK q : q = [NoReload EXCEPT !.phase = "ASKED", !.filter = "ALL"]
    OBVIOUS
  <2>2. Unread(q) /\ q.filter = "ALL" /\ reload = q
    BY <2>1, NothingRead DEF ListInit
  <2>3. /\ reload \in [phase : {"NONE", "ASKED", "SERVED", "WALKING"}, filter : {reload.filter},
                       items : {reload.items}, next : Int, walk : BOOLEAN, from : {reload.from}]
        /\ reload.phase \in {"NONE", "ASKED"} /\ reload.items = {} /\ reload.from = {}
        /\ ~reload.walk /\ reload.next = EndOfList /\ reload.filter = filter
    BY <1>1, <2>2 DEF Unread
  <2> QED BY <1>2, <1>3, <2>3, NothingListed DEF ReloadFits
<1>13. MoresFit
  BY <1>1 DEF MoresFit
<1> QED BY <1>8, <1>10, <1>11, <1>12, <1>13 DEF ListInv

(* With one entry for an ID, there are as many IDs as entries.             *)
LEMMA IdsCount == ASSUME NEW S, IsFiniteSet(S), OneEach(S) PROVE Cardinality(IdsOf(S)) = Cardinality(S)
<1> DEFINE Id == [e \in S |-> e.id]
<1>1. Id \in [S -> IdsOf(S)]
  BY DEF IdsOf
<1>2. \A d, e \in S : Id[d] = Id[e] => d = e
  BY DEF OneEach
<1>3. \A n \in IdsOf(S) : \E e \in S : Id[e] = n
  BY DEF IdsOf
<1>4. ExistsBijection(S, IdsOf(S))
  <2> HIDE DEF Id
  <2> QED BY <1>1, <1>2, <1>3 DEF ExistsBijection, Bijection, Injection, Surjection, IsInjective
<1> QED BY <1>4, FS_Bijection

LEMMA EachIsListedOnce == ListInv => ListedOnce
BY IdsCount DEF ListInv, ListFits, Listing, ListedOnce

-----------------------------------------------------------------------------
(* Choosing a pickup point.                                                *)

SearchTexts == {NoSearch, "narrow", "nothing"}

ListOf(s) == [items : SUBSET MatchesSearch(s), total : Nat]

(* What is shown came out of suppliers that are still offered, those of    *)
(* the start among them, unless one was deactivated.                       *)
CountsOut(d, s, O) ==
    /\ Shops \ {NewShop} \subseteq O /\ d.items \subseteq O
    /\ d.total = Cardinality(O \cap MatchesSearch(s))

ShownOut(d, s) ==
    /\ d \in ListOf(s)
    /\ dropped = {} => \E O \in SUBSET offered : CountsOut(d, s, O) /\ (d.items = {} => O \cap MatchesSearch(s) = {})

(* A page that is on its way; a further one was read after those before.   *)
PageOut(n, s, number) ==
    /\ n \in ListOf(s)
    /\ dropped = {} =>
          \E O \in SUBSET offered :
              /\ CountsOut(n, s, O) /\ (number = 1 /\ n.items = {} => O \cap MatchesSearch(s) = {})
              /\ number > 1 => \A d \in picker.results : d.items \subseteq O

PickerRow == [query : SearchTexts, search : SearchTexts, page : Nat \ {0}, revision : Nat,
              results : {picker.results}, loading : BOOLEAN, problem : BOOLEAN, debounce : BOOLEAN]

FetchFits(f) ==
    /\ f \in [asked : {Wanted(picker)}, phase : {"SENT", "ANSWERED", "FAILED"}, found : {f.found}]
    /\ f.phase = "ANSWERED" => \E n : f.found = {n} /\ PageOut(n, picker.search, picker.page)

OfferFits ==
    /\ offered \subseteq Shops
    /\ dropped = {} => Shops \ {NewShop} \subseteq offered

AsksFit ==
    /\ picker \in PickerRow
    /\ picker.loading <=> fetches # {}
    /\ picker.problem => fetches = {}
    /\ ~picker.debounce => picker.search = picker.query

FetchesFit ==
    /\ \A f \in fetches : FetchFits(f)
    /\ \A f, g \in fetches : f = g

(* Pages follow pages only; and when nothing is on its way, what was asked *)
(* for is there.                                                           *)
ResultsFit ==
    picker.page > 1 \/ (fetches = {} /\ ~picker.problem) =>
        \E d : /\ picker.results = {d} /\ ShownOut(d, picker.search)
               /\ picker.page > 1 => d.items # {}

PickerInv == OfferFits /\ AsksFit /\ FetchesFit /\ ResultsFit

LEMMA SearchBounds ==
    /\ \A s : MatchesSearch(s) \subseteq Shops /\ IsFiniteSet(MatchesSearch(s))
    /\ \A S : IsFiniteSet(S \cap Shops)
    /\ \A s, O : IsFiniteSet(O \cap MatchesSearch(s)) /\ Cardinality(O \cap MatchesSearch(s)) \in Nat
<1>1. \A s : MatchesSearch(s) \subseteq Shops
  BY PickerAssumption DEF MatchesSearch
<1>2. \A T : T \subseteq Shops => IsFiniteSet(T)
  BY PickerAssumption, FS_Subset
<1>3. \A s, O : IsFiniteSet(O \cap MatchesSearch(s))
  BY <1>1, <1>2
<1> QED BY <1>1, <1>2, <1>3, FS_CardinalityType

LEMMA AppendedItems ==
    ASSUME NEW S, NEW n
    PROVE  \A x : x \in Appended(S, n).items <=> (\E c \in S : x \in c.items) \/ x \in n.items
<1> DEFINE all == UNION {c.items : c \in S}
<1>1. \A x : x \in all <=> \E c \in S : x \in c.items
  OBVIOUS
<1>2. Appended(S, n) = [items |-> all \cup n.items, total |-> n.total]
  BY DEF Appended
<1> HIDE DEF all
<1>3. Appended(S, n).items = all \cup n.items
  BY <1>2
<1> QED BY <1>1, <1>3

(* The answer to what is wanted: a page of what is offered, the first of   *)
(* which is empty only if nothing is.                                      *)
LEMMA FoundOut ==
    ASSUME PickerInv, NEW asked, asked = Wanted(picker)
    PROVE  PageOut(Found(asked), picker.search, picker.page)
<1> DEFINE found == offered \cap MatchesSearch(picker.search)
           before(s) == Cardinality({t \in found : t < s})
           items == {s \in found : before(s) \div ShopsPage = picker.page - 1}
<1>1. asked.search = picker.search /\ asked.page = picker.page
  BY DEF Wanted
<1>2. Found(asked) = [items |-> items, total |-> Cardinality(found)]
  BY <1>1 DEF Found
<1>3. Cardinality(found) \in Nat /\ found \subseteq Shops
  BY SearchBounds
<1>4. Found(asked) \in ListOf(picker.search) /\ Found(asked).items = items
      /\ Found(asked).total = Cardinality(offered \cap MatchesSearch(picker.search))
  BY <1>2, <1>3 DEF ListOf
<1>5. picker.page = 1 /\ items = {} => found = {}
  <2> SUFFICES ASSUME picker.page = 1, found # {} PROVE items # {}
    OBVIOUS
  <2>1. found \subseteq Nat
    BY <1>3, PickerAssumption
  <2>2. PICK s \in found : \A t \in found : s <= t
    <3> HIDE DEF found
    <3> QED BY <2>1, SmallestNumber
  <2>3. {t \in found : t < s} = {}
    BY <2>1, <2>2
  <2>4. before(s) = 0
    <3> HIDE DEF found
    <3> QED BY <2>3, FS_EmptySet
  <2>5. 0 \div ShopsPage = 0
    BY PickerAssumption
  <2>6. s \in items
    <3> HIDE DEF found
    <3> QED BY <2>4, <2>5
  <2> QED BY <2>6
<1>6. dropped = {} => CountsOut(Found(asked), picker.search, offered)
  BY <1>4 DEF PickerInv, OfferFits, CountsOut
<1>7. picker.page > 1 /\ dropped = {} => \A d \in picker.results : d.items \subseteq offered
  BY DEF PickerInv, ResultsFit, ShownOut, CountsOut
<1> HIDE DEF items
<1> QED BY <1>4, <1>5, <1>6, <1>7 DEF PageOut

LEMMA FetchIsServed == ASSUME PickerInv, NEW f \in fetches, FetchServed(f) PROVE PickerInv'
<1>1. UNCHANGED <<picker, offered, dropped>> /\ f.phase = "SENT"
  BY DEF FetchServed
<1>2. f.asked = Wanted(picker) /\ f \in [asked : {Wanted(picker)}, phase : {"SENT", "ANSWERED", "FAILED"}, found : {f.found}]
  BY DEF PickerInv, FetchesFit, FetchFits
<1>3. PICK n : n = Found(f.asked)
  OBVIOUS
<1>4. PICK g : g = [f EXCEPT !.phase = "ANSWERED", !.found = {n}]
  OBVIOUS
<1>5. fetches' = (fetches \ {f}) \cup {g}
  BY <1>3, <1>4 DEF FetchServed
<1>6. fetches \ {f} = {}
  BY DEF PickerInv, FetchesFit
<1>7. PageOut(n, picker.search, picker.page)
  BY <1>2, <1>3, FoundOut
<1>8. g.found = {n} /\ g \in [asked : {Wanted(picker)}, phase : {"SENT", "ANSWERED", "FAILED"}, found : {g.found}]
  BY <1>2, <1>4
<1>9. fetches' = {g}
  BY <1>5, <1>6
<1>10. FetchesFit'
  <2>1. PageOut(n, picker.search, picker.page)'
    BY <1>1, <1>7 DEF PageOut, CountsOut, ListOf, MatchesSearch
  <2>2. FetchFits(g)'
    BY <1>1, <1>8, <2>1 DEF FetchFits, Wanted
  <2> QED BY <1>9, <2>2 DEF FetchesFit
<1>11. AsksFit' /\ OfferFits'
  BY <1>1, <1>9 DEF PickerInv, AsksFit, OfferFits, PickerRow
<1>12. ResultsFit'
  BY <1>1, <1>9 DEF PickerInv, ResultsFit, ShownOut, CountsOut, ListOf, MatchesSearch
<1> QED BY <1>10, <1>11, <1>12 DEF PickerInv

LEMMA FetchFailed == ASSUME PickerInv, NEW f \in fetches, FetchFails(f) PROVE PickerInv'
<1>1. UNCHANGED <<picker, offered, dropped>>
  BY DEF FetchFails
<1>2. f \in [asked : {Wanted(picker)}, phase : {"SENT", "ANSWERED", "FAILED"}, found : {f.found}]
  BY DEF PickerInv, FetchesFit, FetchFits
<1>3. PICK g : g = [f EXCEPT !.phase = "FAILED"]
  OBVIOUS
<1>4. fetches' = {g}
  BY <1>3 DEF FetchFails, PickerInv, FetchesFit
<1>5. g.phase = "FAILED" /\ g \in [asked : {Wanted(picker)}, phase : {"SENT", "ANSWERED", "FAILED"}, found : {g.found}]
  BY <1>2, <1>3
<1>6. FetchesFit'
  BY <1>1, <1>4, <1>5 DEF FetchesFit, FetchFits, Wanted
<1>7. AsksFit' /\ OfferFits'
  BY <1>1, <1>4 DEF PickerInv, AsksFit, OfferFits, PickerRow
<1>8. ResultsFit'
  BY <1>1, <1>4 DEF PickerInv, ResultsFit, ShownOut, CountsOut, ListOf, MatchesSearch
<1> QED BY <1>6, <1>7, <1>8 DEF PickerInv

LEMMA FetchArrives == ASSUME PickerInv, NEW f \in fetches, FetchSettles(f) PROVE PickerInv'
<1>1. UNCHANGED <<offered, dropped>> /\ f.phase # "SENT" /\ fetches' = {}
  BY DEF FetchSettles, PickerInv, FetchesFit
<1>2. /\ f.asked = Wanted(picker) /\ f.phase \in {"SENT", "ANSWERED", "FAILED"}
      /\ f.phase = "ANSWERED" => \E n : f.found = {n} /\ PageOut(n, picker.search, picker.page)
      /\ f.asked.page = picker.page
  BY DEF PickerInv, FetchesFit, FetchFits, Wanted
<1>3. PICK results : results = IF f.phase = "FAILED" THEN picker.results
                               ELSE {IF f.asked.page > 1 THEN Appended(picker.results, next) ELSE next : next \in f.found}
  OBVIOUS
<1>4. PICK problem : problem = (picker.problem \/ f.phase = "FAILED")
  OBVIOUS
<1>5. picker' = [picker EXCEPT !.loading = FALSE, !.problem = problem, !.results = results]
  BY <1>3, <1>4 DEF FetchSettles
<1>6. picker \in PickerRow /\ ~picker.problem
  BY DEF PickerInv, AsksFit
<1>7. problem \in BOOLEAN /\ (problem <=> f.phase = "FAILED")
  BY <1>4, <1>6
<1>8. /\ picker'.query = picker.query /\ picker'.search = picker.search /\ picker'.page = picker.page
      /\ picker'.results = results /\ ~picker'.loading /\ picker'.problem = problem
      /\ picker'.debounce = picker.debounce
      /\ picker' \in [query : SearchTexts, search : SearchTexts, page : Nat \ {0}, revision : Nat,
                      results : {picker'.results}, loading : BOOLEAN, problem : BOOLEAN, debounce : BOOLEAN]
  BY <1>5, <1>6, <1>7 DEF PickerRow
<1>9. AsksFit'
  BY <1>1, <1>8 DEF PickerInv, AsksFit, PickerRow
<1>10. OfferFits' /\ FetchesFit'
  BY <1>1 DEF PickerInv, OfferFits, FetchesFit
<1>11. ResultsFit'
  <2>1. CASE f.phase = "FAILED"
    <3>1. picker'.results = picker.results /\ picker'.problem
      BY <1>3, <1>7, <1>8, <2>1
    <3> QED BY ZenonT(60), <1>1, <1>8, <3>1 DEF PickerInv, ResultsFit, ShownOut, CountsOut, ListOf, MatchesSearch
  <2>2. CASE f.phase = "ANSWERED"
    <3>1. PICK n : f.found = {n} /\ PageOut(n, picker.search, picker.page)
      BY <1>2, <2>2
    <3>2. n \in ListOf(picker.search)
      BY <3>1 DEF PageOut
    <3>3. CASE picker.page = 1
      <4>1. results = {n}
        BY <1>2, <1>3, <2>2, <3>1, <3>3
      <4>2. ShownOut(n, picker.search)
        BY <3>1, <3>3 DEF PageOut, ShownOut
      <4>3. ShownOut(n, picker.search)'
        BY <1>1, <1>8, <4>2 DEF ShownOut, CountsOut, ListOf, MatchesSearch
      <4> QED BY <1>8, <3>3, <4>1, <4>3 DEF ResultsFit
    <3>4. CASE picker.page > 1
      <4>1. PICK d : picker.results = {d} /\ ShownOut(d, picker.search) /\ d.items # {}
        BY <3>4 DEF PickerInv, ResultsFit
      <4>2. PICK both : both = Appended(picker.results, n)
        OBVIOUS
      <4>3. results = {both}
        BY <1>2, <1>3, <2>2, <3>1, <3>4, <4>2
      <4>4. \A x : x \in both.items <=> x \in d.items \cup n.items
        BY <4>1, <4>2, AppendedItems
      <4>5. both = [items |-> both.items, total |-> n.total]
        BY <4>2 DEF Appended
      <4>6. both.items = d.items \cup n.items /\ both.total = n.total /\ both \in ListOf(picker.search)
        <5>1. both.items = d.items \cup n.items
          BY <4>4
        <5>2. both.items \subseteq MatchesSearch(picker.search) /\ n.total \in Nat
          BY <3>2, <4>1, <5>1 DEF ShownOut, ListOf
        <5>3. both.total = n.total
          BY <4>5
        <5>4. both \in ListOf(picker.search)
          BY <4>5, <5>2 DEF ListOf
        <5> QED BY <5>1, <5>3, <5>4
      <4>7. ASSUME dropped = {} PROVE \E O \in SUBSET offered : CountsOut(both, picker.search, O)
        <5>1. PICK O \in SUBSET offered : CountsOut(n, picker.search, O) /\ d.items \subseteq O
          BY <3>1, <3>4, <4>1, <4>7 DEF PageOut
        <5> QED BY <4>6, <5>1 DEF CountsOut
      <4>8. both.items # {}
        BY <4>1, <4>6
      <4>9. ShownOut(both, picker.search)
        BY <4>6, <4>7, <4>8 DEF ShownOut
      <4>10. ShownOut(both, picker.search)'
        BY <1>1, <1>8, <4>9 DEF ShownOut, CountsOut, ListOf, MatchesSearch
      <4> QED BY <1>8, <4>3, <4>8, <4>10 DEF ResultsFit
    <3>5. picker.page = 1 \/ picker.page > 1
      BY <1>6 DEF PickerRow
    <3> QED BY <3>3, <3>4, <3>5
  <2> QED BY <1>1, <1>2, <2>1, <2>2
<1> QED BY <1>9, <1>10, <1>11 DEF PickerInv

(* What is asked for changes, and is read; or it does not.                 *)
LEMMA PickerBecomes ==
    ASSUME PickerInv, NEW p \in PickerRow, Become(p),
           p.loading = picker.loading, p.problem = picker.problem, p.results = picker.results,
           ~p.debounce => p.search = p.query,
           p.page > 1 => /\ p.search = picker.search
                         /\ picker.page > 1 \/ (fetches = {} /\ ~picker.problem /\ MoreOffered)
    PROVE  PickerInv'
<1>1. UNCHANGED <<offered, dropped>>
  BY DEF Become
<1>2. OfferFits'
  BY <1>1 DEF PickerInv, OfferFits
<1>3. CASE Wanted(p) = Wanted(picker)
  <2>1. picker' = p
    BY <1>3 DEF Become
  <2>2. fetches' = fetches
    BY <1>3 DEF Become, Aborted, PickerInv, FetchesFit, FetchFits
  <2>3. p.search = picker.search /\ p.page = picker.page
    BY <1>3 DEF Wanted
  <2>4. AsksFit'
    BY <2>1, <2>2 DEF PickerInv, AsksFit, PickerRow
  <2>5. ASSUME NEW f \in fetches PROVE FetchFits(f)'
    <3>1. FetchFits(f)
      BY DEF PickerInv, FetchesFit
    <3>2. \A n : PageOut(n, picker.search, picker.page) => PageOut(n, picker.search, picker.page)'
      BY <1>1, <2>1, <2>3 DEF PageOut, CountsOut, ListOf, MatchesSearch
    <3> QED BY <1>3, <2>1, <3>1, <3>2 DEF FetchFits
  <2>6. FetchesFit'
    BY <2>2, <2>5 DEF PickerInv, FetchesFit
  <2>7. ResultsFit'
    BY <1>1, <2>1, <2>2, <2>3 DEF PickerInv, ResultsFit, ShownOut, CountsOut, ListOf, MatchesSearch
  <2> QED BY <1>2, <2>4, <2>6, <2>7 DEF PickerInv
<1>4. CASE Wanted(p) # Wanted(picker)
  <2>1. picker' = [p EXCEPT !.loading = TRUE, !.problem = FALSE]
    BY <1>4 DEF Become
  <2>2. /\ picker'.query = p.query /\ picker'.search = p.search /\ picker'.page = p.page
        /\ picker'.revision = p.revision
        /\ picker'.results = picker.results /\ picker'.loading /\ ~picker'.problem
        /\ picker'.debounce = p.debounce
        /\ picker' \in [query : SearchTexts, search : SearchTexts, page : Nat \ {0}, revision : Nat,
                        results : {picker'.results}, loading : BOOLEAN, problem : BOOLEAN, debounce : BOOLEAN]
    BY <2>1 DEF PickerRow
  <2>3. PICK g : g = NewFetch(p)
    OBVIOUS
  <2>4. fetches' = {g}
    BY <1>4, <2>3 DEF Become, Aborted, PickerInv, FetchesFit, FetchFits
  <2>5. Wanted(picker)' = Wanted(p)
    BY <2>2 DEF Wanted
  <2>6. g.phase = "SENT" /\ g \in [asked : {Wanted(p)}, phase : {"SENT", "ANSWERED", "FAILED"}, found : {g.found}]
    BY <2>3 DEF NewFetch
  <2>7. FetchesFit'
    BY <2>4, <2>5, <2>6 DEF FetchesFit, FetchFits
  <2>8. AsksFit'
    BY <2>2, <2>4 DEF AsksFit, PickerRow
  <2>9. ResultsFit'
    <3> SUFFICES ASSUME p.page > 1 PROVE ResultsFit'
      BY <2>2, <2>4 DEF ResultsFit
    <3>1. PICK d : picker.results = {d} /\ ShownOut(d, picker.search) /\ d.items # {}
      BY DEF PickerInv, ResultsFit, MoreOffered
    <3>2. ShownOut(d, p.search)
      BY <3>1
    <3>3. ShownOut(d, picker.search)'
      BY <1>1, <2>2, <3>2 DEF ShownOut, CountsOut, ListOf, MatchesSearch
    <3> QED BY <2>2, <3>1, <3>3 DEF ResultsFit
  <2> QED BY <1>2, <2>7, <2>8, <2>9 DEF PickerInv
<1> QED BY <1>3, <1>4

LEMMA PickerTurns ==
    ASSUME PickerInv, \/ \E text \in {NoSearch, "narrow", "nothing"} : Type(text)
                      \/ Debounced \/ MoreShops \/ RetryLoad \/ ClearSearch
    PROVE  PickerInv'
<1>0. /\ picker \in PickerRow
      /\ ~picker.debounce => picker.search = picker.query
      /\ picker.query \in SearchTexts /\ picker.search \in SearchTexts /\ picker.page \in Nat \ {0} /\ picker.revision \in Nat
      /\ picker.debounce \in BOOLEAN
  BY DEF PickerInv, AsksFit, PickerRow
<1>1. ASSUME NEW text \in {NoSearch, "narrow", "nothing"}, Type(text) PROVE PickerInv'
  <2>1. PICK p : p = [picker EXCEPT !.query = text, !.debounce = TRUE]
    OBVIOUS
  <2>2. Become(p)
    BY <1>1, <2>1 DEF Type
  <2>3. p \in PickerRow
    BY <1>0, <2>1 DEF PickerRow, SearchTexts
  <2>4. /\ p.loading = picker.loading /\ p.problem = picker.problem /\ p.results = picker.results
        /\ p.debounce /\ p.search = picker.search /\ p.page = picker.page
    BY <1>0, <2>1 DEF PickerRow
  <2> QED BY <2>2, <2>3, <2>4, PickerBecomes
<1>2. CASE Debounced
  <2>1. PICK p : p = [picker EXCEPT !.debounce = FALSE, !.page = 1, !.search = picker.query]
    OBVIOUS
  <2>2. Become(p)
    BY <1>2, <2>1 DEF Debounced
  <2>3. p \in PickerRow
    <3>1. p \in [query : SearchTexts, search : SearchTexts, page : {1}, revision : Nat, results : {picker.results},
                  loading : BOOLEAN, problem : BOOLEAN, debounce : BOOLEAN]
      BY <1>0, <2>1 DEF PickerRow
    <3>2. {1} \subseteq Nat \ {0}
      OBVIOUS
    <3> QED BY <3>1, <3>2 DEF PickerRow
  <2>4. /\ p.loading = picker.loading /\ p.problem = picker.problem /\ p.results = picker.results
        /\ p.search = p.query /\ ~(p.page > 1)
    BY <1>0, <2>1 DEF PickerRow
  <2> QED BY <2>2, <2>3, <2>4, PickerBecomes
<1>3. CASE MoreShops
  <2>1. PICK next : next = picker.page + 1
    OBVIOUS
  <2>2. PICK p : p = [picker EXCEPT !.page = next]
    OBVIOUS
  <2>3. Become(p) /\ ~picker.problem /\ ~picker.loading /\ MoreOffered
    BY <1>3, <2>1, <2>2 DEF MoreShops
  <2>4. p \in PickerRow
    <3>1. next \in Nat \ {0}
      BY <1>0, <2>1
    <3> QED BY <1>0, <2>2, <3>1 DEF PickerRow
  <2>5. /\ p.loading = picker.loading /\ p.problem = picker.problem /\ p.results = picker.results
        /\ p.search = picker.search /\ p.query = picker.query /\ p.debounce = picker.debounce
    BY <1>0, <2>2 DEF PickerRow
  <2>6. fetches = {}
    BY <2>3 DEF PickerInv, AsksFit
  <2> QED BY <1>0, <2>3, <2>4, <2>5, <2>6, PickerBecomes
<1>4. CASE RetryLoad
  <2>1. PICK next : next = picker.revision + 1
    OBVIOUS
  <2>2. PICK p : p = [picker EXCEPT !.revision = next]
    OBVIOUS
  <2>3. Become(p)
    BY <1>4, <2>1, <2>2 DEF RetryLoad
  <2>4. p \in PickerRow
    <3>1. next \in Nat
      BY <1>0, <2>1
    <3> QED BY <1>0, <2>2, <3>1 DEF PickerRow
  <2>5. /\ p.loading = picker.loading /\ p.problem = picker.problem /\ p.results = picker.results
        /\ p.search = picker.search /\ p.query = picker.query /\ p.debounce = picker.debounce /\ p.page = picker.page
    BY <1>0, <2>2 DEF PickerRow
  <2> QED BY <1>0, <2>3, <2>4, <2>5, PickerBecomes
<1>5. CASE ClearSearch
  <2>1. PICK running \in BOOLEAN : running = (picker.debounce \/ picker.query # NoSearch)
    OBVIOUS
  <2>2. PICK p : p = [picker EXCEPT !.query = NoSearch, !.search = NoSearch, !.page = 1, !.debounce = running]
    OBVIOUS
  <2>3. Become(p)
    BY <1>5, <2>1, <2>2 DEF ClearSearch
  <2>4. p \in PickerRow
    <3>1. p \in [query : {NoSearch}, search : {NoSearch}, page : {1}, revision : Nat, results : {picker.results},
                  loading : BOOLEAN, problem : BOOLEAN, debounce : BOOLEAN]
      BY <1>0, <2>1, <2>2 DEF PickerRow
    <3>2. {1} \subseteq Nat \ {0} /\ {NoSearch} \subseteq SearchTexts
      BY DEF SearchTexts
    <3> QED BY <3>1, <3>2 DEF PickerRow
  <2>5. /\ p.loading = picker.loading /\ p.problem = picker.problem /\ p.results = picker.results
        /\ p.search = p.query /\ ~(p.page > 1)
    BY <1>0, <2>2 DEF PickerRow
  <2> QED BY <2>3, <2>4, <2>5, PickerBecomes
<1> QED BY <1>1, <1>2, <1>3, <1>4, <1>5

(* What was offered at the start and is not deactivated is offered still.  *)
LEMMA OfferMoves == ASSUME PickerInv, NEW s \in Shops, OfferChanges(s) PROVE PickerInv'
<1>1. /\ UNCHANGED <<picker, fetches>> /\ offered' \subseteq offered \cup {s}
      /\ dropped' = {} => dropped = {} /\ offered \subseteq offered'
  BY DEF OfferChanges
<1>2. OfferFits'
  BY <1>1 DEF PickerInv, OfferFits
<1>3. AsksFit'
  BY <1>1 DEF PickerInv, AsksFit, PickerRow
<1>4. \A n : PageOut(n, picker.search, picker.page) => PageOut(n, picker.search, picker.page)'
  BY ZenonT(60), <1>1 DEF PageOut, CountsOut, ListOf, MatchesSearch
<1>5. \A d : ShownOut(d, picker.search) => ShownOut(d, picker.search)'
  BY <1>1 DEF ShownOut, CountsOut, ListOf, MatchesSearch
<1>6. FetchesFit'
  BY <1>1, <1>4 DEF PickerInv, FetchesFit, FetchFits, Wanted
<1>7. ResultsFit'
  BY <1>1, <1>5 DEF PickerInv, ResultsFit
<1> QED BY <1>2, <1>3, <1>6, <1>7 DEF PickerInv

LEMMA PickerStep == ASSUME PickerInv, PickerNext PROVE PickerInv'
BY PickerTurns, FetchIsServed, FetchFailed, FetchArrives, OfferMoves DEF PickerNext

LEMMA PickerIdle == ASSUME PickerInv, UNCHANGED pickerVars PROVE PickerInv'
<1>1. UNCHANGED <<picker, fetches, offered, dropped>>
  BY DEF pickerVars
<1>2. OfferFits' /\ AsksFit'
  BY <1>1 DEF PickerInv, OfferFits, AsksFit, PickerRow
<1>3. FetchesFit'
  <2>1. \A n : PageOut(n, picker.search, picker.page) => PageOut(n, picker.search, picker.page)'
    BY <1>1 DEF PageOut, CountsOut, ListOf, MatchesSearch
  <2> QED BY <1>1, <2>1 DEF PickerInv, FetchesFit, FetchFits, Wanted
<1>4. ResultsFit'
  BY <1>1 DEF PickerInv, ResultsFit, ShownOut, CountsOut, ListOf, MatchesSearch
<1> QED BY <1>2, <1>3, <1>4 DEF PickerInv

LEMMA PickerBegins == PickerInit => PickerInv
<1> SUFFICES ASSUME PickerInit PROVE PickerInv
  OBVIOUS
<1>0. picker = [query |-> NoSearch, search |-> NoSearch, page |-> 1, revision |-> 0, results |-> {},
                loading |-> TRUE, problem |-> FALSE, debounce |-> TRUE]
  BY DEF PickerInit
<1>1. /\ picker.page = 1 /\ picker.loading /\ ~picker.problem /\ picker.debounce
      /\ picker \in PickerRow
  <2>1. picker.page = 1 /\ picker.results = {}
    BY <1>0
  <2>2. picker.loading /\ ~picker.problem /\ picker.debounce
    BY <1>0
  <2>3. picker \in [query : SearchTexts, search : SearchTexts, page : Nat \ {0}, revision : Nat,
                    results : {{}}, loading : BOOLEAN, problem : BOOLEAN, debounce : BOOLEAN]
    <3>1. picker \in [query : {NoSearch}, search : {NoSearch}, page : {1}, revision : {0},
                      results : {{}}, loading : BOOLEAN, problem : BOOLEAN, debounce : BOOLEAN]
      BY <1>0
    <3>2. {1} \subseteq Nat \ {0} /\ {NoSearch} \subseteq SearchTexts /\ {0} \subseteq Nat
      BY DEF SearchTexts
    <3> QED BY <3>1, <3>2
  <2> QED BY <2>1, <2>2, <2>3 DEF PickerRow
<1>2. PICK g : g = NewFetch(picker)
  OBVIOUS
<1>3. fetches = {g} /\ offered = Shops \ {NewShop}
  BY <1>2 DEF PickerInit
<1>4. g.phase = "SENT" /\ g \in [asked : {Wanted(picker)}, phase : {"SENT", "ANSWERED", "FAILED"}, found : {g.found}]
  BY <1>2 DEF NewFetch
<1>5. OfferFits /\ AsksFit
  BY <1>1, <1>3 DEF OfferFits, AsksFit
<1>6. FetchesFit
  BY <1>3, <1>4 DEF FetchesFit, FetchFits
<1>7. ResultsFit
  BY <1>1, <1>3 DEF ResultsFit
<1> QED BY <1>5, <1>6, <1>7 DEF PickerInv

LEMMA PickerIsRight == PickerInv => PickerAnswers
<1> SUFFICES ASSUME PickerInv, fetches = {}, ~picker.debounce, ~picker.problem
             PROVE  /\ picker.search = picker.query /\ ~picker.loading
                    /\ \E d \in picker.results :
                          /\ d.items \subseteq MatchesSearch(picker.query)
                          /\ dropped = {} =>
                                \/ MoreOffered
                                \/ MatchesSearch(picker.query) \ {NewShop} \subseteq d.items
  BY DEF PickerAnswers
<1>1. picker.search = picker.query /\ ~picker.loading
  BY DEF PickerInv, AsksFit
<1>2. PICK d : picker.results = {d} /\ ShownOut(d, picker.query)
  BY <1>1 DEF PickerInv, ResultsFit
<1>3. d.items \subseteq MatchesSearch(picker.query) /\ d.total \in Nat
  BY <1>2 DEF ShownOut, ListOf
<1>4. ASSUME dropped = {}, ~MoreOffered PROVE MatchesSearch(picker.query) \ {NewShop} \subseteq d.items
  <2>1. PICK O \in SUBSET offered : CountsOut(d, picker.query, O) /\ (d.items = {} => O \cap MatchesSearch(picker.query) = {})
    BY <1>2, <1>4 DEF ShownOut
  <2> DEFINE all == O \cap MatchesSearch(picker.query)
  <2>2. MatchesSearch(picker.query) \ {NewShop} \subseteq all
    BY <2>1, SearchBounds DEF CountsOut
  <2>3. CASE d.items = {}
    BY <2>1, <2>2, <2>3
  <2>4. CASE d.items # {}
    <3>1. ~(d.total > Cardinality(d.items))
      BY <1>2, <1>4, <2>4 DEF MoreOffered
    <3>2. d.items \subseteq all /\ IsFiniteSet(all) /\ d.total = Cardinality(all)
      BY <1>3, <2>1, SearchBounds DEF CountsOut
    <3>3. Cardinality(d.items) \in Nat /\ Cardinality(d.items) <= Cardinality(all)
          /\ (Cardinality(d.items) = Cardinality(all) => d.items = all)
      <4> HIDE DEF all
      <4>1. IsFiniteSet(d.items)
        BY <3>2, FS_Subset
      <4> QED BY <3>2, <4>1, FS_Subset, FS_CardinalityType
    <3>4. d.items = all
      <4> HIDE DEF all
      <4> QED BY <1>3, <3>1, <3>2, <3>3
    <3> QED BY <2>2, <3>4
  <2> QED BY <2>3, <2>4
<1> QED BY <1>1, <1>2, <1>3, <1>4

-----------------------------------------------------------------------------
(* Turning the pages of a list of errands.                                 *)

NewestOfAll(e) == \A f \in Errands : f <= e

(* Below all that a page shows, which offers a next one.                   *)
Beyond(e, d) == d.total > ErrandsPage /\ \A f \in d.items : e < f

ListingFits(d) ==
    /\ d \in [items : SUBSET Errands, total : Nat]
    /\ d.total > ErrandsPage => d.items # {}
    /\ d.items = {} => d.total = 0

(* An errand of the start is where the reader was or will be.              *)
ShownOrBeyond(d) == \A e \in listed : NewestOfAll(e) \/ e \in desk.seen \/ Beyond(e, d)

OnPageOrBeyond(d, cursor) == \A e \in listed : NewestOfAll(e) \/ (Before(e, cursor) => e \in d.items \/ Beyond(e, d))

KeyFits(key, cursor) ==
    key \in [service : {key.service}, status : {key.status}, page : {key.page}, before : {cursor}]

PageLoadFits(l) ==
    IF l.phase = "ANSWERED"
    THEN \E d : l.data = {d} /\ ListingFits(d) /\ OnPageOrBeyond(d, l.request.key.before)
    ELSE l.data = {}

SeenAbove(after) == \A i \in 1 .. Len(after) : \A e \in listed : NewestOfAll(e) \/ (after[i] <= e => e \in desk.seen)

PagesInv ==
    desk.page = "ERRANDS" =>
        /\ listed \subseteq Errands
        /\ desk.after \in Seq(Errands) /\ SeenAbove(desk.after)
        /\ KeyFits(hooks["LIST"].request.key, LastOf(desk.after))
        /\ \A d \in DataOf("LIST") : ListingFits(d) /\ ShownOrBeyond(d) /\ \A f \in DataOf("LIST") : f = d
        /\ \A l \in loads : PageLoadFits(l)
        /\ loads = {} => \A d \in DataOf("LIST") : d.items = {} => desk.after = <<>>

(* A page holds the newest errands after its cursor, and is empty only if  *)
(* there are none.                                                         *)
LEMMA PageRead ==
    ASSUME listed \subseteq Errands, NEW cursor \in Nat
    PROVE  ListingFits(ListErrands(cursor)) /\ OnPageOrBeyond(ListErrands(cursor), cursor)
<1> DEFINE rest == {e \in listed : Before(e, cursor)}
           newer(n) == {m \in rest : m > n}
           items == {n \in rest : Cardinality(newer(n)) < ErrandsPage}
<1>1. rest \subseteq Errands /\ rest \subseteq Nat /\ IsFiniteSet(rest) /\ Cardinality(rest) \in Nat
  BY ErrandsAssumption, FS_Subset, FS_CardinalityType
<1>2. \A n \in rest : IsFiniteSet(newer(n)) /\ Cardinality(newer(n)) \in Nat
  <2> SUFFICES ASSUME NEW n \in rest PROVE IsFiniteSet(newer(n)) /\ Cardinality(newer(n)) \in Nat
    OBVIOUS
  <2>1. newer(n) \subseteq rest
    OBVIOUS
  <2> HIDE DEF newer, rest
  <2> QED BY <1>1, <2>1, FS_Subset, FS_CardinalityType
<1>3. Newest(rest, 0, ErrandsPage) = items
  <2>1. \A n \in rest : Cardinality(newer(n)) >= 0 /\ 0 + ErrandsPage = ErrandsPage
    BY <1>2, ErrandsAssumption
  <2> HIDE DEF rest
  <2> QED BY <2>1 DEF Newest
<1>4. ListErrands(cursor) = [items |-> items, total |-> Cardinality(rest)]
  BY <1>3 DEF ListErrands
<1> HIDE DEF rest
<1>5. rest # {} => items # {}
  <2> SUFFICES ASSUME rest # {} PROVE items # {}
    OBVIOUS
  <2> DEFINE counts == {Cardinality(newer(n)) : n \in rest}
  <2>0. counts \subseteq Nat /\ counts # {}
    BY <1>2
  <2>1. PICK k \in counts : \A c \in counts : k <= c
    <3> HIDE DEF counts
    <3> QED BY <2>0, SmallestNumber
  <2>2. PICK n \in rest : k = Cardinality(newer(n))
    OBVIOUS
  <2>3. ASSUME NEW m \in newer(n) PROVE FALSE
    <3>1. m \in rest /\ m \notin newer(m) /\ newer(m) \cup {m} \subseteq newer(n)
      <4>1. n \in Nat /\ m \in rest /\ m \in Nat /\ m > n
        BY <1>1
      <4>2. \A x \in rest : x \in Nat /\ (x > m => x > n) /\ ~(m > m)
        BY <1>1, <4>1
      <4> QED BY <4>1, <4>2
    <3>2. k <= Cardinality(newer(m))
      BY <2>1, <3>1
    <3>3. IsFiniteSet(newer(m)) /\ IsFiniteSet(newer(n))
      BY <1>2, <3>1
    <3>4. Cardinality(newer(n)) \in Nat /\ Cardinality(newer(m)) \in Nat
      BY <1>2, <3>1
    <3> HIDE DEF newer, counts
    <3>5. Cardinality(newer(m) \cup {m}) = Cardinality(newer(m)) + 1
          /\ Cardinality(newer(m) \cup {m}) <= Cardinality(newer(n))
      BY <3>1, <3>3, FS_AddElement, FS_Subset
    <3> QED BY <2>2, <3>2, <3>4, <3>5
  <2>4. newer(n) = {}
    BY <2>3
  <2>5. Cardinality(newer(n)) = 0
    <3> HIDE DEF newer
    <3> QED BY <2>4, FS_EmptySet
  <2> QED BY <2>5, ErrandsAssumption
<1>6. ASSUME NEW e \in rest, e \notin items
      PROVE  Cardinality(rest) > ErrandsPage /\ \A f \in items : e < f
  <2>1. Cardinality(newer(e)) >= ErrandsPage
    BY <1>2, <1>6, ErrandsAssumption
  <2>2. e \notin newer(e) /\ newer(e) \cup {e} \subseteq rest
    BY <1>1
  <2>3. Cardinality(newer(e) \cup {e}) = Cardinality(newer(e)) + 1
        /\ Cardinality(newer(e) \cup {e}) <= Cardinality(rest)
        /\ Cardinality(newer(e) \cup {e}) \in Nat
    <3>1. IsFiniteSet(newer(e))
      BY <1>2
    <3> HIDE DEF newer
    <3>2. IsFiniteSet(newer(e) \cup {e})
      BY <1>1, <2>2, FS_Subset
    <3> QED BY <1>1, <2>2, <3>1, <3>2, FS_AddElement, FS_Subset, FS_CardinalityType
  <2>4. Cardinality(rest) > ErrandsPage
    <3>1. Cardinality(newer(e)) \in Nat
      BY <1>2
    <3> HIDE DEF newer
    <3> QED BY <1>1, <2>1, <2>3, <3>1, ErrandsAssumption
  <2>5. ASSUME NEW f \in items, f <= e PROVE FALSE
    <3>1. newer(e) \subseteq newer(f)
      <4>1. e \in Nat /\ f \in Nat
        BY <1>1
      <4>2. \A x \in rest : x \in Nat /\ (x > e => x > f)
        BY <1>1, <2>5, <4>1
      <4> HIDE DEF items
      <4> QED BY <4>2
    <3>2. IsFiniteSet(newer(f)) /\ Cardinality(newer(f)) \in Nat /\ Cardinality(newer(e)) \in Nat
          /\ Cardinality(newer(f)) < ErrandsPage
      BY <1>2
    <3> HIDE DEF newer
    <3>3. Cardinality(newer(e)) <= Cardinality(newer(f))
      BY <3>1, <3>2, FS_Subset
    <3> QED BY <2>1, <3>2, <3>3, ErrandsAssumption
  <2>6. \A f \in items : f \in Nat /\ e \in Nat
    BY <1>1
  <2> HIDE DEF items
  <2> QED BY <2>4, <2>5, <2>6
<1>7. items \subseteq rest
  OBVIOUS
<1>8. \A e \in listed : Before(e, cursor) => e \in rest
  BY DEF rest
<1> HIDE DEF items
<1>9. ListErrands(cursor).items = items /\ ListErrands(cursor).total = Cardinality(rest)
      /\ ListErrands(cursor) \in [items : SUBSET Errands, total : Nat]
  BY <1>1, <1>4, <1>7
<1>10. rest = {} => Cardinality(rest) = 0
  BY FS_EmptySet
<1>11. Cardinality(rest) > ErrandsPage => rest # {}
  BY <1>10, ErrandsAssumption
<1> QED BY <1>5, <1>6, <1>7, <1>8, <1>9, <1>10, <1>11 DEF ListingFits, OnPageOrBeyond, Beyond

-----------------------------------------------------------------------------
(* While the list only loses errands, or gains the newest, what was known  *)
(* of the pages stands.                                                    *)
Loses == listed' \subseteq Errands /\ \A e \in listed' : NewestOfAll(e) \/ e \in listed

LEMMA KnownStands ==
    ASSUME Loses, desk.seen \subseteq desk'.seen
    PROVE  /\ \A d : ShownOrBeyond(d) => ShownOrBeyond(d)'
           /\ \A d, c : OnPageOrBeyond(d, c) => OnPageOrBeyond(d, c)'
           /\ \A a : SeenAbove(a) => SeenAbove(a)'
           /\ \A l : PageLoadFits(l) => PageLoadFits(l)'
<1>1. ASSUME NEW d, ShownOrBeyond(d) PROVE ShownOrBeyond(d)'
  BY <1>1 DEF Loses, ShownOrBeyond, NewestOfAll, Beyond
<1>2. ASSUME NEW d, NEW c, OnPageOrBeyond(d, c) PROVE OnPageOrBeyond(d, c)'
  BY <1>2 DEF Loses, OnPageOrBeyond, NewestOfAll, Beyond, Before
<1>3. ASSUME NEW a, SeenAbove(a) PROVE SeenAbove(a)'
  BY <1>3 DEF Loses, SeenAbove, NewestOfAll
<1>4. ASSUME NEW l, PageLoadFits(l) PROVE PageLoadFits(l)'
  <2>1. CASE l.phase = "ANSWERED"
    <3>1. PICK d : l.data = {d} /\ ListingFits(d) /\ OnPageOrBeyond(d, l.request.key.before)
      BY <1>4, <2>1 DEF PageLoadFits
    <3>2. OnPageOrBeyond(d, l.request.key.before)'
      BY <3>1, <1>2
    <3>3. ListingFits(d)'
      BY <3>1 DEF ListingFits
    <3> QED BY <2>1, <3>1, <3>2, <3>3 DEF PageLoadFits
  <2>2. CASE l.phase # "ANSWERED"
    BY <1>4, <2>2 DEF PageLoadFits
  <2> QED BY <2>1, <2>2
<1> QED BY <1>1, <1>2, <1>3, <1>4

(* Nothing is turned or read.                                              *)
LEMMA PagesUndisturbed ==
    ASSUME PagesInv, Loses, UNCHANGED <<hooks, loads, desk.page, desk.after, desk.seen>>
    PROVE  PagesInv'
<1> SUFFICES ASSUME desk.page = "ERRANDS" PROVE PagesInv'
  BY DEF PagesInv
<1>1. /\ desk'.after \in Seq(Errands) /\ desk'.after = desk.after
      /\ KeyFits(hooks'["LIST"].request.key, LastOf(desk'.after))
  BY DEF PagesInv
<1>2. /\ \A d \in DataOf("LIST")' : d \in DataOf("LIST")
      /\ \A d \in DataOf("LIST")' : ListingFits(d) /\ ShownOrBeyond(d)'
  <2>1. DataOf("LIST")' = DataOf("LIST")
    BY DEF DataOf
  <2> QED BY <2>1, KnownStands DEF PagesInv
<1>3. \A l \in loads' : PageLoadFits(l)'
  BY KnownStands DEF PagesInv
<1>4. loads' = {} => \A d \in DataOf("LIST")' : d.items = {} => desk'.after = <<>>
  BY <1>2 DEF PagesInv
<1>5. \A d \in DataOf("LIST")' : ListingFits(d)' /\ ShownOrBeyond(d)' /\ \A f \in DataOf("LIST")' : f = d
  BY <1>2 DEF ListingFits, PagesInv
<1>6. KeyFits(hooks["LIST"].request.key, LastOf(desk.after))'
  BY <1>1 DEF KeyFits, LastOf
<1>7. SeenAbove(desk.after)'
  <2>1. PICK b : b = desk.after
    OBVIOUS
  <2>2. SeenAbove(b)'
    BY <2>1, KnownStands DEF PagesInv
  <2> QED BY <1>1, <2>1, <2>2 DEF SeenAbove
<1> QED BY <1>1, <1>3, <1>4, <1>5, <1>6, <1>7 DEF PagesInv, Loses

LEMMA LastIsNumber ==
    ASSUME NEW a \in Seq(Errands)
    PROVE  LastOf(a) \in Nat /\ (a # <<>> => Len(a) \in 1 .. Len(a) /\ LastOf(a) = a[Len(a)])
<1>1. CASE a = <<>>
  BY <1>1 DEF LastOf
<1>2. CASE a # <<>>
  <2>1. Len(a) \in 1 .. Len(a) /\ a[Len(a)] \in Errands
    BY <1>2
  <2> QED BY <1>2, <2>1, ErrandsAssumption DEF LastOf
<1> QED BY <1>1, <1>2

(* A page of errands has one read.                                         *)
LEMMA OneRead ==
    ASSUME ReadsInv, PagesInv, desk.page = "ERRANDS"
    PROVE  /\ \A l \in loads : /\ l.slot = "LIST" /\ l.request = hooks["LIST"].request
                               /\ l.request.key.before = LastOf(desk.after)
                               /\ \A m \in loads : m = l
                               /\ l \in [slot : {"LIST"}, request : {l.request}, data : {l.data},
                                         phase : {"SENT", "ANSWERED", "FAILED"}]
           /\ LastOf(desk.after) \in Nat /\ hooks["LIST"].request.key.before = LastOf(desk.after)
<1>1. SlotsOf(desk.page) = {"LIST"}
  BY DEF SlotsOf
<1>2. ASSUME NEW l \in loads
      PROVE  /\ l.slot = "LIST" /\ l.request = hooks["LIST"].request
             /\ \A m \in loads : m = l
             /\ l \in [slot : {"LIST"}, request : {l.request}, data : {l.data},
                       phase : {"SENT", "ANSWERED", "FAILED"}]
  <2>1. LoadFits(l) /\ \A m \in loads : LoadFits(m)
    BY DEF ReadsInv
  <2>2. l \in [slot : {"LIST"}, request : {l.request}, data : {l.data}, phase : {"SENT", "ANSWERED", "FAILED"}]
    BY <1>1, <2>1 DEF LoadFits
  <2>3. \A m \in loads : m.slot = "LIST"
    BY <1>1, <2>1 DEF LoadFits
  <2>4. l.request = hooks["LIST"].request
    BY <2>1, <2>3 DEF LoadFits
  <2> QED BY <2>2, <2>3, <2>4 DEF ReadsInv
<1>3. hooks["LIST"].request.key.before = LastOf(desk.after)
  BY DEF PagesInv, KeyFits
<1>4. LastOf(desk.after) \in Nat
  BY LastIsNumber DEF PagesInv
<1> QED BY <1>2, <1>3, <1>4

(* Something newer is asked of the list, or nothing.                       *)
LEMMA PagesAsked ==
    ASSUME ReadsInv, PagesInv, desk.page = "ERRANDS", NEW requests, Request(requests),
           UNCHANGED <<listed, desk.page, desk.seen>>, NEW b, desk'.after = b,
           b \in Seq(Errands), SeenAbove(b), KeyFits(requests["LIST"].key, LastOf(b)),
           \/ requests["LIST"] # hooks["LIST"].request
           \/ b = desk.after
           \/ \A d \in DataOf("LIST") : d.items # {}
    PROVE  PagesInv'
<1>1. /\ hooks'["LIST"].request = requests["LIST"] /\ hooks'["LIST"].settled = hooks["LIST"].settled
  <2>1. /\ hooks["LIST"] \in [request : {hooks["LIST"].request}, settled : {hooks["LIST"].settled}]
        /\ hooks'["LIST"] = [hooks["LIST"] EXCEPT !.request = requests["LIST"]]
    BY SlotsKnown DEF ReadsInv, HooksFit, Request
  <2> QED BY <2>1
<1>2. Loses
  BY DEF Loses, PagesInv
<1>3. \A l \in loads' : l \in loads \/ (l.phase = "SENT" /\ l.data = {})
  BY DEF Request, NewLoad
<1>4. loads' = {} => loads = {} /\ requests["LIST"] = hooks["LIST"].request
  <2>1. requests["LIST"] # hooks["LIST"].request => NewLoad("LIST", requests["LIST"]) \in loads'
    BY SlotsKnown DEF Request
  <2>2. \A l \in loads : requests["LIST"] = hooks["LIST"].request => l \in loads'
    BY OneRead DEF Request, Superseded
  <2> QED BY <2>1, <2>2
<1>5. DataOf("LIST")' = DataOf("LIST")
  BY <1>1 DEF DataOf
<1>6. \A l \in loads' : PageLoadFits(l)'
  <2>1. \A l : l.phase = "SENT" /\ l.data = {} => PageLoadFits(l)'
    BY DEF PageLoadFits
  <2> QED BY <1>2, <1>3, <2>1, KnownStands DEF PagesInv
<1>7. \A d \in DataOf("LIST")' : ListingFits(d)' /\ ShownOrBeyond(d)' /\ \A f \in DataOf("LIST")' : f = d
  <2>1. \A d \in DataOf("LIST") : ListingFits(d)'
    BY DEF PagesInv, ListingFits
  <2> QED BY <1>2, <1>5, <2>1, KnownStands DEF PagesInv
<1>8. SeenAbove(desk.after)'
  <2>1. SeenAbove(b)'
    BY <1>2, KnownStands
  <2> QED BY <2>1 DEF SeenAbove, NewestOfAll
<1>9. KeyFits(hooks["LIST"].request.key, LastOf(desk.after))'
  BY <1>1 DEF KeyFits, LastOf
<1>10. loads' = {} => \A d \in DataOf("LIST")' : d.items = {} => desk'.after = <<>>
  BY <1>4, <1>5 DEF PagesInv
<1> QED BY <1>2, <1>6, <1>7, <1>8, <1>9, <1>10 DEF PagesInv, Loses

(* A read of the list is answered or fails.                                *)
LEMMA PagesServed ==
    ASSUME ReadsInv, PagesInv, desk.page = "ERRANDS", NEW l \in loads, LoadServed(l) \/ LoadFails(l)
    PROVE  PagesInv'
<1>1. UNCHANGED <<desk, hooks, listed>> /\ l.phase = "SENT" /\ l.data = {}
  <2>1. UNCHANGED <<desk, hooks, listed>> /\ l.phase = "SENT"
    BY DEF LoadServed, LoadFails
  <2> QED BY <2>1 DEF PagesInv, PageLoadFits
<1>2. PICK c \in Nat : c = l.request.key.before
  BY OneRead
<1>3. PICK d : d = ListErrands(c)
  OBVIOUS
<1>4. ListingFits(d) /\ OnPageOrBeyond(d, c)
  BY <1>3, PageRead DEF PagesInv
<1>5. Loses
  BY <1>1 DEF Loses, PagesInv
<1>6. PICK x : /\ loads' = (loads \ {l}) \cup {x}
               /\ \/ x = [l EXCEPT !.phase = "FAILED"]
                  \/ x = [l EXCEPT !.phase = "ANSWERED", !.data = {d}]
  <2>1. CASE LoadFails(l)
    BY <2>1 DEF LoadFails
  <2>2. CASE LoadServed(l)
    <3>1. ReadOf(l) = d /\ desk.page # "DISPUTE"
      BY <1>2, <1>3 DEF ReadOf
    <3>2. PICK x : x = [l EXCEPT !.phase = "ANSWERED", !.data = {d}]
      OBVIOUS
    <3>3. loads' = (loads \ {l}) \cup {x}
      BY <2>2, <3>1, <3>2 DEF LoadServed
    <3> QED BY <3>2, <3>3
  <2> QED BY <2>1, <2>2
<1>7. /\ x.request = l.request
      /\ \/ x.phase = "FAILED" /\ x.data = {}
         \/ x.phase = "ANSWERED" /\ x.data = {d}
  <2>1. l \in [slot : {"LIST"}, request : {l.request}, data : {l.data}, phase : {"SENT", "ANSWERED", "FAILED"}]
    BY OneRead
  <2> QED BY <1>1, <1>6, <2>1
<1>8. PageLoadFits(x)'
  <2>1. OnPageOrBeyond(d, c)'
    BY <1>1, <1>4, <1>5, KnownStands
  <2>2. x.request.key.before = c /\ ListingFits(d)'
    BY <1>2, <1>4, <1>7 DEF ListingFits
  <2> QED BY <1>7, <2>1, <2>2 DEF PageLoadFits
<1>9. \A k \in loads' : PageLoadFits(k)'
  BY <1>1, <1>5, <1>6, <1>8, KnownStands DEF PagesInv
<1>10. loads' # {} /\ DataOf("LIST")' = DataOf("LIST")
  BY <1>1, <1>6 DEF DataOf
<1>11. \A e \in DataOf("LIST")' : ListingFits(e)' /\ ShownOrBeyond(e)' /\ \A f \in DataOf("LIST")' : f = e
  <2>1. \A e \in DataOf("LIST") : ListingFits(e)'
    BY DEF PagesInv, ListingFits
  <2> QED BY <1>1, <1>5, <1>10, <2>1, KnownStands DEF PagesInv
<1>12. SeenAbove(desk.after)' /\ desk'.after \in Seq(Errands)
  <2>1. PICK b : b = desk.after
    OBVIOUS
  <2>2. SeenAbove(b)'
    BY <1>1, <1>5, <2>1, KnownStands DEF PagesInv
  <2> QED BY <1>1, <2>1, <2>2 DEF SeenAbove, PagesInv
<1>13. KeyFits(hooks["LIST"].request.key, LastOf(desk.after))'
  BY <1>1 DEF KeyFits, LastOf, PagesInv
<1> QED BY <1>5, <1>9, <1>10, <1>11, <1>12, <1>13 DEF PagesInv, Loses

(* Going back keeps what lies before the last page turned.                 *)
LEMMA ShorterKeeps ==
    ASSUME PagesInv, desk.page = "ERRANDS", desk.after # <<>>
    PROVE  Shorter(desk.after) \in Seq(Errands) /\ SeenAbove(Shorter(desk.after))
<1>1. PICK b \in Seq(Errands) : b = desk.after /\ SeenAbove(b)
  BY DEF PagesInv
<1>2. Len(b) - 1 \in Nat /\ \A i \in 1 .. Len(b) - 1 : i \in 1 .. Len(b) /\ b[i] \in Errands
  BY <1>1
<1>3. PICK n \in Nat : n = Len(b) - 1
  BY <1>2
<1>4. /\ SubSeq(b, 1, n) \in Seq(Errands) /\ Len(SubSeq(b, 1, n)) = n
      /\ \A i \in 1 .. n : SubSeq(b, 1, n)[i] = b[i]
  <2>1. /\ SubSeq(b, 1, n) \in Seq(Errands) /\ Len(SubSeq(b, 1, n)) = IF 1 <= n THEN n - 1 + 1 ELSE 0
        /\ \A i \in 1 .. n - 1 + 1 : SubSeq(b, 1, n)[i] = b[1 + i - 1]
    BY <1>2, <1>3
  <2> QED BY <2>1
<1>5. SeenAbove(SubSeq(b, 1, n))
  <2>1. \A i \in 1 .. n : i \in 1 .. Len(b)
    BY <1>2, <1>3
  <2> QED BY <1>1, <1>4, <2>1 DEF SeenAbove
<1> QED BY <1>1, <1>3, <1>4, <1>5 DEF Shorter

(* A page is shown.                                                        *)
LEMMA PagesSettle ==
    ASSUME ReadsInv, PagesInv, desk.page = "ERRANDS", NEW l \in loads, Settles(l), desk'.page = desk.page
    PROVE  PagesInv'
<1> DEFINE back == StepsBack(l, desk.after)
           next == [hooks["LIST"].request EXCEPT !.key.before = LastOf(Shorter(desk.after))]
           answer == [request |-> l.request, data |-> l.data, failed |-> l.phase = "FAILED"]
<1>1. /\ l.slot = "LIST" /\ l.request = hooks["LIST"].request /\ \A m \in loads : m = l
      /\ l.phase \in {"ANSWERED", "FAILED"} /\ LastOf(desk.after) \in Nat
      /\ l.request.key.before = LastOf(desk.after)
  <2>1. l.phase # "SENT"
    BY DEF Settles
  <2> QED BY <2>1, OneRead
<1>2. PICK b : b = desk.after
  OBVIOUS
<1>3. b \in Seq(Errands) /\ SeenAbove(b)
  BY <1>2 DEF PagesInv
<1>4. PageLoadFits(l)
  BY DEF PagesInv
<1>5. /\ hooks' = [hooks EXCEPT !["LIST"] = [request |-> IF back THEN next ELSE @.request, settled |-> {answer}]]
      /\ loads' = (loads \ {l}) \cup IF back THEN {NewLoad("LIST", next)} ELSE {}
      /\ UNCHANGED listed
  BY <1>1 DEF Settles
<1>6. /\ hooks'["LIST"].settled = {answer} /\ (back => hooks'["LIST"].request = next)
      /\ (~back => hooks'["LIST"].request = hooks["LIST"].request)
  <2>1. hooks = [s \in Slots |-> hooks[s]]
    BY DEF ReadsInv, HooksFit
  <2> HIDE DEF back, next, answer
  <2> QED BY <1>5, <2>1, SlotsKnown
<1>7. /\ desk'.after = IF back THEN Shorter(b) ELSE b
      /\ desk'.seen = desk.seen \cup UNION {d.items : d \in l.data}
  <2>1. DeskFits
    BY DEF ReadsInv
  <2>2. PICK x, y, z : /\ y = (IF back THEN Shorter(b) ELSE b)
                       /\ z = desk.seen \cup UNION {d.items : d \in l.data}
                       /\ desk' = [desk EXCEPT !.action = x, !.after = y, !.seen = z]
    BY <1>1, <1>2 DEF Settles
  <2> HIDE DEF back
  <2> QED BY <2>1, <2>2 DEF DeskFits
<1>8. Loses /\ desk.seen \subseteq desk'.seen
  BY <1>5, <1>7 DEF Loses, PagesInv
<1>9. DataOf("LIST")' = l.data
  BY <1>6 DEF DataOf
<1>10. ASSUME NEW d \in l.data PROVE ListingFits(d)' /\ ShownOrBeyond(d)'
  <2>1. ListingFits(d) /\ OnPageOrBeyond(d, LastOf(b)) /\ l.phase = "ANSWERED"
    BY <1>1, <1>2, <1>4 DEF PageLoadFits
  <2>2. ASSUME NEW e \in listed, ~NewestOfAll(e), ~Beyond(e, d) PROVE e \in desk'.seen
    <3>1. CASE Before(e, LastOf(b))
      BY <1>7, <2>1, <2>2, <3>1 DEF OnPageOrBeyond
    <3>2. CASE ~Before(e, LastOf(b))
      <4>1. b # <<>> /\ e \in Nat /\ LastOf(b) <= e
        <5>1. e \in Nat /\ LastOf(b) \in Nat /\ LastOf(b) # 0 /\ ~(e < LastOf(b))
          BY <1>1, <1>2, <3>2, ErrandsAssumption DEF Before, PagesInv
        <5>2. b = <<>> => LastOf(b) = 0
          BY DEF LastOf
        <5> QED BY <5>1, <5>2
      <4>2. Len(b) \in 1 .. Len(b) /\ b[Len(b)] <= e
        BY <1>3, <4>1, LastIsNumber
      <4> QED BY <1>3, <1>8, <2>2, <4>2 DEF SeenAbove
    <3> QED BY <3>1, <3>2
  <2>3. ListingFits(d)'
    BY <2>1 DEF ListingFits
  <2>4. ShownOrBeyond(d)'
    BY <1>5, <2>2 DEF ShownOrBeyond, NewestOfAll, Beyond
  <2> QED BY <2>3, <2>4
<1>15. \A d, f \in l.data : f = d
  BY <1>4 DEF PageLoadFits
<1>11. desk'.after \in Seq(Errands) /\ SeenAbove(desk.after)'
  <2>1. back => Shorter(b) \in Seq(Errands) /\ SeenAbove(Shorter(b))
    BY <1>2, ShorterKeeps DEF StepsBack
  <2>2. PICK a : a = desk'.after
    OBVIOUS
  <2>3. a \in Seq(Errands) /\ SeenAbove(a)
    <3> HIDE DEF back
    <3> QED BY <1>3, <1>7, <2>1, <2>2
  <2>4. SeenAbove(a)'
    BY <1>8, <2>3, KnownStands
  <2> QED BY <2>2, <2>3, <2>4 DEF SeenAbove
<1>12. KeyFits(hooks["LIST"].request.key, LastOf(desk.after))'
  <2>1. CASE ~back
    <3>1. KeyFits(hooks'["LIST"].request.key, LastOf(desk'.after))
      <4> HIDE DEF back
      <4> QED BY <1>2, <1>6, <1>7, <2>1 DEF PagesInv
    <3> QED BY <3>1 DEF KeyFits, LastOf
  <2>2. CASE back
    <3>1. PICK c : c = LastOf(Shorter(b))
      OBVIOUS
    <3>2. PICK r : r = hooks["LIST"].request
      OBVIOUS
    <3>3. r \in [version : {r.version}, key : {r.key}]
          /\ r.key \in [service : {r.key.service}, status : {r.key.status}, page : {r.key.page}, before : {r.key.before}]
      <4>1. RequestFit(r)
        BY <3>2, SlotsKnown DEF ReadsInv, HooksFit
      <4>2. KeyFits(r.key, LastOf(desk.after))
        BY <3>2 DEF PagesInv
      <4> QED BY <4>1, <4>2 DEF RequestFit, KeyFits
    <3>4. PICK k : k = [r.key EXCEPT !.before = c]
      OBVIOUS
    <3>5. KeyFits(k, c)
      BY <3>3, <3>4 DEF KeyFits
    <3>6. next.key = k
      BY <1>2, <3>1, <3>2, <3>3, <3>4
    <3>7. hooks'["LIST"].request.key = k /\ LastOf(desk'.after) = c
      <4> HIDE DEF back, next
      <4> QED BY <1>6, <1>7, <2>2, <3>1, <3>6
    <3>8. KeyFits(hooks'["LIST"].request.key, LastOf(desk'.after))
      BY <3>5, <3>7
    <3> QED BY <3>8 DEF KeyFits, LastOf
  <2> QED BY <2>1, <2>2
<1>13. \A k \in loads' : PageLoadFits(k)'
  BY <1>1, <1>5 DEF PageLoadFits, NewLoad
<1>14. loads' = {} => \A d \in l.data : d.items = {} => desk'.after = <<>>
  <2>1. loads' = {} => ~back
    BY <1>5
  <2>2. ASSUME ~back, NEW d \in l.data, d.items = {} PROVE b = <<>>
    <3>1. l.phase = "ANSWERED"
      BY <1>4, <2>2 DEF PageLoadFits
    <3> QED BY <1>2, <2>2, <3>1 DEF StepsBack
  <2> HIDE DEF back
  <2> QED BY <1>7, <2>1, <2>2
<1> QED BY <1>8, <1>9, <1>10, <1>11, <1>12, <1>13, <1>14, <1>15 DEF PagesInv, Loses

(* What a page of errands asks next.                                       *)
LEMMA AskedKeys ==
    ASSUME ReadsInv, PagesInv, desk.page = "ERRANDS"
    PROVE  /\ Reloaded["LIST"].key = hooks["LIST"].request.key
           /\ Reloaded["LIST"] # hooks["LIST"].request
           /\ \A c : KeyFits(Keyed([hooks["LIST"].request.key EXCEPT !.before = c])["LIST"].key, c)
<1>1. PICK r : r = hooks["LIST"].request
  OBVIOUS
<1>2. /\ r \in [version : Nat, key : {r.key}]
      /\ r.key \in [service : {r.key.service}, status : {r.key.status}, page : {r.key.page}, before : {r.key.before}]
  <2>1. RequestFit(r)
    BY <1>1, SlotsKnown DEF ReadsInv, HooksFit
  <2>2. KeyFits(r.key, LastOf(desk.after))
    BY <1>1 DEF PagesInv
  <2> QED BY <2>1, <2>2 DEF RequestFit, KeyFits
<1>3. PICK n \in Nat : n = r.version + 1
  BY <1>2
<1>4. PICK x : x = [r EXCEPT !.version = n]
  OBVIOUS
<1>5. x.key = r.key /\ x.version = n /\ n # r.version
  BY <1>2, <1>3, <1>4
<1>6. Reloaded["LIST"] = x
  BY <1>1, <1>3, <1>4, SlotsKnown DEF Reloaded
<1>7. ASSUME NEW c PROVE KeyFits(Keyed([hooks["LIST"].request.key EXCEPT !.before = c])["LIST"].key, c)
  <2>1. PICK k : k = [r.key EXCEPT !.before = c]
    OBVIOUS
  <2>2. KeyFits(k, c)
    BY <1>2, <2>1 DEF KeyFits
  <2>3. PICK y : y = [r EXCEPT !.key = k]
    OBVIOUS
  <2>4. Keyed(k)["LIST"] = y
    BY <1>1, <2>3, SlotsKnown DEF Keyed
  <2>5. y.key = k
    BY <1>2, <2>3
  <2> QED BY <1>1, <2>1, <2>2, <2>4, <2>5
<1> QED BY <1>1, <1>5, <1>6, <1>7

(* A page is turned.                                                       *)
LEMMA PagesTurn ==
    ASSUME ReadsInv, PagesInv, desk.page = "ERRANDS", NEW b \in Seq(Errands), Turn(b), SeenAbove(b),
           \A d \in DataOf("LIST") : d.items # {}
    PROVE  PagesInv'
<1>1. PICK requests : requests = Keyed([hooks["LIST"].request.key EXCEPT !.before = LastOf(b)])
  OBVIOUS
<1>2. KeyFits(requests["LIST"].key, LastOf(b)) /\ Request(requests)
  BY <1>1, AskedKeys DEF Turn
<1>3. DeskFits /\ desk' = [desk EXCEPT !.after = b]
  BY DEF ReadsInv, Turn
<1>4. UNCHANGED <<desk.page, desk.seen>> /\ desk'.after = b
  BY <1>3 DEF DeskFits
<1>5. UNCHANGED listed
  BY DEF Turn
<1> QED BY <1>2, <1>4, <1>5, PagesAsked

LEMMA PagesTurned ==
    ASSUME ReadsInv, PagesInv, NextErrands \/ PreviousErrands
    PROVE  PagesInv'
<1>0. desk.page = "ERRANDS"
  BY DEF NextErrands, PreviousErrands
<1>1. PICK b \in Seq(Errands) : b = desk.after /\ SeenAbove(b)
  BY <1>0 DEF PagesInv
<1>2. \A d \in DataOf("LIST") : ListingFits(d) /\ ShownOrBeyond(d)
  BY <1>0 DEF PagesInv
<1>3. CASE NextErrands
  <2>1. PICK d \in DataOf("LIST") : d.total > ErrandsPage /\ Turn(Append(b, Oldest(d.items)))
    BY <1>1, <1>3 DEF NextErrands
  <2>2. d.items # {} /\ d.items \subseteq Errands /\ d.items \subseteq Nat
    BY <1>2, <2>1, ErrandsAssumption DEF ListingFits
  <2>3. PICK o : o = Oldest(d.items)
    OBVIOUS
  <2>4. o \in d.items /\ \A f \in d.items : o <= f
    <3>1. PICK S : S = d.items
      OBVIOUS
    <3>2. \E x \in S : \A f \in S : x <= f
      BY <2>2, <3>1, SmallestNumber
    <3>3. Oldest(S) \in S /\ \A f \in S : Oldest(S) <= f
      BY <3>2 DEF Oldest
    <3> QED BY <2>3, <3>1, <3>3
  <2>5. /\ Append(b, o) \in Seq(Errands) /\ Len(Append(b, o)) = Len(b) + 1
        /\ \A i \in 1 .. Len(b) : Append(b, o)[i] = b[i]
        /\ Append(b, o)[Len(b) + 1] = o
    BY <2>2, <2>4
  <2>6. \A e \in listed : NewestOfAll(e) \/ (o <= e => e \in desk.seen)
    <3>1. \A e \in listed : e \in Nat
      BY <1>0, ErrandsAssumption DEF PagesInv
    <3>2. \A e \in listed : o <= e => ~Beyond(e, d)
      BY <2>2, <2>4, <3>1 DEF Beyond
    <3> QED BY <1>2, <3>2 DEF ShownOrBeyond
  <2>7. SeenAbove(Append(b, o))
    <3>1. \A i \in 1 .. Len(b) + 1 : i \in 1 .. Len(b) \/ i = Len(b) + 1
      OBVIOUS
    <3> QED BY <1>1, <2>5, <2>6, <3>1 DEF SeenAbove
  <2>8. \A f \in DataOf("LIST") : f.items # {}
    BY <1>0, <2>1, <2>2 DEF PagesInv
  <2> QED BY <1>0, <2>1, <2>3, <2>5, <2>7, <2>8, PagesTurn
<1>4. CASE PreviousErrands
  <2>1. Turn(Shorter(desk.after)) /\ desk.after # <<>>
    BY <1>4 DEF PreviousErrands
  <2>2. PICK d \in DataOf("LIST") : d.total > 0
    BY <1>4 DEF PreviousErrands
  <2>3. d.items # {}
    BY <1>2, <2>2 DEF ListingFits
  <2>4. \A f \in DataOf("LIST") : f.items # {}
    BY <1>0, <2>2, <2>3 DEF PagesInv
  <2>5. PICK a : a = Shorter(desk.after)
    OBVIOUS
  <2>6. a \in Seq(Errands) /\ SeenAbove(a)
    BY <1>0, <2>1, <2>5, ShorterKeeps
  <2> QED BY <1>0, <2>1, <2>4, <2>5, <2>6, PagesTurn
<1> QED BY <1>3, <1>4

LEMMA PagesStep ==
    ASSUME ReadsInv, DialogsInv, PagesInv, DeskNext
    PROVE  PagesInv'
<1>0. DeskFits /\ desk'.page = desk.page
  BY ReadsStep DEF ReadsInv, ReadsMove
<1> SUFFICES ASSUME desk.page = "ERRANDS" PROVE PagesInv'
  BY <1>0 DEF PagesInv
<1>1. CASE Refresh
  <2>1. PICK requests : requests = Reloaded
    OBVIOUS
  <2>2. Request(requests) /\ UNCHANGED <<desk, listed>>
    BY <1>1, <2>1 DEF Refresh
  <2>3. PICK b : b = desk.after
    OBVIOUS
  <2>4. /\ b \in Seq(Errands) /\ SeenAbove(b)
        /\ KeyFits(requests["LIST"].key, LastOf(b)) /\ requests["LIST"] # hooks["LIST"].request
    BY <2>1, <2>3, AskedKeys DEF PagesInv
  <2> QED BY <2>2, <2>3, <2>4, PagesAsked
<1>2. CASE \E l \in loads : LoadServed(l) \/ LoadFails(l) \/ Settles(l)
  BY <1>0, <1>2, PagesServed, PagesSettle
<1>3. CASE \/ CancelDialog
           \/ \E action \in desk.action, reason \in 1 .. 2 : ConfirmDialog(action, reason)
           \/ \E act \in acts : GivesUp(act) \/ Refused(act)
  <2>1. /\ \E x : desk' = [desk EXCEPT !.action = x]
        /\ UNCHANGED <<hooks, loads, listed>>
    BY <1>3 DEF CancelDialog, ConfirmDialog, GivesUp, Refused, Problem
  <2>2. UNCHANGED <<desk.page, desk.after, desk.seen>>
    BY <1>0, <2>1 DEF DeskFits
  <2> QED BY <2>1, <2>2, PagesUndisturbed DEF Loses, PagesInv
<1>4. CASE \E e \in Errands : ErrandsChange(e)
  <2>1. Loses
    BY <1>4 DEF ErrandsChange, Loses, NewestOfAll, PagesInv
  <2> QED BY <1>4, <2>1, PagesUndisturbed DEF ErrandsChange
<1>5. CASE NextErrands \/ PreviousErrands
  BY <1>5, PagesTurned
<1>6. ASSUME NEW act \in acts, \/ redrive(act) \/ Redriven(act) \/ resolve(act) \/ Decided(act) \/ ChangedSince(act)
                               \/ ActOnAccount(act) \/ Acted(act)
      PROVE  FALSE
  <2>1. act.phase # "CHANGED"
    BY DEF DialogsInv, ActFits
  <2> QED BY <1>6, <2>1 DEF redrive, Redriven, resolve, Decided, ChangedSince, ActOnAccount, Acted
<1>7. CASE \/ \E service \in {"order", "credit"} : ChooseService(service)
           \/ \E status \in {"WAITING", "REDRIVEN", "ANY"} : Search(status)
           \/ \E n \in 1 .. Cardinality(Letters) : TurnLetters(n)
           \/ \E l \in Letters : AskRedrive(l) \/ LettersChange(l)
  BY <1>7 DEF ChooseService, Search, TurnLetters, ShowLetters, AskRedrive, LettersChange
<1>8. CASE \/ \E outcome \in Outcomes : AskDecide(outcome)
           \/ DisputeChanges
           \/ \E what \in {"SUSPEND", "REACTIVATE", "ROLE"} : AskAccount(what)
           \/ \E r \in RequestsShown, what \in {"APPROVE", "REJECT"} : AskRequest(r, what)
           \/ \E what \in {"SUSPEND", "REACTIVATE", "ROLE", "APPROVE", "REJECT"} : AccountChanges(what)
           \/ \E s \in Slots : RetryAccount(s)
  BY <1>8 DEF AskDecide, DisputeChanges, AskAccount, AskRequest, AccountChanges, RetryAccount
<1> QED BY <1>1, <1>2, <1>3, <1>4, <1>5, <1>6, <1>7, <1>8 DEF DeskNext

LEMMA PagesBegin == ASSUME NEW open, DeskInit(open) PROVE PagesInv
<1> SUFFICES ASSUME open = "ERRANDS" PROVE PagesInv
  BY DEF DeskInit, PagesInv
<1>1. PICK first : first = [version |-> 0, key |-> FirstKey]
  OBVIOUS
<1>2. /\ desk.after = <<>> /\ listed \subseteq Errands
      /\ hooks["LIST"].settled = {} /\ hooks["LIST"].request = first
      /\ loads = {NewLoad("LIST", first)}
  BY <1>1, SlotsKnown DEF DeskInit, SlotsOf
<1>3. DataOf("LIST") = {}
  BY <1>2 DEF DataOf
<1>4. KeyFits(hooks["LIST"].request.key, LastOf(desk.after))
  BY <1>1, <1>2 DEF FirstKey, KeyFits, LastOf
<1>5. desk.after \in Seq(Errands) /\ SeenAbove(desk.after)
  BY <1>2 DEF SeenAbove
<1>6. \A l \in loads : PageLoadFits(l)
  BY <1>2 DEF NewLoad, PageLoadFits
<1> QED BY <1>2, <1>3, <1>4, <1>5, <1>6 DEF PagesInv

LEMMA PagesAreComplete == ASSUME PagesInv PROVE PagesComplete
BY DEF PagesInv, PagesComplete, ShownOrBeyond, Beyond, NewestOfAll

-----------------------------------------------------------------------------
(* A list read page by page keeps what it shows apart and in order, and    *)
(* what it has not read yet lies after its cursor, for any number of       *)
(* entries, however it is read again or its filter changes meanwhile.      *)
THEOREM ListInvHolds == Spec => []ListInv
<1>1. Init => ListInv
  BY ListsBegin DEF Init
<1>2. ListInv /\ [Next]_vars => ListInv'
  <2>1. [Next]_vars => ListsNext \/ UNCHANGED listVars
    BY DEF Next, vars, SocketsNext, SuppliersNext, DraftNext, ErrandNext, TalkNext, ListNext, LoginNext,
           AdminNext, DeskPagesNext, PickupNext, TimesNext
  <2>2. UNCHANGED listVars => UNCHANGED <<kind, shelf, given, filter, list, reload, mores>>
    BY DEF listVars
  <2> QED BY <2>1, <2>2, ListsStep, ListsIdle
<1> QED BY <1>1, <1>2, PTL DEF Spec

(* The picker's pages are of the search it shows and in its order, and an  *)
(* answer that something newer replaced is dropped, for any suppliers.     *)
THEOREM PickerInvHolds == Spec => []PickerInv
<1>1. Init => PickerInv
  BY PickerBegins DEF Init
<1>2. PickerInv /\ [Next]_vars => PickerInv'
  <2>1. [Next]_vars => PickerNext \/ UNCHANGED pickerVars
    BY DEF Next, vars, SocketsNext, SuppliersNext, DraftNext, ErrandNext, TalkNext, ListNext, LoginNext,
           AdminNext, DeskPagesNext, PickupNext, TimesNext
  <2> QED BY <2>1, PickerStep, PickerIdle
<1> QED BY <1>1, <1>2, PTL DEF Spec

(* Of a console's list of errands every errand of the start that is still  *)
(* there was shown or lies below the page that is, and a cursor is taken   *)
(* only from a page that was shown, for any number of errands.             *)
THEOREM PagesInvHolds == Spec => []PagesInv
<1>1. Init => PagesInv
  BY PagesBegin DEF Init
<1>2. DeskInv /\ PagesInv /\ [Next]_vars => PagesInv'
  <2>1. DeskInv /\ PagesInv /\ DeskNext => PagesInv'
    BY PagesStep DEF DeskInv
  <2>2. PagesInv /\ UNCHANGED deskVars => PagesInv'
    <3>1. PagesInv /\ UNCHANGED deskVars => Loses \/ desk.page # "ERRANDS"
      BY DEF deskVars, PagesInv, Loses
    <3>2. UNCHANGED deskVars => UNCHANGED <<hooks, loads, desk.page, desk.after, desk.seen>>
      BY DEF deskVars
    <3>3. desk.page # "ERRANDS" /\ UNCHANGED deskVars => PagesInv'
      BY <3>2 DEF PagesInv
    <3> QED BY <3>1, <3>2, <3>3, PagesUndisturbed
  <2>3. [Next]_vars => DeskNext \/ UNCHANGED deskVars
    BY DEF Next, vars, SocketsNext, SuppliersNext, DraftNext, ErrandNext, TalkNext, ListNext, LoginNext,
           AdminNext, DeskPagesNext, PickupNext, TimesNext
  <2> QED BY <2>1, <2>2, <2>3
<1> QED BY <1>1, <1>2, DeskInvHolds, PTL DEF Spec

(* Every list that is read page by page while it changes repeats nothing   *)
(* and passes over nothing that stayed in it, and the picker shows what    *)
(* was searched for.                                                       *)
THEOREM ListsAreComplete == Spec => []ListsComplete
<1>1. ListInv /\ PickerInv /\ PagesInv => ListsComplete
  <2>1. ListInv => NothingSkipped
    BY DEF ListInv
  <2> QED BY <2>1, EachIsListedOnce, PickerIsRight, PagesAreComplete DEF ListsComplete
<1> QED BY <1>1, ListInvHolds, PickerInvHolds, PagesInvHolds, PTL
=============================================================================
