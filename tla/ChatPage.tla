------------------------------ MODULE ChatPage ------------------------------
(***************************************************************************)
(* chat-state.ts and use-chat.ts: the conversation of errand 1 in Me's     *)
(* browser tab.  One refresh at a time, which a newer one aborts; loading  *)
(* older messages, sending and marking read run beside it.  A refusal      *)
(* starts a new access revision, and answers of an older one are ignored.  *)
(***************************************************************************)
EXTENDS Chat

VARIABLES
    chat,       \* the snapshot, its cursor (-1: none) and its revision
    props,      \* the errand's version and whether it is final, as the page shows it
    refreshing, \* the refresh that was not aborted
    olders,     \* loads of older messages under way
    marking,    \* the PUT /read under way
    fetched     \* sequence numbers this student's pages ever showed

chatPageVars == <<chat, props, refreshing, olders, marking, fetched>>

Mine == 1       \* the page's errand

NoChannel == [got |-> FALSE, open |-> FALSE, lastRead |-> 0, latest |-> 0]
NotRefreshing == [phase |-> "NONE", rev |-> 0, version |-> 0, final |-> FALSE, channel |-> NoChannel,
                  first |-> 0, last |-> 0, answer |-> "NONE", items |-> {}, more |-> FALSE]
NotMarking == [phase |-> "NONE", rev |-> 0, seq |-> 0, answer |-> "NONE"]

(* refresh begins, with the props of this moment.                          *)
NewRefresh(c, p) == [NotRefreshing EXCEPT !.phase = "CHANNEL", !.rev = c.rev, !.version = p.version,
                                          !.final = p.final]

ChatPageInit ==
    /\ chat = [channel |-> NoChannel, messages |-> {}, outgoing |-> {}, cursor |-> -1, rev |-> 0,
               orderVersion |-> 0, closed |-> FALSE, throttled |-> FALSE, hasOlder |-> FALSE,
               olderLoading |-> FALSE, error |-> FALSE, timer |-> FALSE]
    /\ props = [version |-> 1, final |-> FALSE]
    /\ refreshing = NewRefresh(chat, props)
    /\ olders = {} /\ marking = NotMarking
    /\ fetched = 1 .. readTo[Mine]

-----------------------------------------------------------------------------
(* What a GET of the channel's messages returns, at most PageSize of them. *)
Lowest(ms) == {m \in ms : Cardinality({n \in ms : n.seq < m.seq}) < PageSize}
Highest(ms) == {m \in ms : Cardinality({n \in ms : n.seq > m.seq}) < PageSize}

Seqs(ms) == {m.seq : m \in ms}

(* merge: by sequence number; a message that was stored is no longer going *)
(* out.                                                                    *)
Merge(c, items) ==
    LET all == c.messages \cup items
    IN  [c EXCEPT !.messages = all,
                  !.outgoing = {p \in @ : \A m \in all : m.by = Me => m.client # p.client}]

(* failed: a refusal clears the conversation; anything else is an error to *)
(* show.                                                                   *)
Refusal(answer) == answer \in {"FORBIDDEN", "ABSENT"}

AfterFailure(c, answer) ==
    IF Refusal(answer)
    THEN [c EXCEPT !.channel = NoChannel, !.messages = {}, !.outgoing = {}, !.cursor = -1,
                   !.rev = @ + 1, !.hasOlder = FALSE, !.olderLoading = FALSE,
                   !.error = answer = "FORBIDDEN"]
    ELSE [c EXCEPT !.error = TRUE]

Current(rev) == rev = chat.rev

(* The service answers a GET or a PUT of the page: one step from the Order *)
(* Service's answer to its own read, or no answer at all.                  *)
Granted == Access(orders[Mine], Mine, Me)

ServerKept == UNCHANGED <<orders, messages, sends, clock, day, sweep>>

(* refresh: its GET of the channel, or of messages, is answered.           *)
RefreshServed(reached) ==
    LET answer == IF reached THEN Granted ELSE "UNAVAILABLE"
        items  == CASE refreshing.phase = "LATEST" -> Of(Mine)
                    [] refreshing.phase = "AFTER" -> {m \in Of(Mine) : m.seq > chat.cursor}
                    [] OTHER -> {}
        page   == IF refreshing.phase = "LATEST" THEN Highest(items) ELSE Lowest(items)
    IN  /\ refreshing.phase # "NONE" /\ refreshing.answer = "NONE"
        /\ IF reached THEN UNCHANGED quota ELSE Use("CHAT_FAILS")
        /\ channels' = IF answer = "GRANTED" THEN Opened(Mine) ELSE channels
        /\ refreshing' = [refreshing EXCEPT
                             !.answer = answer,
                             !.items = IF answer = "GRANTED" THEN page ELSE {},
                             !.more = answer = "GRANTED" /\ page # items,
                             !.channel = IF answer = "GRANTED" /\ refreshing.phase = "CHANNEL"
                                         THEN [got |-> TRUE, open |-> Open(orders[Mine]),
                                               lastRead |-> readTo[Mine],
                                               latest |-> channels'[Mine].latest]
                                         ELSE @]
        /\ ServerKept /\ UNCHANGED <<readTo, chat, props, olders, marking, fetched>>

(* The refresh goes on with phase, or ends: the next poll is set while the *)
(* conversation can still change.                                          *)
Continues(c, r, phase) ==
    /\ chat' = c
    /\ refreshing' = [r EXCEPT !.phase = phase, !.answer = "NONE", !.items = {}, !.more = FALSE]

Ends(c, r) ==
    /\ chat' = [c EXCEPT !.error = FALSE, !.hasOlder = c.messages # {} /\ Min(Seqs(c.messages)) > 1,
                         !.timer = r.channel.open /\ ~c.closed /\ ~r.final]
    /\ refreshing' = NotRefreshing

NextOf(c, r) ==
    IF c.cursor = -1 THEN Continues(c, r, "LATEST")
    ELSE IF c.cursor < r.channel.latest THEN Continues(c, r, "AFTER")
    ELSE Ends(c, r)

ChannelArrives(r) ==
    LET c == [chat EXCEPT
                !.channel = [r.channel EXCEPT !.lastRead = IF chat.channel.lastRead > @
                                                           THEN chat.channel.lastRead ELSE @],
                !.error = FALSE,
                !.closed = IF r.version # chat.orderVersion /\ r.channel.open THEN FALSE ELSE @,
                !.orderVersion = r.version]
    IN  NextOf(c, r) /\ UNCHANGED fetched

(* Unread messages before the latest page are still to be fetched.         *)
FirstCursor(read, first, last) == IF read < first - 1 THEN read ELSE last

LatestArrives(r) ==
    LET first == IF r.items = {} THEN 1 ELSE Min(Seqs(r.items))
        last  == IF r.items = {} THEN 0 ELSE Max(Seqs(r.items))
        c     == [Merge(chat, r.items) EXCEPT !.cursor = FirstCursor(r.channel.lastRead, first, last)]
    IN  /\ NextOf(c, [r EXCEPT !.first = first, !.last = last])
        /\ fetched' = fetched \cup Seqs(r.items)

(* Filling the unread gap reaches the latest page, which is already here.  *)
AfterArrives(r) ==
    LET reached == IF r.items = {} THEN chat.cursor ELSE Max(Seqs(r.items))
        next    == IF r.last # 0 /\ reached >= r.first - 1 /\ r.last > reached THEN r.last ELSE reached
        c       == [Merge(chat, r.items) EXCEPT !.cursor = next]
    IN  /\ IF r.more THEN NextOf(c, r) ELSE Ends(c, r)
        /\ fetched' = fetched \cup Seqs(r.items)

RefreshArrives ==
    LET r == refreshing
    IN  /\ r.answer # "NONE"
        /\ CASE ~Current(r.rev) -> refreshing' = NotRefreshing /\ UNCHANGED <<chat, fetched>>
             [] Current(r.rev) /\ r.answer # "GRANTED" ->
                  LET c == AfterFailure(chat, r.answer)
                      stop == Refusal(r.answer) \/ r.final \/ c.closed \/ (c.channel.got /\ ~c.channel.open)
                  IN  /\ chat' = [c EXCEPT !.timer = ~stop]
                      /\ refreshing' = NotRefreshing /\ UNCHANGED fetched
             [] Current(r.rev) /\ r.answer = "GRANTED" /\ r.phase = "CHANNEL" -> ChannelArrives(r)
             [] Current(r.rev) /\ r.answer = "GRANTED" /\ r.phase = "LATEST" -> LatestArrives(r)
             [] OTHER -> AfterArrives(r)
        /\ UNCHANGED <<chatVars, props, olders, marking, quota>>

(* usePoll: the timer, the student coming back, or an errand of another    *)
(* version on the page, starts a refresh and aborts the one under way.     *)
Restart(p) ==
    /\ chat' = [chat EXCEPT !.timer = FALSE]
    /\ props' = p
    /\ refreshing' = NewRefresh(chat, p)
    /\ UNCHANGED <<chatVars, olders, marking, fetched>>

ChatTimer == chat.timer /\ Restart(props) /\ UNCHANGED quota

RefreshNow == Use("CHAT_REFRESH") /\ Restart(props)

ErrandShown ==
    LET p == [version |-> orders[Mine].version, final |-> orders[Mine].ended # NotEnded]
    IN  p # props /\ Restart(p) /\ UNCHANGED quota

-----------------------------------------------------------------------------
(* older, and its answer.                                                  *)
Older ==
    /\ ~chat.olderLoading /\ chat.hasOlder /\ chat.channel.got /\ Use("OLDER")
    /\ chat' = [chat EXCEPT !.olderLoading = TRUE]
    /\ olders' = olders \cup {[rev |-> chat.rev, before |-> Min(Seqs(chat.messages)),
                               answer |-> "NONE", items |-> {}, more |-> FALSE]}
    /\ UNCHANGED <<chatVars, props, refreshing, marking, fetched>>

OlderServed(o, reached) ==
    LET items  == {m \in Of(Mine) : m.seq < o.before}
        answer == IF reached THEN Granted ELSE "UNAVAILABLE"
    IN  /\ o.answer = "NONE"
        /\ IF reached THEN UNCHANGED quota ELSE Use("CHAT_FAILS")
        /\ olders' = (olders \ {o}) \cup
                     {IF answer = "GRANTED"
                      THEN [o EXCEPT !.answer = answer, !.items = Highest(items),
                                     !.more = Highest(items) # items]
                      ELSE [o EXCEPT !.answer = answer]}
        /\ channels' = IF answer = "GRANTED" THEN Opened(Mine) ELSE channels
        /\ ServerKept /\ UNCHANGED <<readTo, chat, props, refreshing, marking, fetched>>

OlderArrives(o) ==
    /\ o.answer # "NONE"
    /\ olders' = olders \ {o}
    /\ CASE ~Current(o.rev) -> UNCHANGED <<chat, fetched>>
         [] Current(o.rev) /\ o.answer = "GRANTED" ->
              /\ chat' = [Merge(chat, o.items) EXCEPT !.hasOlder = o.more, !.error = FALSE,
                                                      !.olderLoading = FALSE]
              /\ fetched' = fetched \cup Seqs(o.items)
         [] OTHER -> chat' = [AfterFailure(chat, o.answer) EXCEPT !.olderLoading = FALSE] /\ UNCHANGED fetched
    /\ UNCHANGED <<chatVars, props, refreshing, marking, quota>>

-----------------------------------------------------------------------------
(* transmit.                                                               *)
MaySend == ~props.final /\ chat.channel.open /\ ~chat.closed /\ ~chat.throttled

Transmit(client) ==
    /\ MaySend
    /\ chat' = [chat EXCEPT !.outgoing = {p \in @ : p.client # client} \cup
                                         {[client |-> client, state |-> "pending"]}]
    /\ sends' = sends \cup {NewSend(Mine, Me, client, TRUE, chat.rev)}
    /\ UNCHANGED <<orders, channels, messages, readTo, clock, day, sweep>>
    /\ UNCHANGED <<props, refreshing, olders, marking, fetched>>

SendMessage == Use("SEND") /\ Transmit(<<"PAGE", quota["SEND"]>>)

RetryMessage(p) == p.state = "failed" /\ Use("RETRY") /\ Transmit(p.client)

(* A refresh may have shown the message already: then it stays so.         *)
MarkedFailed(outgoing, client) ==
    {IF p.client = client THEN [p EXCEPT !.state = "failed"] ELSE p : p \in outgoing}

NotSent(s, answer) ==
    IF Refusal(answer) THEN AfterFailure(chat, answer)
    ELSE [chat EXCEPT !.closed = @ \/ answer = "CLOSED",
                      !.throttled = @ \/ answer = "LIMITED",
                      !.outgoing = MarkedFailed(@, s.client)]

SendArrives(s) ==
    /\ s.phase = "DONE"
    /\ sends' = sends \ {s}
    /\ LET sent == {m \in Of(Mine) : m.seq = s.seq}
       IN  CASE ~Current(s.rev) -> UNCHANGED <<chat, fetched>>
             [] Current(s.rev) /\ s.answer = "SENT" ->
                  chat' = Merge(chat, sent) /\ fetched' = fetched \cup Seqs(sent)
             [] OTHER -> chat' = NotSent(s, s.answer) /\ UNCHANGED fetched
    /\ UNCHANGED <<orders, channels, messages, readTo, clock, day, sweep>>
    /\ UNCHANGED <<props, refreshing, olders, marking, quota>>

(* The request or its answer is lost.                                      *)
SendLost(s) ==
    /\ s.awaited /\ Use("LOSE_SEND")
    /\ sends' = (sends \ {s}) \cup (IF s.phase = "DONE" THEN {} ELSE {[s EXCEPT !.awaited = FALSE]})
    /\ chat' = IF Current(s.rev) THEN NotSent(s, "NETWORK") ELSE chat
    /\ UNCHANGED <<orders, channels, messages, readTo, clock, day, sweep>>
    /\ UNCHANGED <<props, refreshing, olders, marking, fetched>>

(* retryAt passes.                                                         *)
ThrottleEnds ==
    /\ chat.throttled
    /\ chat' = [chat EXCEPT !.throttled = FALSE]
    /\ UNCHANGED <<chatVars, props, refreshing, olders, marking, fetched, quota>>

-----------------------------------------------------------------------------
(* Mutant: everything on the page counts as read.                          *)
MutantReadSeq(c) == IF c.messages = {} THEN 0 ELSE Max(Seqs(c.messages))

(* Only fetched, contiguous messages count.                                *)
ReadSeq(c) == c.cursor

MarkVisibleRead ==
    /\ marking.phase = "NONE" /\ chat.channel.got /\ ~chat.error
    /\ ReadSeq(chat) > chat.channel.lastRead /\ Use("MARK")
    /\ marking' = [NotMarking EXCEPT !.phase = "ASKED", !.rev = chat.rev, !.seq = ReadSeq(chat)]
    /\ UNCHANGED <<chatVars, chat, props, refreshing, olders, fetched>>

MarkServed ==
    LET fits == marking.seq <= channels[Mine].latest
    IN  /\ marking.phase = "ASKED"
        /\ marking' = [marking EXCEPT !.phase = "DONE",
                                      !.answer = IF Granted = "GRANTED" /\ ~fits THEN "INVALID" ELSE Granted,
                                      !.seq = IF readTo[Mine] > @ THEN readTo[Mine] ELSE @]
        /\ readTo' = IF Granted = "GRANTED" /\ fits /\ marking.seq > readTo[Mine]
                     THEN [readTo EXCEPT ![Mine] = marking.seq] ELSE readTo
        /\ channels' = IF Granted = "GRANTED" THEN Opened(Mine) ELSE channels
        /\ ServerKept /\ UNCHANGED <<chat, props, refreshing, olders, fetched, quota>>

(* The answer, or none: readBusy ends, and the next refresh tries again.   *)
MarkArrives(lost) ==
    /\ marking.phase = "DONE" \/ (lost /\ marking.phase = "ASKED")
    /\ IF lost THEN Use("CHAT_FAILS") ELSE UNCHANGED quota
    /\ marking' = NotMarking
    /\ chat' = CASE ~Current(marking.rev) \/ lost \/ marking.answer = "INVALID" -> chat
                 [] Current(marking.rev) /\ ~lost /\ Refusal(marking.answer) -> AfterFailure(chat, marking.answer)
                 [] OTHER -> [chat EXCEPT !.channel.lastRead = IF @ > marking.seq \/ ~chat.channel.got
                                                               THEN @ ELSE marking.seq]
    /\ UNCHANGED <<chatVars, props, refreshing, olders, fetched>>

-----------------------------------------------------------------------------
RefreshSteps ==
    \/ \E reached \in BOOLEAN : RefreshServed(reached)
    \/ RefreshArrives \/ ChatTimer \/ RefreshNow \/ ErrandShown

OutgoingSteps ==
    \/ SendMessage \/ ThrottleEnds
    \/ \E p \in chat.outgoing : RetryMessage(p)
    \/ \E s \in sends : SendArrives(s) \/ SendLost(s)

ReadingSteps ==
    \/ Older \/ MarkVisibleRead \/ MarkServed
    \/ \E o \in olders : OlderArrives(o) \/ \E reached \in BOOLEAN : OlderServed(o, reached)
    \/ \E lost \in BOOLEAN : MarkArrives(lost)

ChatPageNext ==
    \/ ServerNext /\ UNCHANGED chatPageVars
    \/ RefreshSteps \/ OutgoingSteps \/ ReadingSteps

-----------------------------------------------------------------------------
(* The stored read position never covers a message this student was not    *)
(* shown, though the answer to a send can be ahead of what was fetched.    *)
ReadWasShown == 1 .. readTo[Mine] \subseteq fetched

(* Between the read position and the cursor no message is missing, so the  *)
(* unread count on screen is exact, whichever fetch was aborted or failed. *)
UnreadExact ==
    chat.channel.got /\ chat.cursor > chat.channel.lastRead =>
        chat.channel.lastRead + 1 .. chat.cursor \subseteq Seqs(chat.messages)

(* Once access was refused nothing of the conversation is left, and no     *)
(* answer still on its way puts any of it back.                            *)
NothingLeft == ~chat.channel.got => chat.messages = {} /\ chat.outgoing = {}

(* A message that is on the page as sent is not shown as going out or      *)
(* failed as well.                                                         *)
OutgoingOnce ==
    \A p \in chat.outgoing, m \in chat.messages : m.by = Me => m.client # p.client
=============================================================================
