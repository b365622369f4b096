-------------------------------- MODULE Chat --------------------------------
(***************************************************************************)
(* The Chat Service: who may see an errand's channel, sending under the    *)
(* sender's and the channel's locks, read positions, and the daily sweep   *)
(* that deletes channels past retention.  The two people who write are Me, *)
(* who runs errands, and Other, who asked for them.                        *)
(***************************************************************************)
EXTENDS Quota, Integers, Sequences, FiniteSets, FiniteSetsExt

CONSTANTS
    Me, Other, Nobody,
    MaxChannel,     \* channels are 1 .. MaxChannel, the errands' IDs
    SendLimit,      \* SEND_LIMIT.messages
    Window,         \* SEND_LIMIT.windowSeconds
    PageSize,       \* messages a GET returns
    RetentionDays, BatchSize

ASSUME ChatAssumption ==
    /\ {MaxChannel, SendLimit, Window, PageSize, BatchSize} \subseteq Nat \ {0}
    /\ RetentionDays \in Nat

VARIABLES
    orders,     \* what the Order Service answers, per errand
    channels,   \* channels, per errand
    messages,   \* messages
    readTo,     \* read_positions of Me, per errand
    sends,      \* POST /messages under way, with their phase
    clock,      \* seconds, as far as the rate window tells them apart
    day,        \* days, as far as retention tells them apart
    sweep       \* the retention run

chatVars == <<orders, channels, messages, readTo, sends, clock, day, sweep>>

Channels == 1 .. MaxChannel
NotEnded == 0
NoRun == [phase |-> "IDLE", today |-> 0, after |-> 0, page |-> {}, doomed |-> {}, last |-> FALSE,
          skipped |-> FALSE, failed |-> FALSE, due |-> {}]

(* talk: how many messages Other has sent in each channel, long ago.       *)
ChatInit(talk, read) ==
    /\ orders = [c \in Channels |-> [version |-> 1, courier |-> Me, ended |-> NotEnded]]
    /\ channels = [c \in Channels |-> [there |-> talk > 0, latest |-> talk, created |-> 1]]
    /\ messages = {[channel |-> c, seq |-> n, by |-> Other, client |-> <<"EARLIER", n>>, at |-> -Window] :
                      c \in Channels, n \in 1 .. talk}
    /\ readTo = [c \in Channels |-> IF read < talk THEN read ELSE talk]
    /\ sends = {} /\ clock = 0 /\ day = 1 /\ sweep = NoRun

-----------------------------------------------------------------------------
(* findForChat: the errand's courier leaves or comes, or the errand ends.  *)
ErrandChanges(c, courier, ends) ==
    /\ orders[c].ended = NotEnded /\ (courier # orders[c].courier \/ ends) /\ Use("ERRAND")
    /\ orders' = [orders EXCEPT ![c] = [version |-> @.version + 1, courier |-> courier,
                                        ended |-> IF ends THEN day ELSE NotEnded]]
    /\ UNCHANGED <<channels, messages, readTo, sends, clock, day, sweep>>

PastRetention(order, today) == order.ended # NotEnded /\ today - order.ended > RetentionDays

Open(order) == order.courier # Nobody /\ order.ended = NotEnded

(* access, from an answer of the Order Service.                            *)
Access(order, c, who) ==
    LET takesPart == who \in {Other, order.courier}
    IN  CASE PastRetention(order, day) -> "ABSENT"
          [] ~PastRetention(order, day) /\ ~takesPart ->
               IF ~channels[c].there /\ order.courier = Nobody THEN "ABSENT" ELSE "FORBIDDEN"
          [] OTHER -> IF channels[c].there \/ Open(order) THEN "GRANTED" ELSE "ABSENT"

(* A participant's request opens the channel.                              *)
Opened(c) == [channels EXCEPT ![c] = IF @.there THEN @ ELSE [there |-> TRUE, latest |-> 0, created |-> day]]

Of(c) == {m \in messages : m.channel = c}
FindSent(s) == {m \in Of(s.channel) : m.by = s.by /\ m.client = s.client}

-----------------------------------------------------------------------------
NewSend(c, by, client, awaited, rev) ==
    [channel |-> c, by |-> by, client |-> client, awaited |-> awaited, rev |-> rev,
     phase |-> "ASKED", order |-> orders[c], seq |-> 0, answer |-> "NONE"]

(* A message from another tab or from the other participant.               *)
SendsElsewhere(c, by) ==
    /\ Use("SEND_ELSEWHERE")
    /\ sends' = sends \cup {NewSend(c, by, <<"ELSEWHERE", quota["SEND_ELSEWHERE"]>>, FALSE, 0)}
    /\ UNCHANGED <<orders, channels, messages, readTo, clock, day, sweep>>

Proceeds(s, t) == sends' = (sends \ {s}) \cup {t}

SendAnswered(s, answer, seq) ==
    sends' = (sends \ {s}) \cup (IF s.awaited THEN {[s EXCEPT !.phase = "DONE", !.answer = answer,
                                                              !.seq = seq]} ELSE {})

(* upstreams.order, which may fail.                                        *)
SendAsked(s) ==
    /\ s.phase = "ASKED"
    /\ \/ Proceeds(s, [s EXCEPT !.phase = "KNOWN", !.order = orders[s.channel]]) /\ UNCHANGED quota
       \/ SendAnswered(s, "UNAVAILABLE", 0) /\ Use("UPSTREAM_DOWN")
    /\ UNCHANGED <<orders, channels, messages, readTo, clock, day, sweep>>

(* participantAccess, then findSent outside the locks.                     *)
SendChecked(s) ==
    LET access == Access(s.order, s.channel, s.by)
        stored == FindSent(s)
    IN  /\ s.phase = "KNOWN"
        /\ channels' = IF access = "GRANTED" THEN Opened(s.channel) ELSE channels
        /\ CASE access # "GRANTED" -> SendAnswered(s, access, 0)
             [] access = "GRANTED" /\ stored # {} -> SendAnswered(s, "SENT", (CHOOSE m \in stored : TRUE).seq)
             [] access = "GRANTED" /\ stored = {} /\ ~Open(s.order) -> SendAnswered(s, "CLOSED", 0)
             [] OTHER -> Proceeds(s, [s EXCEPT !.phase = "BEGUN"])
        /\ UNCHANGED <<orders, messages, readTo, clock, day, sweep, quota>>

(* Mutant: the sender's advisory lock is not taken.                        *)
MutantFreeSender(s) == TRUE

FreeSender(s) == \A t \in sends : t.by = s.by => t.phase \notin {"SENDER", "CHANNEL"}

FreeChannel(c) == \A t \in sends : t.channel = c => t.phase # "CHANNEL"

LockSender(s) ==
    /\ s.phase = "BEGUN" /\ FreeSender(s)
    /\ Proceeds(s, [s EXCEPT !.phase = "SENDER"])
    /\ UNCHANGED <<orders, channels, messages, readTo, clock, day, sweep, quota>>

StoredBefore(s) == FindSent(s)

Recent(by) == {m \in messages : m.by = by /\ m.at > clock - Window}

(* The channel's row lock, and what is read under both locks.              *)
LockChannel(s) ==
    LET row == channels[s.channel]
    IN  /\ s.phase = "SENDER" /\ FreeChannel(s.channel)
        /\ CASE ~row.there -> SendAnswered(s, "CLOSED", 0)
             [] row.there /\ StoredBefore(s) # {} ->
                  SendAnswered(s, "SENT", (CHOOSE m \in StoredBefore(s) : TRUE).seq)
             [] row.there /\ StoredBefore(s) = {} /\ Cardinality(Recent(s.by)) >= SendLimit ->
                  SendAnswered(s, "LIMITED", 0)
             [] OTHER -> Proceeds(s, [s EXCEPT !.phase = "CHANNEL", !.seq = row.latest + 1])
        /\ UNCHANGED <<orders, channels, messages, readTo, clock, day, sweep, quota>>

(* INSERT, UPDATE channels and COMMIT.                                     *)
SendStored(s) ==
    /\ s.phase = "CHANNEL"
    /\ messages' = messages \cup {[channel |-> s.channel, seq |-> s.seq, by |-> s.by,
                                   client |-> s.client, at |-> clock]}
    /\ channels' = [channels EXCEPT ![s.channel].latest = s.seq]
    /\ SendAnswered(s, "SENT", s.seq)
    /\ UNCHANGED <<orders, readTo, clock, day, sweep, quota>>

(* lock_timeout: the send rolls back and is answered as busy.              *)
LockTimesOut(s) ==
    /\ \/ s.phase = "BEGUN" /\ ~FreeSender(s)
       \/ s.phase = "SENDER" /\ ~FreeChannel(s.channel)
    /\ Use("LOCK_TIMEOUT")
    /\ SendAnswered(s, "UNAVAILABLE", 0)
    /\ UNCHANGED <<orders, channels, messages, readTo, clock, day, sweep>>

(* A second of the rate window, and a day, in which every request ends.    *)
SecondPasses ==
    /\ Use("SECOND")
    /\ clock' = clock + 1
    /\ UNCHANGED <<orders, channels, messages, readTo, sends, day, sweep>>

DayPasses ==
    /\ sends = {} /\ sweep.phase # "RUNNING" /\ Use("DAY")
    /\ day' = day + 1
    /\ UNCHANGED <<orders, channels, messages, readTo, sends, clock, sweep>>

-----------------------------------------------------------------------------
(* Mutant: pages are counted from the start of what is left.               *)
MutantOpenedBefore(cutoff, after) ==
    LET old == {c \in Channels : channels[c].there /\ channels[c].created < cutoff}
    IN  {c \in old : Cardinality({d \in old : d < c}) >= after}

(* channelsOpenedBefore, before its LIMIT.                                 *)
OpenedBefore(cutoff, after) ==
    {c \in Channels : channels[c].there /\ channels[c].created < cutoff /\ c > after}

(* The next page of the run r.                                             *)
NextPage(r) ==
    LET listed == OpenedBefore(r.today - RetentionDays, r.after)
        page   == {c \in listed : Cardinality({d \in listed : d < c}) < BatchSize}
    IN  [r EXCEPT !.page = page, !.last = Cardinality(page) < BatchSize,
                  !.after = IF page = {} THEN @ ELSE Max(page)]

ChatKept == UNCHANGED <<orders, readTo, sends, clock, day>>

SweepStarts ==
    /\ sweep.phase # "RUNNING" /\ Use("SWEEP")
    /\ sweep' = NextPage([NoRun EXCEPT !.phase = "RUNNING", !.today = day,
                             !.due = {c \in Channels : channels[c].there /\ PastRetention(orders[c], day)}])
    /\ ChatKept /\ UNCHANGED <<channels, messages>>

(* settle: the errand is asked for; a failed question skips the channel.   *)
Settle(c) ==
    /\ c \in sweep.page
    /\ \/ /\ sweep' = [sweep EXCEPT !.page = @ \ {c},
                                    !.doomed = IF PastRetention(orders[c], sweep.today) THEN @ \cup {c} ELSE @]
          /\ UNCHANGED quota
       \/ /\ Use("UPSTREAM_DOWN")
          /\ sweep' = [sweep EXCEPT !.page = @ \ {c}, !.skipped = TRUE]
    /\ ChatKept /\ UNCHANGED <<channels, messages>>

(* deleteChannel waits for a send that holds the row; the messages and the *)
(* read positions go with it.                                              *)
DeleteChannel(c) ==
    /\ c \in sweep.doomed /\ FreeChannel(c)
    /\ sweep' = [sweep EXCEPT !.doomed = @ \ {c}]
    /\ channels' = [channels EXCEPT ![c] = [there |-> FALSE, latest |-> 0, created |-> 0]]
    /\ messages' = messages \ Of(c)
    /\ readTo' = [readTo EXCEPT ![c] = 0]
    /\ UNCHANGED <<orders, sends, clock, day, quota>>

DeleteFails(c) ==
    /\ c \in sweep.doomed /\ Use("DELETE_FAILS")
    /\ sweep' = [sweep EXCEPT !.doomed = @ \ {c}, !.failed = TRUE]
    /\ ChatKept /\ UNCHANGED <<channels, messages>>

(* The page is settled: a failed delete or a short page ends the run.      *)
PageSettled ==
    /\ sweep.phase = "RUNNING" /\ sweep.page = {} /\ sweep.doomed = {}
    /\ sweep' = IF sweep.last \/ sweep.failed THEN [sweep EXCEPT !.phase = "ENDED"] ELSE NextPage(sweep)
    /\ ChatKept /\ UNCHANGED <<channels, messages, quota>>

ServerNext ==
    \/ \E c \in Channels, courier \in {Me, Nobody}, ends \in BOOLEAN : ErrandChanges(c, courier, ends)
    \/ \E c \in Channels, by \in {Me, Other} : SendsElsewhere(c, by)
    \/ \E s \in sends : \/ SendAsked(s) \/ SendChecked(s) \/ LockSender(s) \/ LockChannel(s)
                        \/ SendStored(s) \/ LockTimesOut(s)
    \/ SecondPasses \/ DayPasses
    \/ SweepStarts \/ PageSettled
    \/ \E c \in Channels : Settle(c) \/ DeleteChannel(c) \/ DeleteFails(c)

-----------------------------------------------------------------------------
(* However sends, retries and lost answers interleave, a channel's         *)
(* messages are numbered 1, 2, ... up to its latest, each once, and what a *)
(* client sent under one ID is stored once: the unique keys never refuse.  *)
MessagesInOrder ==
    \A c \in Channels :
        /\ {m.seq : m \in Of(c)} = 1 .. channels[c].latest
        /\ \A m, n \in Of(c) : m.seq = n.seq \/ (m.by = n.by /\ m.client = n.client) => m = n

(* No sender has more than SendLimit messages in a window, counted over    *)
(* every channel, even when sends on two channels run at once.             *)
RateKept ==
    \A m \in messages :
        m.at >= 0 => Cardinality({n \in messages : n.by = m.by /\ n.at \in m.at - Window + 1 .. m.at}) <= SendLimit

(* A retention run that asked about every channel and failed on none       *)
(* leaves no channel that was past retention when it began, whatever was   *)
(* deleted or opened between its pages.                                    *)
SweepComplete ==
    sweep.phase = "ENDED" /\ ~sweep.skipped /\ ~sweep.failed =>
        \A c \in sweep.due : ~channels[c].there
=============================================================================
