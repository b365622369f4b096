--------------------------- MODULE ClientsProofs ----------------------------
(***************************************************************************)
(* Proofs about the parts of Clients, for any instance and any number of   *)
(* events.                                                                 *)
(***************************************************************************)
EXTENDS Clients, FiniteSetTheorems, TLAPS

(* Among natural numbers there is a smallest one.                          *)
LEMMA SmallestNumber ==
    ASSUME NEW T, T \subseteq Nat, T # {}
    PROVE  \E x \in T : \A y \in T : x <= y
<1>1. PICK x \in T : \A y \in T : ~(<<y, x>> \in OpToRel(<, Nat))
  BY NatLessThanWellFounded, WFMin
<1>2. ASSUME NEW y \in T PROVE x <= y
  <2>1. <<y, x>> \notin OpToRel(<, Nat)
    BY <1>1
  <2>2. y \in Nat /\ x \in Nat
    OBVIOUS
  <2> QED BY <2>1, <2>2 DEF OpToRel
<1> QED BY <1>2

(* Among the numbers up to n there is a largest one.                       *)
LEMMA LargestNumber ==
    ASSUME NEW n \in Nat, NEW T, T \subseteq 1 .. n, T # {}
    PROVE  Max(T) \in T /\ \A y \in T : y <= Max(T)
<1> DEFINE U == {n - y : y \in T}
<1>1. U \subseteq Nat /\ U # {}
  <2>1. \A y \in T : n - y \in Nat
    OBVIOUS
  <2>2. PICK y \in T : TRUE
    OBVIOUS
  <2> QED BY <2>1, <2>2
<1>2. PICK u \in U : \A v \in U : u <= v
  <2> HIDE DEF U
  <2> QED BY <1>1, SmallestNumber
<1>3. PICK x \in T : u = n - x
  OBVIOUS
<1>4. \A y \in T : x >= y
  <2> SUFFICES ASSUME NEW y \in T PROVE x >= y
    OBVIOUS
  <2>1. n - y \in U
    OBVIOUS
  <2>2. n - x <= n - y
    BY <1>2, <1>3, <2>1
  <2>3. x \in Int /\ y \in Int
    OBVIOUS
  <2> QED BY <2>2, <2>3
<1>5. Max(T) \in T /\ \A y \in T : Max(T) >= y
  BY <1>4 DEF Max
<1>6. \A y \in T : y \in Int
  OBVIOUS
<1> QED BY <1>5, <1>6

-----------------------------------------------------------------------------
(* Chat: the channels.                                                     *)

(* The first n members of a set of channels, as a query with ORDER BY and  *)
(* LIMIT returns them.                                                     *)
First(L, n) == {c \in L : Cardinality({d \in L : d < c}) < n}

(* What is left out of a page comes after it, and a short page leaves out  *)
(* nothing.                                                                *)
LEMMA FirstPage ==
    ASSUME NEW m \in Nat, NEW L, L \subseteq 1 .. m, NEW n \in Nat
    PROVE  /\ \A c \in L \ First(L, n), p \in First(L, n) : p < c
           /\ Cardinality(First(L, n)) < n => First(L, n) = L
<1> DEFINE Below(c) == {d \in L : d < c}
<1>1. IsFiniteSet(L)
  <2>1. IsFiniteSet(1 .. m)
    BY FS_Interval
  <2> QED BY <2>1, FS_Subset
<1>a. \A d \in L : d \in Nat
  OBVIOUS
<1>2. \A c : IsFiniteSet(Below(c)) /\ Cardinality(Below(c)) \in Nat
  BY <1>1, FS_Subset, FS_CardinalityType
<1>3. ASSUME NEW c \in L \ First(L, n), NEW p \in First(L, n) PROVE p < c
  <2>1. Cardinality(Below(p)) < n /\ ~(Cardinality(Below(c)) < n)
    BY DEF First
  <2>2. p \in L /\ c \in L /\ p \in Int /\ c \in Int
    BY DEF First
  <2>3. SUFFICES ASSUME c <= p PROVE FALSE
    BY <2>2
  <2>4. Below(c) \subseteq Below(p)
    <3>1. ASSUME NEW d \in L, d < c PROVE d < p
      BY <1>a, <2>2, <2>3, <3>1
    <3> QED BY <3>1
  <2>5. Cardinality(Below(c)) <= Cardinality(Below(p))
    <3> HIDE DEF Below
    <3> QED BY <1>2, <2>4, FS_Subset
  <2> HIDE DEF Below
  <2> QED BY <1>2, <2>1, <2>5
<1>4. ASSUME Cardinality(First(L, n)) < n, First(L, n) # L PROVE FALSE
  <2> DEFINE Rest == L \ First(L, n)
  <2>1. Rest # {} /\ Rest \subseteq Nat
    <3>1. First(L, n) \subseteq L
      BY DEF First
    <3> QED BY <1>4, <1>a, <3>1
  <2>2. PICK c \in Rest : \A d \in Rest : c <= d
    <3> HIDE DEF Rest
    <3> QED BY <2>1, SmallestNumber
  <2>3. Below(c) \subseteq First(L, n)
    <3>1. ASSUME NEW d \in Below(c), d \notin First(L, n) PROVE FALSE
      <4>1. d \in Rest /\ d < c /\ d \in Int /\ c \in Int
        BY <3>1
      <4>2. c <= d
        BY <2>2, <4>1
      <4> QED BY <4>1, <4>2
    <3> QED BY <3>1
  <2>4. IsFiniteSet(First(L, n)) /\ Cardinality(First(L, n)) \in Nat
    BY <1>1, FS_Subset, FS_CardinalityType DEF First
  <2>5. Cardinality(Below(c)) <= Cardinality(First(L, n))
    <3> HIDE DEF Below
    <3> QED BY <2>3, <2>4, FS_Subset
  <2>6. ~(Cardinality(Below(c)) < n)
    BY DEF First
  <2> HIDE DEF Below
  <2> QED BY <1>2, <1>4, <2>4, <2>5, <2>6
<1> QED BY <1>3, <1>4

Runs == [phase : {"IDLE", "RUNNING", "ENDED"}, today : Nat, after : Nat, page : SUBSET Channels,
         doomed : SUBSET Channels, last : BOOLEAN, skipped : BOOLEAN, failed : BOOLEAN,
         due : SUBSET Channels]

ChatTypes ==
    /\ orders \in [Channels -> [version : Nat, courier : {Me, Nobody}, ended : Nat]]
    /\ channels \in [Channels -> [there : BOOLEAN, latest : Nat, created : Nat]]
    /\ \A m \in messages : m.channel \in Channels /\ m.seq \in Nat
    /\ day \in Nat \ {0}
    /\ sweep \in Runs

(* A channel is no younger than the end of its errand.                     *)
ChannelsFit ==
    \A c \in Channels :
        /\ ~channels[c].there => channels[c].latest = 0
        /\ channels[c].there => channels[c].created <= day
        /\ channels[c].there /\ orders[c].ended # NotEnded => channels[c].created <= orders[c].ended
        /\ orders[c].ended <= day

(* A send that holds its channel's row is about to write the next message, *)
(* which is not there yet; and what a send knows of its errand is at most  *)
(* out of date by a change of today.                                       *)
SendFits(s) ==
    /\ s \in [channel : Channels, by : {s.by}, client : {s.client}, awaited : {s.awaited}, rev : {s.rev},
               phase : {s.phase}, order : {s.order}, seq : {s.seq}, answer : {s.answer}]
    /\ s.phase = "CHANNEL" => /\ channels[s.channel].there
                              /\ s.seq = channels[s.channel].latest + 1
                              /\ FindSent(s) = {}
    /\ orders[s.channel].ended \in {NotEnded, day} \/ s.order = orders[s.channel]

OneWriter ==
    \A s, t \in sends : s.phase = "CHANNEL" /\ t.phase = "CHANNEL" /\ s.channel = t.channel => s = t

SendsFit == (\A s \in sends : SendFits(s)) /\ OneWriter

(* A channel that was due when the run began is gone, in the page at hand, *)
(* or still to be listed.                                                  *)
SweepFits ==
    /\ sweep.today <= day /\ (sweep.phase = "RUNNING" => sweep.today = day)
    /\ \A c \in sweep.due : PastRetention(orders[c], sweep.today)
    /\ sweep.phase = "RUNNING" /\ ~sweep.skipped /\ ~sweep.failed =>
          \A c \in sweep.due :
              channels[c].there => c \in sweep.page \cup sweep.doomed \/ (~sweep.last /\ c > sweep.after)

ChannelsInv == ChatTypes /\ ChannelsFit /\ SweepFits /\ ChannelsSound
ChatInv == ChannelsInv /\ SendsFit

(* Nothing but sends changes.                                              *)
LEMMA ChannelsKept ==
    ASSUME ChannelsInv, UNCHANGED <<orders, channels, messages, day, sweep>>
    PROVE  ChannelsInv' /\ \A s : SendFits(s)' <=> SendFits(s)
BY DEF ChannelsInv, ChatTypes, ChannelsFit, SweepFits, ChannelsSound, MessagesInOrder, SweepComplete,
   SendFits, FindSent, Of, PastRetention

(* One send is replaced by another.                                        *)
LEMMA SendsReplaced ==
    ASSUME SendsFit, NEW s, NEW t, \A x \in sends \ {s} : SendFits(x) => SendFits(x)',
           SendFits(t)', sends' \subseteq (sends \ {s}) \cup {t},
           t.phase = "CHANNEL" => FreeChannel(t.channel) \/ (s \in sends /\ s.phase = "CHANNEL" /\ s.channel = t.channel)
    PROVE  SendsFit'
<1>1. \A x \in sends' : SendFits(x)'
  BY DEF SendsFit
<1>2. OneWriter'
  BY DEF OneWriter, SendsFit, FreeChannel
<1> QED BY <1>1, <1>2 DEF SendsFit

LEMMA SendsRemoved ==
    ASSUME SendsFit, \A s \in sends : SendFits(s) => SendFits(s)', sends' \subseteq sends
    PROVE  SendsFit'
BY DEF SendsFit, OneWriter

(* What an errand past retention means for access to its channel.          *)
LEMMA NoAccess ==
    ASSUME ChannelsInv, NEW c \in sweep.due, NEW order, NEW who,
           orders[c].ended \in {NotEnded, day} \/ order = orders[c]
    PROVE  Access(order, c, who) # "GRANTED"
<1>1. /\ PastRetention(orders[c], sweep.today) /\ c \in Channels /\ sweep.today \in Nat /\ day \in Nat
      /\ sweep.today <= day /\ orders[c].ended \in Nat /\ RetentionDays \in Nat
  BY ChatAssumption DEF ChannelsInv, ChatTypes, Runs, SweepFits
<1>2. orders[c].ended # NotEnded /\ day - orders[c].ended > RetentionDays /\ orders[c].ended # day
  BY <1>1 DEF PastRetention, NotEnded
<1>3. order = orders[c] /\ PastRetention(order, day)
  BY <1>2 DEF PastRetention
<1> QED BY <1>3 DEF Access

(* A participant's request opens the channel of its errand.                *)
LEMMA Opening ==
    ASSUME ChannelsInv, NEW c \in Channels, NEW order, NEW who,
           orders[c].ended \in {NotEnded, day} \/ order = orders[c],
           Access(order, c, who) = "GRANTED", channels' = Opened(c),
           UNCHANGED <<orders, messages, day, sweep>>
    PROVE  ChannelsInv' /\ \A s : SendFits(s) => SendFits(s)'
<1>0. ChatTypes /\ ChannelsFit /\ SweepFits /\ MessagesInOrder /\ SweepComplete
  BY DEF ChannelsInv, ChannelsSound
<1>1. CASE channels[c].there
  <2>1. channels' = channels
    BY <1>0, <1>1 DEF Opened, ChatTypes
  <2> QED BY <2>1, ChannelsKept
<1>2. CASE ~channels[c].there
  <2>1. /\ channels'[c] = [there |-> TRUE, latest |-> 0, created |-> day]
        /\ \A d \in Channels \ {c} : channels'[d] = channels[d]
        /\ channels' \in [Channels -> [there : BOOLEAN, latest : Nat, created : Nat]]
    BY <1>0, <1>2 DEF Opened, ChatTypes
  <2>2. c \notin sweep.due
    BY NoAccess
  <2>3. order.ended = NotEnded
    BY <1>2 DEF Access, Open
  <2>4. orders[c].ended \in {NotEnded, day}
    BY <2>3
  <2>5. channels[c].latest = 0
    BY <1>0, <1>2 DEF ChannelsFit
  <2>6. ChatTypes'
    BY <1>0, <2>1 DEF ChatTypes
  <2>7. ChannelsFit'
    BY <1>0, <2>1, <2>4 DEF ChannelsFit, ChatTypes
  <2>8. SweepFits' /\ SweepComplete'
    <3>1. \A d \in sweep.due : d \in Channels \ {c} /\ channels'[d] = channels[d]
      BY <1>0, <2>1, <2>2 DEF ChatTypes, Runs
    <3> QED BY <1>0, <3>1 DEF SweepFits, SweepComplete, PastRetention
  <2>9. MessagesInOrder'
    <3>1. \A d : Of(d)' = Of(d)
      BY DEF Of
    <3>2. \A d \in Channels : channels'[d].latest = channels[d].latest
      BY <2>1, <2>5
    <3> QED BY <1>0, <3>1, <3>2 DEF MessagesInOrder
  <2>10. ASSUME NEW s, SendFits(s) PROVE SendFits(s)'
    <3>1. s.phase = "CHANNEL" => s.channel # c
      BY <1>2, <2>10 DEF SendFits
    <3>2. FindSent(s)' = FindSent(s)
      BY DEF FindSent, Of
    <3> QED BY <2>1, <2>10, <3>1, <3>2 DEF SendFits
  <2> QED BY <2>6, <2>7, <2>8, <2>9, <2>10 DEF ChannelsInv, ChannelsSound
<1> QED BY <1>1, <1>2

(* What a run that lists its next page has still to look at is on that     *)
(* page or after it.                                                       *)
LEMMA PageFollows ==
    ASSUME NEW r \in Runs
    PROVE  /\ NextPage(r) \in Runs
           /\ NextPage(r).phase = r.phase /\ NextPage(r).today = r.today /\ NextPage(r).doomed = r.doomed
           /\ NextPage(r).skipped = r.skipped /\ NextPage(r).failed = r.failed /\ NextPage(r).due = r.due
           /\ \A c \in OpenedBefore(r.today - RetentionDays, r.after) :
                  c \in NextPage(r).page \/ (~NextPage(r).last /\ c > NextPage(r).after)
<1> DEFINE L == OpenedBefore(r.today - RetentionDays, r.after)
           shown == First(L, BatchSize)
<1>1. BatchSize \in Nat \ {0} /\ MaxChannel \in Nat
  BY ChatAssumption
<1>2. L \subseteq 1 .. MaxChannel /\ shown \subseteq L
  BY DEF OpenedBefore, Channels, First
<1>3. /\ \A c \in L \ shown, p \in shown : p < c
      /\ Cardinality(shown) < BatchSize => shown = L
  <2> HIDE DEF L
  <2> QED BY <1>1, <1>2, FirstPage
<1>4. shown # {} => Max(shown) \in shown
  <2> HIDE DEF shown
  <2> QED BY <1>1, <1>2, LargestNumber
<1>5. NextPage(r) = [r EXCEPT !.page = shown, !.last = Cardinality(shown) < BatchSize,
                              !.after = IF shown = {} THEN r.after ELSE Max(shown)]
  BY DEF NextPage, First
<1>6. shown \subseteq Channels /\ (shown # {} => Max(shown) \in Nat)
  BY <1>2, <1>4 DEF Channels
<1>7. /\ NextPage(r).page = shown /\ NextPage(r).last = (Cardinality(shown) < BatchSize)
      /\ NextPage(r).after = IF shown = {} THEN r.after ELSE Max(shown)
      /\ NextPage(r).phase = r.phase /\ NextPage(r).today = r.today /\ NextPage(r).doomed = r.doomed
      /\ NextPage(r).skipped = r.skipped /\ NextPage(r).failed = r.failed /\ NextPage(r).due = r.due
  <2> HIDE DEF shown
  <2> QED BY <1>5 DEF Runs
<1>8. NextPage(r) \in Runs
  <2> HIDE DEF shown
  <2>1. PICK p, l, a : /\ p = shown /\ l = (Cardinality(shown) < BatchSize)
                       /\ a = IF shown = {} THEN r.after ELSE Max(shown)
    OBVIOUS
  <2>2. NextPage(r) = [r EXCEPT !.page = p, !.last = l, !.after = a]
    BY <1>5, <2>1
  <2>3. p \subseteq Channels /\ l \in BOOLEAN /\ a \in Nat
    BY <1>6, <2>1 DEF Runs
  <2> QED BY <2>2, <2>3 DEF Runs
<1>9. ASSUME NEW c \in L, c \notin shown PROVE ~(Cardinality(shown) < BatchSize) /\ shown # {} /\ c > Max(shown)
  <2> HIDE DEF L, shown
  <2>1. ~(Cardinality(shown) < BatchSize)
    BY <1>3, <1>9
  <2>2. shown # {}
    BY <1>1, <2>1, FS_EmptySet
  <2>3. Max(shown) < c
    BY <1>3, <1>4, <1>9, <2>2
  <2>4. Max(shown) \in Nat /\ c \in Nat
    BY <1>2, <1>6, <2>2
  <2> QED BY <2>1, <2>2, <2>3, <2>4
<1>10. \A c \in L : c \in NextPage(r).page \/ (~NextPage(r).last /\ c > NextPage(r).after)
  <2> HIDE DEF L, shown
  <2> QED BY <1>7, <1>9
<1> QED BY <1>7, <1>8, <1>10

(* A step of one send.                                                     *)
LEMMA SendSteps ==
    ASSUME ChatInv, UNCHANGED <<orders, channels, messages, day, sweep>>, NEW s \in sends, NEW t,
           SendFits(t), sends' \subseteq (sends \ {s}) \cup {t},
           t.phase = "CHANNEL" => FreeChannel(t.channel) \/ (s.phase = "CHANNEL" /\ s.channel = t.channel)
    PROVE  ChatInv'
<1>1. ChannelsInv' /\ (\A x : SendFits(x)' <=> SendFits(x)) /\ SendsFit
  BY ChannelsKept DEF ChatInv
<1>2. SendsFit'
  BY <1>1, SendsReplaced
<1> QED BY <1>1, <1>2 DEF ChatInv

(* A send that is answered holds nothing.                                  *)
LEMMA Answering ==
    ASSUME SendsFit, UNCHANGED <<orders, day>>, NEW s \in sends, NEW answer, NEW seq,
           \A x \in sends \ {s} : SendFits(x) => SendFits(x)', SendAnswered(s, answer, seq)
    PROVE  SendsFit'
<1> DEFINE t == [s EXCEPT !.phase = "DONE", !.answer = answer, !.seq = seq]
<1>1. SendFits(s)
  BY DEF SendsFit
<1>2. s \in [channel : Channels, by : {s.by}, client : {s.client}, awaited : {s.awaited}, rev : {s.rev},
             phase : {s.phase}, order : {s.order}, seq : {s.seq}, answer : {s.answer}]
  BY <1>1 DEF SendFits
<1>3. sends' \subseteq (sends \ {s}) \cup {t}
  BY DEF SendAnswered
<1>4. /\ t \in [channel : Channels, by : {t.by}, client : {t.client}, awaited : {t.awaited}, rev : {t.rev},
                phase : {t.phase}, order : {t.order}, seq : {t.seq}, answer : {t.answer}]
      /\ t.channel = s.channel /\ t.order = s.order /\ t.phase = "DONE"
  BY <1>2
<1> HIDE DEF t
<1>5. SendFits(t)'
  BY <1>1, <1>4 DEF SendFits
<1> QED BY <1>3, <1>4, <1>5, SendsReplaced

(* The requests and answers of a send that change nothing else.            *)
LEMMA QuietSends ==
    ASSUME ChatInv, UNCHANGED <<orders, channels, messages, day, sweep>>,
           \/ \E c \in Channels : \E by, client, awaited, rev :
                  sends' \subseteq sends \cup {NewSend(c, by, client, awaited, rev)}
           \/ \E s \in sends : SendAsked(s) \/ LockSender(s) \/ LockChannel(s) \/ LockTimesOut(s)
           \/ sends' \subseteq sends
           \/ \E s \in sends : sends' \subseteq (sends \ {s}) \cup {[s EXCEPT !.awaited = FALSE]}
    PROVE  ChatInv'
<1>0. ChannelsInv' /\ (\A x : SendFits(x)' <=> SendFits(x)) /\ SendsFit /\ \A x \in sends : SendFits(x)
  BY ChannelsKept DEF ChatInv, SendsFit
<1>a. ASSUME NEW s \in sends, NEW answer, NEW seq, SendAnswered(s, answer, seq) PROVE ChatInv'
  <2>1. SendsFit'
    BY <1>0, <1>a, Answering
  <2> QED BY <1>0, <2>1 DEF ChatInv
<1>1. ASSUME NEW c \in Channels, NEW by, NEW client, NEW awaited, NEW rev,
             sends' \subseteq sends \cup {NewSend(c, by, client, awaited, rev)}
      PROVE  ChatInv'
  <2> DEFINE t == NewSend(c, by, client, awaited, rev)
  <2>1. SendFits(t) /\ t.phase # "CHANNEL"
    BY DEF NewSend, SendFits
  <2> HIDE DEF t
  <2>2. sends' \subseteq (sends \ {t}) \cup {t}
    BY <1>1 DEF t
  <2>3. SendsFit'
    BY <1>0, <2>1, <2>2, SendsReplaced
  <2> QED BY <1>0, <2>3 DEF ChatInv
<1>2. ASSUME NEW s \in sends, SendAsked(s) PROVE ChatInv'
  <2>1. CASE Proceeds(s, [s EXCEPT !.phase = "KNOWN", !.order = orders[s.channel]])
    <3> DEFINE t == [s EXCEPT !.phase = "KNOWN", !.order = orders[s.channel]]
    <3>1. SendFits(t) /\ t.phase # "CHANNEL"
      BY <1>0 DEF SendFits
    <3>2. sends' \subseteq (sends \ {s}) \cup {t}
      BY <2>1 DEF Proceeds
    <3> HIDE DEF t
    <3> QED BY <3>1, <3>2, SendSteps
  <2>2. CASE SendAnswered(s, "UNAVAILABLE", 0)
    BY <1>a, <2>2
  <2> QED BY <1>2, <2>1, <2>2 DEF SendAsked
<1>3. ASSUME NEW s \in sends, LockSender(s) PROVE ChatInv'
  <2> DEFINE t == [s EXCEPT !.phase = "SENDER"]
  <2>1. SendFits(t) /\ t.phase # "CHANNEL"
    BY <1>0 DEF SendFits
  <2>2. sends' \subseteq (sends \ {s}) \cup {t}
    BY <1>3 DEF LockSender, Proceeds
  <2> HIDE DEF t
  <2> QED BY <2>1, <2>2, SendSteps
<1>4. ASSUME NEW s \in sends, LockChannel(s) PROVE ChatInv'
  <2> DEFINE row == channels[s.channel]
             t == [s EXCEPT !.phase = "CHANNEL", !.seq = row.latest + 1]
  <2>1. CASE \E answer, seq : SendAnswered(s, answer, seq)
    BY <1>a, <2>1
  <2>2. CASE row.there /\ FindSent(s) = {} /\ Proceeds(s, t)
    <3>1. FindSent(t) = FindSent(s) /\ t.phase = "CHANNEL" /\ t.channel = s.channel
      BY <1>0 DEF SendFits, FindSent
    <3>2. SendFits(t)
      BY <1>0, <2>2, <3>1 DEF SendFits
    <3>3. sends' \subseteq (sends \ {s}) \cup {t} /\ FreeChannel(t.channel)
      BY <1>4, <2>2, <3>1 DEF LockChannel, Proceeds
    <3> HIDE DEF t
    <3> QED BY <3>2, <3>3, SendSteps
  <2> QED BY <1>4, <2>1, <2>2 DEF LockChannel, StoredBefore
<1>5. ASSUME NEW s \in sends, LockTimesOut(s) PROVE ChatInv'
  BY <1>5, <1>a DEF LockTimesOut
<1>6. ASSUME sends' \subseteq sends PROVE ChatInv'
  BY <1>0, <1>6, SendsRemoved DEF ChatInv
<1>7. ASSUME NEW s \in sends, sends' \subseteq (sends \ {s}) \cup {[s EXCEPT !.awaited = FALSE]} PROVE ChatInv'
  <2> DEFINE t == [s EXCEPT !.awaited = FALSE]
  <2>1. FindSent(t) = FindSent(s) /\ t.phase = s.phase /\ t.channel = s.channel
    BY <1>0 DEF SendFits, FindSent
  <2>2. SendFits(t)
    BY <1>0, <2>1 DEF SendFits
  <2>3. sends' \subseteq (sends \ {s}) \cup {t}
    BY <1>7
  <2> HIDE DEF t
  <2> QED BY <2>1, <2>2, <2>3, SendSteps
<1> QED BY <1>1, <1>2, <1>3, <1>4, <1>5, <1>6, <1>7

(* participantAccess, for a send and for the page's own requests.          *)
LEMMA CheckedSends ==
    ASSUME ChatInv, NEW s \in sends, SendChecked(s)
    PROVE  ChatInv'
<1> DEFINE access == Access(s.order, s.channel, s.by)
<1>0. ChannelsInv /\ SendsFit /\ SendFits(s) /\ \A x \in sends : SendFits(x)
  BY DEF ChatInv, SendsFit
<1>1. ChannelsInv' /\ \A x : SendFits(x) => SendFits(x)'
  <2>1. CASE access = "GRANTED"
    <3>1. channels' = Opened(s.channel) /\ UNCHANGED <<orders, messages, day, sweep>>
      BY <2>1 DEF SendChecked
    <3>2. s.channel \in Channels /\ (orders[s.channel].ended \in {NotEnded, day} \/ s.order = orders[s.channel])
      BY <1>0 DEF SendFits
    <3> QED BY <1>0, <2>1, <3>1, <3>2, Opening
  <2>2. CASE access # "GRANTED"
    <3>1. UNCHANGED <<orders, channels, messages, day, sweep>>
      BY <2>2 DEF SendChecked
    <3> QED BY <1>0, <3>1, ChannelsKept
  <2> QED BY <2>1, <2>2
<1>2. UNCHANGED <<orders, day>>
  BY DEF SendChecked
<1>3. CASE \E answer, seq : SendAnswered(s, answer, seq)
  <2>1. SendsFit'
    BY <1>0, <1>1, <1>2, <1>3, Answering
  <2> QED BY <1>1, <2>1 DEF ChatInv
<1>4. CASE Proceeds(s, [s EXCEPT !.phase = "BEGUN"])
  <2> DEFINE t == [s EXCEPT !.phase = "BEGUN"]
  <2>1. SendFits(t) /\ t.phase # "CHANNEL"
    BY <1>0 DEF SendFits
  <2>2. sends' \subseteq (sends \ {s}) \cup {t}
    BY <1>4 DEF Proceeds
  <2> HIDE DEF t
  <2>3. SendsFit'
    BY <1>0, <1>1, <2>1, <2>2, SendsReplaced
  <2> QED BY <1>1, <2>3 DEF ChatInv
<1> QED BY <1>3, <1>4 DEF SendChecked

(* INSERT under both locks: the next number, which no other send may take. *)
LEMMA StoredSends ==
    ASSUME ChatInv, NEW s \in sends, SendStored(s)
    PROVE  ChatInv'
<1> DEFINE ch == s.channel
           new == [channel |-> s.channel, seq |-> s.seq, by |-> s.by, client |-> s.client, at |-> clock]
<1>0. /\ ChannelsInv /\ SendsFit /\ SendFits(s) /\ \A x \in sends : SendFits(x)
      /\ ChatTypes /\ ChannelsFit /\ SweepFits /\ MessagesInOrder /\ SweepComplete /\ OneWriter
  BY DEF ChatInv, SendsFit, ChannelsInv, ChannelsSound
<1>1. /\ ch \in Channels /\ channels[ch].there /\ channels[ch].latest \in Nat
      /\ s.seq = channels[ch].latest + 1 /\ FindSent(s) = {}
  BY <1>0 DEF SendFits, SendStored, ChatTypes
<1>2. /\ messages' = messages \cup {new} /\ UNCHANGED <<orders, day, sweep>>
      /\ channels' = [channels EXCEPT ![ch].latest = s.seq]
  BY DEF SendStored
<1>3. /\ channels' \in [Channels -> [there : BOOLEAN, latest : Nat, created : Nat]]
      /\ channels'[ch].latest = s.seq
      /\ \A c \in Channels : /\ channels'[c].there = channels[c].there
                             /\ channels'[c].created = channels[c].created
                             /\ c # ch => channels'[c].latest = channels[c].latest
  BY <1>0, <1>1, <1>2 DEF ChatTypes
<1>4. ChatTypes'
  BY <1>0, <1>1, <1>2, <1>3 DEF ChatTypes
<1>5. ChannelsFit' /\ SweepFits' /\ SweepComplete'
  <2>1. ChannelsFit'
    BY <1>0, <1>1, <1>2, <1>3 DEF ChannelsFit
  <2>2. \A c \in sweep.due : channels'[c].there = channels[c].there
    BY <1>0, <1>3 DEF ChatTypes, Runs
  <2>3. SweepFits' /\ SweepComplete'
    BY <1>0, <1>2, <2>2 DEF SweepFits, SweepComplete, PastRetention
  <2> QED BY <2>1, <2>3
<1>6. new.channel = ch /\ new.seq = s.seq /\ new.by = s.by /\ new.client = s.client
  OBVIOUS
<1> HIDE DEF new, ch
<1>7. Of(ch)' = Of(ch) \cup {new} /\ \A c \in Channels \ {ch} : Of(c)' = Of(c)
  BY <1>2, <1>6 DEF Of
<1>8. MessagesInOrder'
  <2>1. ASSUME NEW c \in Channels \ {ch}
        PROVE  /\ {m.seq : m \in Of(c)'} = 1 .. channels'[c].latest
               /\ \A m, n \in Of(c)' : m.seq = n.seq \/ (m.by = n.by /\ m.client = n.client) => m = n
    BY <1>0, <1>3, <1>7 DEF MessagesInOrder
  <2>2. {m.seq : m \in Of(ch)'} = 1 .. channels'[ch].latest
    <3>1. {m.seq : m \in Of(ch)'} = {m.seq : m \in Of(ch)} \cup {s.seq}
      BY <1>6, <1>7
    <3>2. {m.seq : m \in Of(ch)} = 1 .. channels[ch].latest
      BY <1>0, <1>1 DEF MessagesInOrder, ch
    <3>3. \A n \in Nat : (1 .. n) \cup {n + 1} = 1 .. (n + 1)
      OBVIOUS
    <3>4. channels[ch].latest \in Nat /\ s.seq = channels[ch].latest + 1 /\ channels'[ch].latest = s.seq
      BY <1>1, <1>3
    <3>5. (1 .. channels[ch].latest) \cup {s.seq} = 1 .. s.seq
      BY <3>3, <3>4
    <3> QED BY <3>1, <3>2, <3>4, <3>5
  <2>3. \A m \in Of(ch) : m.seq # new.seq /\ ~(m.by = new.by /\ m.client = new.client)
    <3>1. ASSUME NEW m \in Of(ch) PROVE m.seq # new.seq
      <4>1. m.seq \in 1 .. channels[ch].latest
        BY <1>0, <1>1 DEF MessagesInOrder, ch
      <4> QED BY <1>1, <1>6, <4>1 DEF ch
    <3>2. ASSUME NEW m \in Of(ch) PROVE ~(m.by = new.by /\ m.client = new.client)
      BY <1>1, <1>6 DEF FindSent, ch
    <3> QED BY <3>1, <3>2
  <2>4. \A m, n \in Of(ch) : m.seq = n.seq \/ (m.by = n.by /\ m.client = n.client) => m = n
    BY <1>0, <1>1 DEF MessagesInOrder, ch
  <2>5. \A m, n \in Of(ch)' : m.seq = n.seq \/ (m.by = n.by /\ m.client = n.client) => m = n
    BY <1>7, <2>3, <2>4
  <2>6. \A c \in Channels : /\ {m.seq : m \in Of(c)'} = 1 .. channels'[c].latest
                            /\ \A m, n \in Of(c)' : m.seq = n.seq \/ (m.by = n.by /\ m.client = n.client) => m = n
    BY <2>1, <2>2, <2>5
  <2> QED BY <2>6 DEF MessagesInOrder
<1>9. ASSUME NEW x \in sends \ {s} PROVE SendFits(x)'
  <2>1. SendFits(x)
    BY <1>0
  <2>2. x.phase = "CHANNEL" => x.channel # ch
    BY <1>0, <1>9 DEF OneWriter, SendStored, ch
  <2>3. x.channel \in Channels
    BY <2>1 DEF SendFits
  <2>4. x.phase = "CHANNEL" => FindSent(x)' = FindSent(x)
    BY <1>7, <2>2, <2>3 DEF FindSent
  <2> QED BY <1>2, <1>3, <2>1, <2>2, <2>3, <2>4 DEF SendFits
<1>10. SendsFit'
  BY <1>0, <1>2, <1>9, Answering DEF SendStored
<1> QED BY <1>4, <1>5, <1>8, <1>10 DEF ChatInv, ChannelsInv, ChannelsSound

(* The errand, the clock and the calendar.                                 *)
LEMMA ErrandMoves ==
    ASSUME ChatInv, NEW c \in Channels, NEW courier \in {Me, Nobody}, NEW ends \in BOOLEAN,
           ErrandChanges(c, courier, ends)
    PROVE  ChatInv'
<1>0. /\ SendsFit /\ \A x \in sends : SendFits(x)
      /\ ChatTypes /\ ChannelsFit /\ SweepFits /\ MessagesInOrder /\ SweepComplete
  BY DEF ChatInv, SendsFit, ChannelsInv, ChannelsSound
<1>1. orders[c].ended = NotEnded /\ UNCHANGED <<channels, messages, sends, day, sweep>>
  BY DEF ErrandChanges
<1>2. /\ orders' \in [Channels -> [version : Nat, courier : {Me, Nobody}, ended : Nat]]
      /\ orders'[c].ended \in {NotEnded, day}
      /\ \A d \in Channels \ {c} : orders'[d] = orders[d]
  BY <1>0 DEF ErrandChanges, ChatTypes, NotEnded
<1>3. ChatTypes'
  BY <1>0, <1>1, <1>2 DEF ChatTypes
<1>4. ChannelsFit'
  BY <1>0, <1>1, <1>2 DEF ChannelsFit, ChatTypes, NotEnded
<1>5. c \notin sweep.due /\ \A d \in sweep.due : orders'[d] = orders[d]
  BY <1>0, <1>1, <1>2 DEF SweepFits, PastRetention, ChatTypes, Runs
<1>6. SweepFits' /\ ChannelsSound'
  BY <1>0, <1>1, <1>5 DEF SweepFits, PastRetention, ChannelsSound, MessagesInOrder, SweepComplete, Of
<1>7. ASSUME NEW x, SendFits(x) PROVE SendFits(x)'
  <2>1. FindSent(x)' = FindSent(x)
    BY <1>1 DEF FindSent, Of
  <2> QED BY <1>1, <1>2, <1>7, <2>1 DEF SendFits
<1>8. SendsFit'
  BY <1>0, <1>1, <1>7, SendsRemoved
<1> QED BY <1>3, <1>4, <1>6, <1>8 DEF ChatInv, ChannelsInv

LEMMA DaysPass ==
    ASSUME ChatInv, DayPasses
    PROVE  ChatInv'
<1>0. ChatTypes /\ ChannelsFit /\ SweepFits /\ MessagesInOrder /\ SweepComplete
  BY DEF ChatInv, ChannelsInv, ChannelsSound
<1>1. /\ day' = day + 1 /\ sends' = {} /\ sweep.phase # "RUNNING"
      /\ UNCHANGED <<orders, channels, messages, sweep>>
  BY DEF DayPasses
<1>2. ChatTypes'
  BY <1>0, <1>1 DEF ChatTypes
<1>3. ChannelsFit'
  BY <1>0, <1>1 DEF ChannelsFit, ChatTypes
<1>4. SweepFits'
  BY <1>0, <1>1 DEF SweepFits, ChatTypes, Runs, PastRetention
<1>5. ChannelsSound'
  BY <1>0, <1>1 DEF ChannelsSound, MessagesInOrder, SweepComplete, Of
<1>6. SendsFit'
  BY <1>1 DEF SendsFit, OneWriter
<1> QED BY <1>2, <1>3, <1>4, <1>5, <1>6 DEF ChatInv, ChannelsInv

(* The sweep's own bookkeeping: nothing else changes.                      *)
LEMMA SweepSteps ==
    ASSUME ChatInv, UNCHANGED <<orders, channels, messages, sends, day>>, sweep' \in Runs,
           SweepFits', SweepComplete'
    PROVE  ChatInv'
<1>0. /\ SendsFit /\ \A x \in sends : SendFits(x)
      /\ ChatTypes /\ ChannelsFit /\ MessagesInOrder
  BY DEF ChatInv, SendsFit, ChannelsInv, ChannelsSound
<1>1. ChatTypes' /\ ChannelsFit' /\ MessagesInOrder'
  BY <1>0 DEF ChatTypes, ChannelsFit, MessagesInOrder, Of
<1>2. \A x : SendFits(x)' <=> SendFits(x)
  BY DEF SendFits, FindSent, Of
<1>3. SendsFit'
  BY <1>0, <1>2, SendsRemoved
<1> QED BY <1>1, <1>3 DEF ChatInv, ChannelsInv, ChannelsSound

(* What is due is listed: a channel is older than its errand's end.        *)
LEMMA DueListed ==
    ASSUME ChatTypes, ChannelsFit, NEW today \in Nat, NEW after \in Nat, NEW c \in Channels,
           channels[c].there, PastRetention(orders[c], today), c > after
    PROVE  c \in OpenedBefore(today - RetentionDays, after)
<1>1. RetentionDays \in Nat /\ orders[c].ended \in Nat /\ channels[c].created \in Nat
  BY ChatAssumption DEF ChatTypes
<1>2. channels[c].created <= orders[c].ended /\ today - orders[c].ended > RetentionDays
  BY DEF ChannelsFit, PastRetention
<1>3. channels[c].created < today - RetentionDays
  BY <1>1, <1>2
<1> QED BY <1>3 DEF OpenedBefore

LEMMA SweepBegins ==
    ASSUME ChatInv, SweepStarts
    PROVE  ChatInv'
<1> DEFINE r == [NoRun EXCEPT !.phase = "RUNNING", !.today = day,
                   !.due = {c \in Channels : channels[c].there /\ PastRetention(orders[c], day)}]
<1>0. ChatTypes /\ ChannelsFit
  BY DEF ChatInv, ChannelsInv
<1>1. /\ r \in Runs /\ r.phase = "RUNNING" /\ r.today = day /\ r.after = 0 /\ ~r.skipped /\ ~r.failed
      /\ r.due = {c \in Channels : channels[c].there /\ PastRetention(orders[c], day)} /\ r.doomed = {}
  BY <1>0 DEF NoRun, Runs, ChatTypes
<1>2. sweep' = NextPage(r) /\ UNCHANGED <<orders, channels, messages, sends, day>>
  BY DEF SweepStarts, ChatKept
<1> HIDE DEF r
<1>3. /\ sweep' \in Runs /\ sweep'.phase = "RUNNING" /\ sweep'.today = day /\ sweep'.due = r.due
      /\ \A c \in OpenedBefore(day - RetentionDays, 0) :
             c \in sweep'.page \/ (~sweep'.last /\ c > sweep'.after)
  BY <1>1, <1>2, PageFollows
<1>4. \A c \in r.due : c \in OpenedBefore(day - RetentionDays, 0)
  <2>1. \A c \in Channels : c > 0
    BY DEF Channels
  <2>2. day \in Nat
    BY <1>0 DEF ChatTypes
  <2> QED BY <1>0, <1>1, <2>1, <2>2, DueListed
<1>5. SweepFits'
  <2>1. day \in Nat
    BY <1>0 DEF ChatTypes
  <2>2. \A c \in sweep'.due : PastRetention(orders[c], day) /\ (c \in sweep'.page \/ (~sweep'.last /\ c > sweep'.after))
    BY <1>1, <1>3, <1>4
  <2> QED BY <1>2, <1>3, <2>1, <2>2 DEF SweepFits, PastRetention
<1>6. SweepComplete'
  BY <1>3 DEF SweepComplete
<1> QED BY <1>2, <1>3, <1>5, <1>6, SweepSteps

LEMMA SweepAsks ==
    ASSUME ChatInv, NEW c \in Channels, Settle(c) \/ DeleteFails(c)
    PROVE  ChatInv'
<1>0. ChatTypes /\ SweepFits /\ SweepComplete /\ sweep \in Runs
  BY DEF ChatInv, ChannelsInv, ChannelsSound, ChatTypes
<1>1. UNCHANGED <<orders, channels, messages, sends, day>>
  BY DEF Settle, DeleteFails, ChatKept
<1>2. /\ sweep' \in Runs /\ sweep'.phase = sweep.phase /\ sweep'.today = sweep.today
      /\ sweep'.due = sweep.due /\ sweep'.last = sweep.last /\ sweep'.after = sweep.after
  <2>1. ASSUME NEW p \in SUBSET Channels, NEW d \in SUBSET Channels, NEW k \in BOOLEAN, NEW f \in BOOLEAN,
               sweep' = [sweep EXCEPT !.page = p, !.doomed = d, !.skipped = k, !.failed = f]
        PROVE  /\ sweep' \in Runs /\ sweep'.phase = sweep.phase /\ sweep'.today = sweep.today
               /\ sweep'.due = sweep.due /\ sweep'.last = sweep.last /\ sweep'.after = sweep.after
    BY <1>0, <2>1 DEF Runs
  <2>2. \E p \in SUBSET Channels, d \in SUBSET Channels, k \in BOOLEAN, f \in BOOLEAN :
            sweep' = [sweep EXCEPT !.page = p, !.doomed = d, !.skipped = k, !.failed = f]
    <3>1. CASE sweep' = [sweep EXCEPT !.page = @ \ {c},
                           !.doomed = IF PastRetention(orders[c], sweep.today) THEN @ \cup {c} ELSE @]
      <4>1. PICK d \in SUBSET Channels : d = IF PastRetention(orders[c], sweep.today) THEN sweep.doomed \cup {c} ELSE sweep.doomed
        BY <1>0 DEF Runs
      <4>2. sweep' = [sweep EXCEPT !.page = sweep.page \ {c}, !.doomed = d, !.skipped = sweep.skipped, !.failed = sweep.failed]
        BY <1>0, <3>1, <4>1 DEF Runs
      <4> QED BY <1>0, <4>2 DEF Runs
    <3>2. CASE sweep' = [sweep EXCEPT !.page = @ \ {c}, !.skipped = TRUE]
      <4>1. sweep' = [sweep EXCEPT !.page = sweep.page \ {c}, !.doomed = sweep.doomed, !.skipped = TRUE, !.failed = sweep.failed]
        BY <1>0, <3>2 DEF Runs
      <4> QED BY <1>0, <4>1 DEF Runs
    <3>3. CASE sweep' = [sweep EXCEPT !.doomed = @ \ {c}, !.failed = TRUE]
      <4>1. sweep' = [sweep EXCEPT !.page = sweep.page, !.doomed = sweep.doomed \ {c}, !.skipped = sweep.skipped, !.failed = TRUE]
        BY <1>0, <3>3 DEF Runs
      <4> QED BY <1>0, <4>1 DEF Runs
    <3> QED BY <3>1, <3>2, <3>3 DEF Settle, DeleteFails
  <2> QED BY <2>1, <2>2
<1>3. \/ sweep'.skipped \/ sweep'.failed
      \/ /\ sweep'.page = sweep.page \ {c} /\ sweep'.skipped = sweep.skipped /\ sweep'.failed = sweep.failed
         /\ sweep'.doomed = IF PastRetention(orders[c], sweep.today) THEN sweep.doomed \cup {c} ELSE sweep.doomed
  BY <1>0 DEF Settle, DeleteFails, Runs
<1>4. \/ sweep'.skipped \/ sweep'.failed
      \/ /\ sweep'.skipped = sweep.skipped /\ sweep'.failed = sweep.failed
         /\ \A d \in sweep.due : d \in sweep.page \cup sweep.doomed => d \in sweep'.page \cup sweep'.doomed
  BY <1>0, <1>3 DEF SweepFits
<1>5. SweepFits'
  BY <1>0, <1>1, <1>2, <1>4 DEF SweepFits, PastRetention
<1>6. SweepComplete'
  BY <1>0, <1>1, <1>2, <1>4 DEF SweepComplete
<1> QED BY <1>1, <1>2, <1>5, <1>6, SweepSteps

LEMMA SweepTurns ==
    ASSUME ChatInv, PageSettled
    PROVE  ChatInv'
<1>0. ChatTypes /\ ChannelsFit /\ SweepFits /\ SweepComplete /\ sweep \in Runs
  BY DEF ChatInv, ChannelsInv, ChannelsSound, ChatTypes
<1>1. /\ UNCHANGED <<orders, channels, messages, sends, day>>
      /\ sweep.phase = "RUNNING" /\ sweep.page = {} /\ sweep.doomed = {}
  BY DEF PageSettled, ChatKept
<1>2. CASE sweep.last \/ sweep.failed
  <2>1. sweep' = [sweep EXCEPT !.phase = "ENDED"]
    BY <1>2 DEF PageSettled
  <2>2. /\ sweep' \in Runs /\ sweep'.phase = "ENDED" /\ sweep'.today = sweep.today /\ sweep'.due = sweep.due
        /\ sweep'.skipped = sweep.skipped /\ sweep'.failed = sweep.failed
    BY <1>0, <2>1 DEF Runs
  <2>3. SweepFits'
    BY <1>0, <1>1, <2>2 DEF SweepFits, PastRetention
  <2>4. SweepComplete'
    BY <1>0, <1>1, <1>2, <2>2 DEF SweepComplete, SweepFits
  <2> QED BY <1>1, <2>2, <2>3, <2>4, SweepSteps
<1>3. CASE ~(sweep.last \/ sweep.failed)
  <2>1. sweep' = NextPage(sweep)
    BY <1>3 DEF PageSettled
  <2>2. /\ sweep' \in Runs /\ sweep'.phase = "RUNNING" /\ sweep'.today = sweep.today /\ sweep'.due = sweep.due
        /\ sweep'.skipped = sweep.skipped /\ sweep'.failed = sweep.failed
        /\ \A c \in OpenedBefore(sweep.today - RetentionDays, sweep.after) :
               c \in sweep'.page \/ (~sweep'.last /\ c > sweep'.after)
    BY <1>0, <1>1, <2>1, PageFollows
  <2>3. \A c \in sweep.due : /\ c \in Channels /\ sweep.today \in Nat /\ sweep.after \in Nat
                             /\ PastRetention(orders[c], sweep.today)
    BY <1>0 DEF SweepFits, Runs
  <2>4. ASSUME NEW c \in sweep.due, channels[c].there, ~sweep.skipped
        PROVE  c \in sweep'.page \/ (~sweep'.last /\ c > sweep'.after)
    <3>1. c > sweep.after
      BY <1>0, <1>1, <1>3, <2>4 DEF SweepFits
    <3>2. c \in OpenedBefore(sweep.today - RetentionDays, sweep.after)
      BY <1>0, <2>3, <2>4, <3>1, DueListed
    <3> QED BY <2>2, <3>2
  <2>5. SweepFits'
    BY <1>0, <1>1, <2>2, <2>4 DEF SweepFits, PastRetention
  <2>6. SweepComplete'
    BY <2>2 DEF SweepComplete
  <2> QED BY <1>1, <2>2, <2>5, <2>6, SweepSteps
<1> QED BY <1>2, <1>3

(* DELETE of the channel, which waits for a send that holds its row.       *)
LEMMA SweepDeletes ==
    ASSUME ChatInv, NEW c \in Channels, DeleteChannel(c)
    PROVE  ChatInv'
<1>0. /\ SendsFit /\ \A x \in sends : SendFits(x)
      /\ ChatTypes /\ ChannelsFit /\ SweepFits /\ SweepComplete /\ MessagesInOrder /\ sweep \in Runs
  BY DEF ChatInv, SendsFit, ChannelsInv, ChannelsSound, ChatTypes
<1>1. /\ FreeChannel(c) /\ UNCHANGED <<orders, sends, day>> /\ messages' = messages \ Of(c)
      /\ sweep' = [sweep EXCEPT !.doomed = @ \ {c}]
      /\ channels' = [channels EXCEPT ![c] = [there |-> FALSE, latest |-> 0, created |-> 0]]
  BY DEF DeleteChannel
<1>2. /\ sweep' \in Runs /\ sweep'.phase = sweep.phase /\ sweep'.today = sweep.today
      /\ sweep'.due = sweep.due /\ sweep'.last = sweep.last /\ sweep'.after = sweep.after
      /\ sweep'.skipped = sweep.skipped /\ sweep'.failed = sweep.failed
      /\ sweep'.page = sweep.page /\ sweep'.doomed = sweep.doomed \ {c}
  BY <1>0, <1>1 DEF Runs
<1>3. /\ channels' \in [Channels -> [there : BOOLEAN, latest : Nat, created : Nat]]
      /\ ~channels'[c].there /\ channels'[c].latest = 0
      /\ \A d \in Channels \ {c} : channels'[d] = channels[d]
  BY <1>0, <1>1 DEF ChatTypes
<1>4. ChatTypes'
  BY <1>0, <1>1, <1>2, <1>3 DEF ChatTypes
<1>5. ChannelsFit'
  BY <1>0, <1>1, <1>3 DEF ChannelsFit
<1>6. \A d \in sweep.due : channels'[d].there => d # c /\ channels[d].there
  BY <1>0, <1>3 DEF Runs
<1>7. SweepFits'
  BY <1>0, <1>1, <1>2, <1>6 DEF SweepFits, PastRetention
<1>8. SweepComplete'
  BY <1>0, <1>2, <1>6 DEF SweepComplete
<1>9. Of(c)' = {} /\ \A d : d # c => Of(d)' = Of(d)
  BY <1>1 DEF Of
<1>10. MessagesInOrder'
  <2>1. \A d \in Channels : /\ {m.seq : m \in Of(d)'} = 1 .. channels'[d].latest
                            /\ \A m, n \in Of(d)' : m.seq = n.seq \/ (m.by = n.by /\ m.client = n.client) => m = n
    <3>1. 1 .. 0 = {}
      OBVIOUS
    <3>2. ASSUME NEW d \in Channels \ {c}
          PROVE  /\ {m.seq : m \in Of(d)'} = 1 .. channels'[d].latest
                 /\ \A m, n \in Of(d)' : m.seq = n.seq \/ (m.by = n.by /\ m.client = n.client) => m = n
      BY <1>0, <1>3, <1>9 DEF MessagesInOrder
    <3>3. {m.seq : m \in Of(c)'} = 1 .. channels'[c].latest
      BY <1>3, <1>9, <3>1
    <3> QED BY <1>9, <3>2, <3>3
  <2> QED BY <2>1 DEF MessagesInOrder
<1>11. ASSUME NEW x \in sends PROVE SendFits(x)'
  <2>1. SendFits(x) /\ (x.phase = "CHANNEL" => x.channel # c)
    BY <1>0, <1>1 DEF FreeChannel
  <2>2. x.phase = "CHANNEL" => FindSent(x)' = FindSent(x)
    BY <1>9, <2>1 DEF FindSent
  <2> QED BY <1>1, <1>3, <2>1, <2>2 DEF SendFits
<1>12. SendsFit'
  BY <1>0, <1>1, <1>11, SendsRemoved
<1> QED BY <1>4, <1>5, <1>7, <1>8, <1>10, <1>12 DEF ChatInv, ChannelsInv, ChannelsSound

(* The page's own requests open the channel as a send does.                *)
LEMMA PageOpens ==
    ASSUME ChatInv, UNCHANGED <<orders, messages, sends, day, sweep>>,
           channels' = channels \/ (Granted = "GRANTED" /\ channels' = Opened(Mine))
    PROVE  ChatInv'
<1>0. ChannelsInv /\ SendsFit
  BY DEF ChatInv
<1>1. Mine \in Channels
  BY ChatAssumption DEF Mine, Channels
<1>2. ChannelsInv' /\ \A x : SendFits(x) => SendFits(x)'
  <2>1. CASE channels' = channels
    BY <1>0, <2>1, ChannelsKept
  <2>2. CASE Granted = "GRANTED" /\ channels' = Opened(Mine)
    BY <1>0, <1>1, <2>2, Opening DEF Granted
  <2> QED BY <2>1, <2>2
<1>3. SendsFit'
  BY <1>0, <1>2, SendsRemoved
<1> QED BY <1>2, <1>3 DEF ChatInv

LEMMA ChatStep ==
    ASSUME ChatInv, ChatPageNext
    PROVE  ChatInv'
<1>1. ASSUME ServerNext PROVE ChatInv'
  <2>1. ASSUME NEW c \in Channels, NEW courier \in {Me, Nobody}, NEW ends \in BOOLEAN,
               ErrandChanges(c, courier, ends)
        PROVE  ChatInv'
    BY <2>1, ErrandMoves
  <2>2. ASSUME NEW c \in Channels, NEW by, SendsElsewhere(c, by) PROVE ChatInv'
    <3>1. /\ UNCHANGED <<orders, channels, messages, day, sweep>>
          /\ \E client, awaited, rev : sends' \subseteq sends \cup {NewSend(c, by, client, awaited, rev)}
      BY <2>2 DEF SendsElsewhere
    <3> QED BY <3>1, QuietSends
  <2>3. ASSUME NEW s \in sends, SendAsked(s) \/ LockSender(s) \/ LockChannel(s) \/ LockTimesOut(s)
        PROVE  ChatInv'
    <3>1. UNCHANGED <<orders, channels, messages, day, sweep>>
      BY <2>3 DEF SendAsked, LockSender, LockChannel, LockTimesOut
    <3> QED BY <2>3, <3>1, QuietSends
  <2>4. ASSUME NEW s \in sends, SendChecked(s) PROVE ChatInv'
    BY <2>4, CheckedSends
  <2>5. ASSUME NEW s \in sends, SendStored(s) PROVE ChatInv'
    BY <2>5, StoredSends
  <2>6. ASSUME SecondPasses PROVE ChatInv'
    <3>1. UNCHANGED <<orders, channels, messages, day, sweep>> /\ sends' \subseteq sends
      BY <2>6 DEF SecondPasses
    <3> QED BY <3>1, QuietSends
  <2>7. ASSUME NEW c \in Channels, Settle(c) \/ DeleteFails(c) PROVE ChatInv'
    BY <2>7, SweepAsks
  <2>8. ASSUME NEW c \in Channels, DeleteChannel(c) PROVE ChatInv'
    BY <2>8, SweepDeletes
  <2> QED BY <1>1, <2>1, <2>2, <2>3, <2>4, <2>5, <2>6, <2>7, <2>8, DaysPass, SweepBegins, SweepTurns
          DEF ServerNext
<1>2. ASSUME RefreshSteps PROVE ChatInv'
  <2>1. ASSUME NEW reached \in BOOLEAN, RefreshServed(reached) PROVE ChatInv'
    <3>1. /\ UNCHANGED <<orders, messages, sends, day, sweep>>
          /\ channels' = channels \/ (Granted = "GRANTED" /\ channels' = Opened(Mine))
      BY <2>1 DEF RefreshServed, ServerKept
    <3> QED BY <3>1, PageOpens
  <2>2. ASSUME RefreshArrives \/ ChatTimer \/ RefreshNow \/ ErrandShown PROVE ChatInv'
    <3>1. UNCHANGED <<orders, channels, messages, sends, day, sweep>>
      BY <2>2 DEF RefreshArrives, ChatTimer, RefreshNow, ErrandShown, Restart, chatVars
    <3> QED BY <3>1, PageOpens
  <2> QED BY <1>2, <2>1, <2>2 DEF RefreshSteps
<1>3. ASSUME OutgoingSteps PROVE ChatInv'
  <2>1. ASSUME NEW client, Transmit(client) PROVE ChatInv'
    <3>1. /\ UNCHANGED <<orders, channels, messages, day, sweep>> /\ Mine \in Channels
          /\ sends' \subseteq sends \cup {NewSend(Mine, Me, client, TRUE, chat.rev)}
      BY <2>1, ChatAssumption DEF Transmit, Mine, Channels
    <3> QED BY <3>1, QuietSends
  <2>2. ASSUME NEW s \in sends, SendArrives(s) PROVE ChatInv'
    <3>1. UNCHANGED <<orders, channels, messages, day, sweep>> /\ sends' \subseteq sends
      BY <2>2 DEF SendArrives
    <3> QED BY <3>1, QuietSends
  <2>3. ASSUME NEW s \in sends, SendLost(s) PROVE ChatInv'
    <3>1. /\ UNCHANGED <<orders, channels, messages, day, sweep>>
          /\ sends' \subseteq (sends \ {s}) \cup {[s EXCEPT !.awaited = FALSE]}
      BY <2>3 DEF SendLost
    <3> QED BY <3>1, QuietSends
  <2>4. ASSUME ThrottleEnds PROVE ChatInv'
    <3>1. UNCHANGED <<orders, channels, messages, sends, day, sweep>>
      BY <2>4 DEF ThrottleEnds, chatVars
    <3> QED BY <3>1, PageOpens
  <2> QED BY <1>3, <2>1, <2>2, <2>3, <2>4 DEF OutgoingSteps, SendMessage, RetryMessage
<1>4. ASSUME ReadingSteps PROVE ChatInv'
  <2>1. ASSUME NEW o \in olders, NEW reached \in BOOLEAN, OlderServed(o, reached) PROVE ChatInv'
    <3>1. /\ UNCHANGED <<orders, messages, sends, day, sweep>>
          /\ channels' = channels \/ (Granted = "GRANTED" /\ channels' = Opened(Mine))
      BY <2>1 DEF OlderServed, ServerKept
    <3> QED BY <3>1, PageOpens
  <2>2. ASSUME MarkServed PROVE ChatInv'
    <3>1. /\ UNCHANGED <<orders, messages, sends, day, sweep>>
          /\ channels' = channels \/ (Granted = "GRANTED" /\ channels' = Opened(Mine))
      BY <2>2 DEF MarkServed, ServerKept
    <3> QED BY <3>1, PageOpens
  <2>3. ASSUME Older \/ MarkVisibleRead \/ (\E o \in olders : OlderArrives(o))
               \/ (\E lost \in BOOLEAN : MarkArrives(lost))
        PROVE  ChatInv'
    <3>1. UNCHANGED <<orders, channels, messages, sends, day, sweep>>
      BY <2>3 DEF Older, MarkVisibleRead, OlderArrives, MarkArrives, chatVars
    <3> QED BY <3>1, PageOpens
  <2> QED BY <1>4, <2>1, <2>2, <2>3 DEF ReadingSteps
<1> QED BY <1>1, <1>2, <1>3, <1>4 DEF ChatPageNext

LEMMA ChatStart ==
    ASSUME NEW talk \in Nat, NEW read \in Nat, ChatInit(talk, read)
    PROVE  ChatInv
<1>1. /\ orders = [c \in Channels |-> [version |-> 1, courier |-> Me, ended |-> NotEnded]]
      /\ channels = [c \in Channels |-> [there |-> talk > 0, latest |-> talk, created |-> 1]]
      /\ sends = {} /\ day = 1 /\ sweep = NoRun
  BY DEF ChatInit
<1>2. ChatTypes
  BY <1>1 DEF ChatTypes, Runs, NoRun, NotEnded, ChatInit
<1>3. ChannelsFit
  <2>1. \A c \in Channels : /\ channels[c].there = (talk > 0) /\ channels[c].latest = talk
                            /\ channels[c].created = 1 /\ orders[c].ended = NotEnded
    BY <1>1
  <2>2. ~(talk > 0) => talk = 0
    OBVIOUS
  <2>3. \A c \in Channels : /\ ~channels[c].there => channels[c].latest = 0
                            /\ channels[c].created <= day /\ orders[c].ended <= day
    <3>1. 1 <= 1 /\ 0 <= 1
      OBVIOUS
    <3> QED BY <1>1, <2>1, <2>2, <3>1, Zenon DEF NotEnded
  <2> QED BY <2>1, <2>3, Zenon DEF ChannelsFit
<1>4. SweepFits /\ SweepComplete /\ SendsFit
  BY <1>1 DEF SweepFits, SweepComplete, NoRun, SendsFit, OneWriter
<1>5. MessagesInOrder
  <2> DEFINE Earlier(c, n) == [channel |-> c, seq |-> n, by |-> Other, client |-> <<"EARLIER", n>>, at |-> -Window]
  <2>1. messages = {Earlier(c, n) : c \in Channels, n \in 1 .. talk}
    BY DEF ChatInit
  <2>2. \A c, n : Earlier(c, n).channel = c /\ Earlier(c, n).seq = n
    OBVIOUS
  <2>3. \A c, n, d, k : Earlier(c, n).client = Earlier(d, k).client => n = k
    OBVIOUS
  <2> HIDE DEF Earlier
  <2>4. ASSUME NEW c \in Channels PROVE Of(c) = {Earlier(c, n) : n \in 1 .. talk}
    BY <2>1, <2>2 DEF Of
  <2>5. ASSUME NEW c \in Channels
        PROVE  /\ {m.seq : m \in Of(c)} = 1 .. channels[c].latest
               /\ \A m, n \in Of(c) : m.seq = n.seq \/ (m.by = n.by /\ m.client = n.client) => m = n
    <3>1. channels[c].latest = talk
      BY <1>1
    <3>2. {m.seq : m \in Of(c)} = 1 .. talk
      BY <2>2, <2>4
    <3>3. \A m, n \in Of(c) : m.seq = n.seq \/ (m.by = n.by /\ m.client = n.client) => m = n
      BY <2>2, <2>3, <2>4
    <3> QED BY <3>1, <3>2, <3>3
  <2> QED BY <2>5 DEF MessagesInOrder
<1> QED BY <1>2, <1>3, <1>4, <1>5 DEF ChatInv, ChannelsInv, ChannelsSound

(* The channels, the sends under way and the retention run fit together    *)
(* at all times.                                                           *)
THEOREM ChatInvHolds == Spec => []ChatInv
<1>1. Init => ChatInv
  BY CasesAssumption, ChatStart DEF Init
<1>2. ChatInv /\ [Next]_vars => ChatInv'
  <2>1. ASSUME ChatInv, TalkNext PROVE ChatInv'
    BY <2>1, ChatStep DEF TalkNext
  <2>2. ASSUME ChatInv, UNCHANGED talkVars PROVE ChatInv'
    <3>1. UNCHANGED <<orders, channels, messages, sends, day, sweep>>
      BY <2>2 DEF talkVars, chatVars
    <3> QED BY <2>2, <3>1, PageOpens
  <2>3. [Next]_vars => TalkNext \/ UNCHANGED talkVars
    BY DEF Next, vars, SocketsNext, SuppliersNext, DraftNext, ErrandNext, ListNext, LoginNext, AdminNext,
           DeskPagesNext, PickupNext, TimesNext
  <2> QED BY <2>1, <2>2, <2>3
<1> QED BY <1>1, <1>2, PTL DEF Spec

(* A channel keeps each message once and in order, and a retention run     *)
(* that met no failure leaves nothing that was due, for any number of      *)
(* channels, sends and days.                                               *)
THEOREM ChannelsAreSound == Spec => []ChannelsSound
<1>1. ChatInv => ChannelsSound
  BY DEF ChatInv, ChannelsInv
<1> QED BY <1>1, ChatInvHolds, PTL

-----------------------------------------------------------------------------
(* Suppliers.                                                              *)

(* What the proof needs of a form and of a request: that they have the     *)
(* fields their handlers change.                                           *)
FormFits ==
    /\ {"target", "version", "run", "key", "made", "crossed"} \subseteq DOMAIN form
    /\ form.key \in Nat /\ form.made \in Nat

SaveFields == {"kind", "target", "version", "value", "key", "run", "page", "answer"}

Creates(s) == s.kind = "SAVE" /\ s.target = NewSupplier

(* The keys the page has used and not been told of are the one it holds.   *)
SavesFit ==
    \A s \in saves : /\ SaveFields \subseteq DOMAIN s /\ s.kind \in {"SAVE", "DELETE", "READ"}
                     /\ Creates(s) => s.key \in Nat \ {0} /\ (~form.crossed => s.key \in told \cup {form.key})

KeysFit ==
    /\ \A k \in shopKeys : k.key \in Nat \ {0} /\ (~form.crossed => k.key \in told \cup {form.key})
    /\ \A k, l \in shopKeys : k.key = l.key => k = l

CatalogueInv == FormFits /\ SavesFit /\ KeysFit

LEMMA CatalogueStart ==
    ASSUME CatalogueInit
    PROVE  CatalogueInv
BY DEF CatalogueInit, CatalogueInv, FormFits, SavesFit, KeysFit

(* A request keeps its fields and its key whatever becomes of it.          *)
LEMMA RequestsKept ==
    ASSUME CatalogueInv, told \subseteq told', UNCHANGED form,
           \A s \in saves' : \/ s \in saves
                             \/ \E r \in saves : /\ SaveFields \subseteq DOMAIN s /\ s.key = r.key
                                                 /\ s.target = r.target /\ (s.kind = r.kind \/ s.kind = "READ")
    PROVE  SavesFit'
BY DEF CatalogueInv, SavesFit, Creates

LEMMA ServeKeeps ==
    ASSUME CatalogueInv, NEW s \in saves, Serve(s)
    PROVE  CatalogueInv'
<1>0. /\ FormFits /\ SavesFit /\ KeysFit /\ UNCHANGED <<form, told>> /\ SaveFields \subseteq DOMAIN s
      /\ s.kind \in {"SAVE", "DELETE", "READ"}
  BY DEF CatalogueInv, Serve, SavesFit
<1>1. \E answer, version : Answered(s, answer, version)
  BY <1>0 DEF Serve, Create, Update, Deactivate
<1>2. SavesFit'
  <2>1. PICK answer, version : Answered(s, answer, version)
    BY <1>1
  <2>2. SaveFields \subseteq DOMAIN [s EXCEPT !.answer = answer, !.version = version]
    BY <1>0
  <2>3. /\ [s EXCEPT !.answer = answer, !.version = version].key = s.key
        /\ [s EXCEPT !.answer = answer, !.version = version].target = s.target
        /\ [s EXCEPT !.answer = answer, !.version = version].kind = s.kind
    BY <1>0 DEF SaveFields
  <2>4. \A x \in saves' : x \in saves \/ x = [s EXCEPT !.answer = answer, !.version = version]
    BY <2>1 DEF Answered
  <2> QED BY <1>0, <2>2, <2>3, <2>4, RequestsKept
<1>3. KeysFit'
  <2>1. CASE UNCHANGED shopKeys
    BY <1>0, <2>1 DEF KeysFit
  <2>2. CASE shopKeys' # shopKeys
    <3>1. Creates(s) /\ {k \in shopKeys : k.key = s.key} = {}
          /\ \E id, v : shopKeys' = shopKeys \cup {[key |-> s.key, id |-> id, value |-> v]}
      BY <1>0, <2>2 DEF Serve, Create, Update, Deactivate, Creates
    <3>2. s.key \in Nat \ {0} /\ (~form.crossed => s.key \in told \cup {form.key})
      BY <1>0, <3>1 DEF SavesFit
    <3> QED BY <1>0, <3>1, <3>2 DEF KeysFit
  <2> QED BY <2>1, <2>2
<1>4. FormFits'
  BY <1>0 DEF FormFits
<1> QED BY <1>2, <1>3, <1>4 DEF CatalogueInv

(* Opening and closing forms leaves the key alone.                         *)
LEMMA FormsMove ==
    ASSUME CatalogueInv, UNCHANGED <<shopKeys, saves, told>>,
           DOMAIN form' = DOMAIN form, form'.key = form.key, form'.made = form.made, form'.crossed = form.crossed
    PROVE  CatalogueInv'
BY DEF CatalogueInv, FormFits, SavesFit, KeysFit

LEMMA SaveKeeps ==
    ASSUME CatalogueInv, NEW v, Save(v)
    PROVE  CatalogueInv'
<1> DEFINE adding == form.target = NewSupplier
           key == CASE ~adding -> 0 [] adding /\ form.key # 0 -> form.key [] OTHER -> form.made + 1
           new == [kind |-> "SAVE", target |-> form.target, version |-> form.version, value |-> v,
                   key |-> key, run |-> form.run, page |-> "WAITING", answer |-> "NONE"]
<1>0. FormFits /\ SavesFit /\ KeysFit /\ UNCHANGED <<shopKeys, told>>
  BY DEF CatalogueInv, Save
<1>1. /\ form' = IF adding /\ form.key = 0 THEN [form EXCEPT !.key = key, !.made = key] ELSE form
      /\ saves' = saves \cup {new}
  BY DEF Save, Sent
<1>2. adding => key \in Nat \ {0}
  BY <1>0 DEF FormFits
<1>3. /\ SaveFields \subseteq DOMAIN new /\ new.kind = "SAVE" /\ new.target = form.target /\ new.key = key
  BY DEF SaveFields
<1> HIDE DEF key, new
<1>4. CASE adding /\ form.key = 0
  <2>1. DOMAIN form' = DOMAIN form /\ form'.key = key /\ form'.made = key /\ form'.crossed = form.crossed
    BY <1>0, <1>1, <1>4 DEF FormFits
  <2>2. FormFits'
    BY <1>0, <1>2, <1>4, <2>1 DEF FormFits
  <2>3. SavesFit'
    BY <1>0, <1>1, <1>2, <1>3, <1>4, <2>1 DEF SavesFit, Creates
  <2>4. KeysFit'
    BY <1>0, <1>4, <2>1 DEF KeysFit
  <2> QED BY <2>2, <2>3, <2>4 DEF CatalogueInv
<1>5. CASE ~(adding /\ form.key = 0)
  <2>1. form' = form /\ (adding => key = form.key)
    BY <1>1, <1>5 DEF key
  <2>2. SavesFit'
    BY <1>0, <1>1, <1>2, <1>3, <2>1 DEF SavesFit, Creates
  <2>3. FormFits' /\ KeysFit'
    BY <1>0, <2>1 DEF FormFits, KeysFit
  <2> QED BY <2>2, <2>3 DEF CatalogueInv
<1> QED BY <1>4, <1>5

(* An answer: the key it is about is now known, and a key in use that it   *)
(* drops was either that one or is noted in crossed.                       *)
LEMMA AnswerForm ==
    ASSUME FormFits, NEW s
    PROVE  /\ DOMAIN AfterAnswer(s) = DOMAIN form /\ AfterAnswer(s).made = form.made
           /\ \/ AfterAnswer(s).key = form.key /\ AfterAnswer(s).crossed = form.crossed
              \/ /\ s.answer \in {"SAVED", "REUSED"}
                 /\ AfterAnswer(s).key = 0 /\ AfterAnswer(s).crossed = (form.crossed \/ form.key \notin {0, s.key})
           /\ AfterAnswer(s).target = form.target \/ (AfterAnswer(s).target = NoForm /\ OwnForm(s))
<1> DEFINE kept == IF s.kind = "SAVE" /\ s.target = NewSupplier /\ s.answer \in {"SAVED", "REUSED"}
                   THEN Unkeyed(form, s) ELSE form
<1>1. /\ DOMAIN Unkeyed(form, s) = DOMAIN form /\ Unkeyed(form, s).made = form.made
      /\ Unkeyed(form, s).key = 0 /\ Unkeyed(form, s).crossed = (form.crossed \/ form.key \notin {0, s.key})
      /\ Unkeyed(form, s).target = form.target
  BY DEF FormFits, Unkeyed
<1>2. /\ DOMAIN kept = DOMAIN form /\ kept.made = form.made /\ kept.target = form.target
      /\ \/ kept.key = form.key /\ kept.crossed = form.crossed
         \/ /\ s.answer \in {"SAVED", "REUSED"}
            /\ kept.key = 0 /\ kept.crossed = (form.crossed \/ form.key \notin {0, s.key})
  BY <1>1
<1>3. /\ DOMAIN Closed(kept) = DOMAIN kept /\ Closed(kept).made = kept.made /\ Closed(kept).key = kept.key
      /\ Closed(kept).crossed = kept.crossed /\ Closed(kept).target = NoForm
  <2> HIDE DEF kept
  <2> QED BY <1>2 DEF Closed, FormFits
<1>4. /\ DOMAIN [form EXCEPT !.version = s.version] = DOMAIN form
      /\ [form EXCEPT !.version = s.version].made = form.made
      /\ [form EXCEPT !.version = s.version].key = form.key
      /\ [form EXCEPT !.version = s.version].crossed = form.crossed
      /\ [form EXCEPT !.version = s.version].target = form.target
  BY DEF FormFits
<1>5. \/ AfterAnswer(s) = Closed(kept) /\ OwnForm(s)
      \/ AfterAnswer(s) = [form EXCEPT !.version = s.version]
      \/ AfterAnswer(s) = kept
  BY DEF AfterAnswer
<1> HIDE DEF kept
<1> QED BY <1>2, <1>3, <1>4, <1>5

LEMMA ReceiveKeeps ==
    ASSUME CatalogueInv, NEW s \in saves, Receive(s)
    PROVE  CatalogueInv'
<1>0. /\ FormFits /\ SavesFit /\ KeysFit /\ UNCHANGED shopKeys /\ SaveFields \subseteq DOMAIN s
      /\ form' = AfterAnswer(s)
  BY DEF CatalogueInv, Receive, SavesFit
<1>1. /\ told' = IF s.answer \in {"SAVED", "REUSED"} THEN told \cup {s.key} ELSE told
  BY DEF Receive
<1>2. FormFits'
  BY <1>0, AnswerForm DEF FormFits
<1>3. \A key \in Nat \ {0} : (~form.crossed => key \in told \cup {form.key})
                              => (~form'.crossed => key \in told' \cup {form'.key})
  BY <1>0, <1>1, AnswerForm
<1>4. KeysFit'
  BY <1>0, <1>3 DEF KeysFit
<1>5. SavesFit'
  <2> DEFINE t == [s EXCEPT !.kind = "READ", !.answer = "NONE"]
  <2>1. SaveFields \subseteq DOMAIN t /\ t.kind = "READ"
    BY <1>0 DEF SaveFields
  <2>2. saves' \subseteq saves \cup {t}
    BY DEF Receive
  <2> HIDE DEF t
  <2> QED BY <1>0, <1>3, <2>1, <2>2 DEF SavesFit, Creates
<1> QED BY <1>2, <1>4, <1>5 DEF CatalogueInv

LEMMA LoseKeeps ==
    ASSUME CatalogueInv, NEW s \in saves, Lose(s)
    PROVE  CatalogueInv'
<1> DEFINE t == [s EXCEPT !.page = "LOST"]
<1>0. FormFits /\ SavesFit /\ KeysFit /\ UNCHANGED <<form, told, shopKeys>> /\ SaveFields \subseteq DOMAIN s
  BY DEF CatalogueInv, Lose, SavesFit
<1>1. SaveFields \subseteq DOMAIN t /\ t.key = s.key /\ t.target = s.target /\ t.kind = s.kind
  BY <1>0 DEF SaveFields
<1>2. saves' \subseteq saves \cup {t}
  BY DEF Lose
<1> HIDE DEF t
<1>3. SavesFit'
  BY <1>0, <1>1, <1>2 DEF SavesFit, Creates
<1>4. FormFits' /\ KeysFit'
  BY <1>0 DEF FormFits, KeysFit
<1> QED BY <1>3, <1>4 DEF CatalogueInv

LEMMA CatalogueStep ==
    ASSUME CatalogueInv, CatalogueNext \/ ElsewhereChanged(1) \/ UNCHANGED catalogueVars
    PROVE  CatalogueInv'
<1>0. FormFits
  BY DEF CatalogueInv
<1>1. ASSUME \/ LoadList \/ (\E id : ElsewhereChanged(id)) \/ UNCHANGED catalogueVars
      PROVE  CatalogueInv'
  <2>1. UNCHANGED <<shopKeys, saves, told, form>>
    BY <1>1 DEF LoadList, ElsewhereChanged, catalogueVars
  <2> QED BY <2>1, FormsMove
<1>2. ASSUME CancelForm \/ (\E id : OpenForm(id)) PROVE CatalogueInv'
  <2>1. UNCHANGED <<shopKeys, saves, told>>
    BY <1>2 DEF CancelForm, OpenForm
  <2>2. CASE form' = Closed(form)
    <3>1. DOMAIN form' = DOMAIN form /\ form'.key = form.key /\ form'.made = form.made /\ form'.crossed = form.crossed
      BY <1>0, <2>2 DEF Closed, FormFits
    <3> QED BY <2>1, <3>1, FormsMove
  <2>3. CASE \E t, r, v : form' = [form EXCEPT !.target = t, !.run = r, !.version = v]
    <3>1. DOMAIN form' = DOMAIN form /\ form'.key = form.key /\ form'.made = form.made /\ form'.crossed = form.crossed
      BY <1>0, <2>3 DEF FormFits
    <3> QED BY <2>1, <3>1, FormsMove
  <2> QED BY <1>2, <2>2, <2>3 DEF CancelForm, Cancelled, OpenForm
<1>3. ASSUME NEW id, RemoveSupplier(id) PROVE CatalogueInv'
  <2> DEFINE new == [kind |-> "DELETE", target |-> id, version |-> listing[id], value |-> Blank, key |-> 0,
                     run |-> form.run, page |-> "WAITING", answer |-> "NONE"]
  <2>1. saves' = saves \cup {new} /\ UNCHANGED <<shopKeys, told, form>>
    BY <1>3 DEF RemoveSupplier, Sent
  <2>2. SaveFields \subseteq DOMAIN new /\ new.kind = "DELETE"
    BY DEF SaveFields
  <2> HIDE DEF new
  <2> QED BY <2>1, <2>2 DEF CatalogueInv, FormFits, SavesFit, KeysFit, Creates
<1> QED BY <1>1, <1>2, <1>3, SaveKeeps, ServeKeeps, ReceiveKeeps, LoseKeeps DEF CatalogueNext

(* At most one supplier was created that the page has not been told of.    *)
LEMMA OnlyOneUntold ==
    ASSUME CatalogueInv
    PROVE  SuppliersOnce
<1> SUFFICES ASSUME ~form.crossed PROVE Cardinality({k \in shopKeys : k.key \notin told}) <= 1
  BY DEF SuppliersOnce
<1> DEFINE untold == {k \in shopKeys : k.key \notin told}
<1>1. \A k, l \in untold : k = l
  BY DEF CatalogueInv, KeysFit
<1> HIDE DEF untold
<1>2. CASE untold = {}
  BY <1>2, FS_EmptySet DEF untold
<1>3. CASE untold # {}
  <2>1. PICK k : untold = {k}
    BY <1>1, <1>3
  <2> QED BY <2>1, FS_Singleton DEF untold
<1> QED BY <1>2, <1>3

(* A late answer closes only the form it was sent from.                    *)
FormsKeptStep ==
    \A s \in saves \ saves' :
        s.page = "WAITING" /\ s.answer # "NONE" /\ form.target # NoForm /\ form'.target = NoForm
        => s.run = form.run

LEMMA FormsKeptByStep ==
    ASSUME CatalogueInv, CatalogueNext
    PROVE  FormsKeptStep
<1>1. CASE LoadList \/ CancelForm \/ (\E id \in Ids : ElsewhereChanged(id) \/ OpenForm(id)) \/ OpenForm(NewSupplier)
  BY <1>1 DEF FormsKeptStep, LoadList, CancelForm, ElsewhereChanged, OpenForm
<1>2. CASE (\E id \in Ids : RemoveSupplier(id)) \/ (\E v \in Values : Save(v))
  BY <1>2 DEF FormsKeptStep, RemoveSupplier, Save, Sent
<1>3. CASE \E s \in saves : Serve(s) \/ Lose(s)
  <2>1. UNCHANGED form
    BY <1>3 DEF Serve, Lose
  <2> QED BY <2>1 DEF FormsKeptStep
<1>4. ASSUME NEW s \in saves, Receive(s) PROVE FormsKeptStep
  <2>1. saves \ saves' \subseteq {s} /\ form' = AfterAnswer(s)
    BY <1>4 DEF Receive
  <2>2. form'.target = form.target \/ OwnForm(s)
    BY <2>1, AnswerForm DEF CatalogueInv
  <2> QED BY <2>1, <2>2 DEF FormsKeptStep, OwnForm
<1> QED BY <1>1, <1>2, <1>3, <1>4 DEF CatalogueNext

-----------------------------------------------------------------------------
(* Errands posted from a draft.                                            *)

DraftFits ==
    /\ {"value", "key", "sent", "base", "stage", "last"} \subseteq DOMAIN draft
    /\ draft.stage \in {"POSTED", "REUSED"} => draft.key \in posted
    /\ draft.stage = "POSTED" => \E e \in errands : e.key = draft.key /\ e.value = draft.value
    /\ draft.stage = "REPOSTING" => \E e \in errands : e.key = draft.key /\ e.value # draft.value
    /\ draft.stage = "ALREADY" => \E e \in errands : e.key = draft.last /\ e.value # draft.value

(* A request is the draft's while the page waits for it, and what it was   *)
(* answered is so.                                                         *)
PostFits(p) ==
    /\ {"key", "value", "step", "awaited", "answer"} \subseteq DOMAIN p
    /\ p.answer \in {"NONE", "CREATED", "REUSED", "INVALID_SUPPLIER", "UNAVAILABLE"}
    /\ p.key \in posted \cup {draft.key}
    /\ p.answer = "CREATED" => \E e \in errands : e.key = p.key /\ e.value = p.value
    /\ p.answer = "REUSED" => \E e \in errands : e.key = p.key /\ e.value # p.value
    /\ p.awaited => /\ p.key = draft.key /\ draft.stage \in {"POSTING", "REPOSTING"}
                    /\ draft.stage = "POSTING" => p.value = draft.value

OneAwaited == \A p, q \in posts : p.awaited /\ q.awaited => p = q

PostsFit == (\A p \in posts : PostFits(p)) /\ OneAwaited

ErrandsFit ==
    /\ \A e \in errands : /\ e = [key |-> e.key, value |-> e.value]
                          /\ e.key \in posted \cup {draft.key}
    /\ \A e, f \in errands : e.key = f.key => e = f

ComposerInv == DraftFits /\ PostsFit /\ ErrandsFit

LEMMA ComposerStart ==
    ASSUME ComposerInit
    PROVE  ComposerInv
BY DEF ComposerInit, ComposerInv, DraftFits, PostsFit, OneAwaited, ErrandsFit

(* The service takes a request one step further.                           *)
LEMMA PostServed ==
    ASSUME ComposerInv, UNCHANGED <<draft, posted>>, errands \subseteq errands', ErrandsFit',
           NEW p \in posts, NEW t, posts' \subseteq (posts \ {p}) \cup {t},
           {"key", "value", "step", "awaited", "answer"} \subseteq DOMAIN t,
           t.key = p.key, t.value = p.value, t.awaited = p.awaited,
           t.answer \in {"NONE", "CREATED", "REUSED", "INVALID_SUPPLIER", "UNAVAILABLE"},
           t.answer = "CREATED" => \E e \in errands' : e.key = p.key /\ e.value = p.value,
           t.answer = "REUSED" => \E e \in errands' : e.key = p.key /\ e.value # p.value
    PROVE  ComposerInv'
<1>0. DraftFits /\ PostsFit
  BY DEF ComposerInv
<1>1. DraftFits'
  BY <1>0 DEF DraftFits
<1>2. \A x \in posts' : x = t \/ (x \in posts /\ x # p)
  OBVIOUS
<1>3. ASSUME NEW x \in posts' PROVE PostFits(x)'
  <2>1. CASE x = t
    <3>1. PostFits(p)
      BY <1>0 DEF PostsFit
    <3> QED BY <2>1, <3>1 DEF PostFits
  <2>2. CASE x \in posts
    <3>1. PostFits(x)
      BY <1>0, <2>2 DEF PostsFit
    <3> QED BY <3>1 DEF PostFits
  <2> QED BY <1>2, <2>1, <2>2
<1>4. OneAwaited'
  BY <1>0, <1>2 DEF PostsFit, OneAwaited
<1>5. PostsFit'
  BY <1>3, <1>4 DEF PostsFit
<1> QED BY <1>1, <1>5 DEF ComposerInv

(* A request keeps what it asks for.                                       *)
LEMMA PostKept ==
    ASSUME ComposerInv, NEW p \in posts, NEW v
    PROVE  /\ DOMAIN [p EXCEPT !.answer = v] = DOMAIN p /\ [p EXCEPT !.answer = v].key = p.key
           /\ [p EXCEPT !.answer = v].value = p.value /\ [p EXCEPT !.answer = v].awaited = p.awaited
           /\ [p EXCEPT !.answer = v].answer = v
           /\ DOMAIN [p EXCEPT !.step = v] = DOMAIN p /\ [p EXCEPT !.step = v].key = p.key
           /\ [p EXCEPT !.step = v].value = p.value /\ [p EXCEPT !.step = v].awaited = p.awaited
           /\ [p EXCEPT !.step = v].answer = p.answer
           /\ {"key", "value", "step", "awaited", "answer"} \subseteq DOMAIN p
<1>1. {"key", "value", "step", "awaited", "answer"} \subseteq DOMAIN p
  BY DEF ComposerInv, PostsFit, PostFits
<1> QED BY <1>1

LEMMA ServiceKeeps ==
    ASSUME ComposerInv, NEW p \in posts,
           FindIdempotent(p) \/ GetActive(p) \/ SupplierUnavailable(p) \/ CreatePending(p)
    PROVE  ComposerInv'
<1>0. DraftFits /\ PostsFit /\ ErrandsFit /\ UNCHANGED <<draft, posted>> /\ p.answer = "NONE"
  BY DEF ComposerInv, FindIdempotent, GetActive, SupplierUnavailable, CreatePending
<1>1. ASSUME NEW answer \in {"CREATED", "REUSED", "INVALID_SUPPLIER", "UNAVAILABLE"}, Replied(p, answer),
             errands \subseteq errands', ErrandsFit',
             answer = "CREATED" => \E e \in errands' : e.key = p.key /\ e.value = p.value,
             answer = "REUSED" => \E e \in errands' : e.key = p.key /\ e.value # p.value
      PROVE  ComposerInv'
  <2> DEFINE t == [p EXCEPT !.answer = answer]
  <2>1. posts' \subseteq (posts \ {p}) \cup {t}
    BY <1>1 DEF Replied
  <2>2. /\ {"key", "value", "step", "awaited", "answer"} \subseteq DOMAIN t /\ t.key = p.key
        /\ t.value = p.value /\ t.awaited = p.awaited /\ t.answer = answer
    BY PostKept
  <2> HIDE DEF t
  <2> QED BY <1>0, <1>1, <2>1, <2>2, PostServed
<1>2. ASSUME NEW step, Progressed(p, step), UNCHANGED errands PROVE ComposerInv'
  <2> DEFINE t == [p EXCEPT !.step = step]
  <2>1. posts' \subseteq (posts \ {p}) \cup {t}
    BY <1>2 DEF Progressed
  <2>2. /\ {"key", "value", "step", "awaited", "answer"} \subseteq DOMAIN t /\ t.key = p.key
        /\ t.value = p.value /\ t.awaited = p.awaited /\ t.answer = "NONE"
    BY <1>0, PostKept
  <2>3. ErrandsFit'
    BY <1>0, <1>2 DEF ErrandsFit
  <2> HIDE DEF t
  <2> QED BY <1>0, <1>2, <2>1, <2>2, <2>3, PostServed
<1>3. ASSUME Replay(p), Recorded(p) # {}, UNCHANGED errands PROVE ComposerInv'
  <2>1. ErrandsFit'
    BY <1>0, <1>3 DEF ErrandsFit
  <2>2. CASE \E e \in Recorded(p) : SameBody(e, p)
    <3>1. \E e \in errands' : e.key = p.key /\ e.value = p.value
      BY <1>3, <2>2 DEF Recorded, SameBody
    <3> QED BY <1>1, <1>3, <2>1, <2>2, <3>1 DEF Replay
  <2>3. CASE ~\E e \in Recorded(p) : SameBody(e, p)
    <3>1. \E e \in errands' : e.key = p.key /\ e.value # p.value
      BY <1>3, <2>3 DEF Recorded, SameBody
    <3> QED BY <1>1, <1>3, <2>1, <2>3, <3>1 DEF Replay
  <2> QED BY <2>2, <2>3
<1>4. CASE FindIdempotent(p)
  BY <1>2, <1>3, <1>4 DEF FindIdempotent
<1>5. CASE GetActive(p) \/ SupplierUnavailable(p)
  <2>1. UNCHANGED errands /\ ErrandsFit'
    BY <1>0, <1>5 DEF GetActive, SupplierUnavailable, ErrandsFit
  <2>2. \/ \E step : Progressed(p, step)
        \/ Replied(p, "INVALID_SUPPLIER") \/ Replied(p, "UNAVAILABLE")
    BY <1>5 DEF GetActive, SupplierUnavailable
  <2>3. CASE \E step : Progressed(p, step)
    BY <1>2, <2>1, <2>3
  <2>4. CASE Replied(p, "INVALID_SUPPLIER")
    BY <1>1, <2>1, <2>4
  <2>5. CASE Replied(p, "UNAVAILABLE")
    BY <1>1, <2>1, <2>5
  <2> QED BY <2>2, <2>3, <2>4, <2>5
<1>6. CASE CreatePending(p)
  <2>1. CASE Recorded(p) # {}
    BY <1>3, <1>6, <2>1 DEF CreatePending
  <2>2. CASE Recorded(p) = {}
    <3> DEFINE new == [key |-> p.key, value |-> p.value]
    <3>1. errands' = errands \cup {new} /\ Replied(p, "CREATED")
      BY <1>6, <2>2 DEF CreatePending
    <3>2. p.key \in posted \cup {draft.key} /\ \A e \in errands : e.key # p.key
      BY <1>0, <2>2 DEF PostsFit, PostFits, Recorded
    <3>3. new.key = p.key /\ new.value = p.value /\ new = [key |-> new.key, value |-> new.value]
      OBVIOUS
    <3> HIDE DEF new
    <3>4. ErrandsFit'
      BY <1>0, <3>1, <3>2, <3>3 DEF ErrandsFit
    <3> QED BY <1>1, <3>1, <3>3, <3>4
  <2> QED BY <2>1, <2>2
<1> QED BY <1>4, <1>5, <1>6

(* The page moves the draft on: what it no longer waits for stays as it    *)
(* is.                                                                     *)
LEMMA DraftMoves ==
    ASSUME ComposerInv, UNCHANGED errands, posted \subseteq posted', DraftFits',
           draft'.key = draft.key \/ draft.key \in posted',
           \A x \in posts' : (x \in posts /\ ~x.awaited) \/ PostFits(x)', OneAwaited'
    PROVE  ComposerInv'
<1>0. PostsFit /\ ErrandsFit
  BY DEF ComposerInv
<1>1. ASSUME NEW x \in posts' PROVE PostFits(x)'
  <2>1. CASE x \in posts /\ ~x.awaited
    <3>1. PostFits(x)
      BY <1>0, <2>1 DEF PostsFit
    <3> QED BY <2>1, <3>1 DEF PostFits
  <2> QED BY <2>1
<1>2. ErrandsFit'
  BY <1>0 DEF ErrandsFit
<1> QED BY <1>1, <1>2 DEF ComposerInv, PostsFit

(* The request the page waits for is given up, or there is none.           *)
LEMMA Abandoned ==
    ASSUME ComposerInv, UNCHANGED <<errands, posted>>, draft'.key = draft.key, DraftFits',
           NEW p \in posts, p.awaited, posts' = GivenUp(p)
    PROVE  ComposerInv'
<1> DEFINE t == [p EXCEPT !.awaited = FALSE]
<1>1. PostFits(p) /\ OneAwaited
  BY DEF ComposerInv, PostsFit
<1>2. {"key", "value", "step", "awaited", "answer"} \subseteq DOMAIN p
  BY <1>1 DEF PostFits
<1>3. /\ {"key", "value", "step", "awaited", "answer"} \subseteq DOMAIN t /\ t.key = p.key /\ t.value = p.value
      /\ t.answer = p.answer /\ t.awaited = FALSE
  BY <1>2
<1>4. \A x \in posts' : (x \in posts /\ ~x.awaited) \/ x = t
  BY <1>1 DEF GivenUp, OneAwaited
<1> HIDE DEF t
<1>5. PostFits(t)'
  BY <1>1, <1>3 DEF PostFits
<1>6. OneAwaited'
  BY <1>3, <1>4 DEF OneAwaited
<1> QED BY <1>4, <1>5, <1>6, DraftMoves

LEMMA Waiting ==
    ASSUME ComposerInv, draft.stage \notin {"POSTING", "REPOSTING"}
    PROVE  \A p \in posts : ~p.awaited
BY DEF ComposerInv, PostsFit, PostFits

LEMMA SubmitKeeps ==
    ASSUME ComposerInv, Submit
    PROVE  ComposerInv'
<1>n. PICK new : new = [key |-> draft.key, value |-> draft.value, step |-> "SENT", awaited |-> TRUE, answer |-> "NONE"]
  OBVIOUS
<1>0. DraftFits /\ draft.stage = "EDITING" /\ UNCHANGED <<errands, posted>> /\ posts' = posts \cup {new}
  BY <1>n DEF ComposerInv, Submit, Post
<1>1. \E b, v : draft' = [draft EXCEPT !.stage = "POSTING", !.base = b, !.sent = v]
  BY DEF Submit
<1>2. /\ DOMAIN draft' = DOMAIN draft /\ draft'.stage = "POSTING" /\ draft'.key = draft.key
      /\ draft'.value = draft.value
  BY <1>0, <1>1 DEF DraftFits
<1>3. DraftFits'
  BY <1>0, <1>2 DEF DraftFits
<1>4. PostFits(new)'
  BY <1>2, <1>n DEF PostFits
<1>5. \A x \in posts' : (x \in posts /\ ~x.awaited) \/ x = new
  BY <1>0, Waiting
<1>6. OneAwaited'
  BY <1>5 DEF OneAwaited
<1> QED BY <1>0, <1>2, <1>3, <1>4, <1>5, <1>6, DraftMoves

(* Steps of the page while it waits for nothing.                           *)
LEMMA IdleKeeps ==
    ASSUME ComposerInv, StartOver \/ NewRequest \/ \E v : Edit(v)
    PROVE  ComposerInv'
<1>0. /\ DraftFits /\ draft.stage \notin {"POSTING", "REPOSTING"} /\ UNCHANGED <<posts, errands, posted>>
  BY DEF ComposerInv, StartOver, NewRequest, Edit
<1>1. /\ DOMAIN RestartDraft(draft) = DOMAIN draft
      /\ DOMAIN [RestartDraft(draft) EXCEPT !.stage = "EDITING"] = DOMAIN draft
      /\ [RestartDraft(draft) EXCEPT !.stage = "EDITING"].stage = "EDITING"
  BY <1>0 DEF RestartDraft, DraftFits
<1>2. /\ DOMAIN draft' = DOMAIN draft /\ draft'.stage = "EDITING"
      /\ draft'.key = draft.key \/ draft.key \in posted
  <2>1. ASSUME draft' = [RestartDraft(draft) EXCEPT !.stage = "EDITING"], draft.stage \in {"POSTED", "REUSED"}
        PROVE  DOMAIN draft' = DOMAIN draft /\ draft'.stage = "EDITING" /\ draft.key \in posted
    BY <1>0, <1>1, <2>1 DEF DraftFits
  <2>2. ASSUME draft' = [draft EXCEPT !.stage = "EDITING"]
        PROVE  DOMAIN draft' = DOMAIN draft /\ draft'.stage = "EDITING" /\ draft'.key = draft.key
    BY <1>0, <2>2 DEF DraftFits
  <2>3. ASSUME NEW v, draft' = [draft EXCEPT !.value = v, !.stage = "EDITING"]
        PROVE  DOMAIN draft' = DOMAIN draft /\ draft'.stage = "EDITING" /\ draft'.key = draft.key
    BY <1>0, <2>3 DEF DraftFits
  <2> QED BY <2>1, <2>2, <2>3 DEF StartOver, NewRequest, Edit
<1>3. DraftFits'
  BY <1>0, <1>2 DEF DraftFits
<1>4. OneAwaited'
  BY <1>0, Waiting DEF OneAwaited
<1> QED BY <1>0, <1>2, <1>3, <1>4, Waiting, DraftMoves

LEMMA GivingUpKeeps ==
    ASSUME ComposerInv, NEW p \in posts, PostLost(p) \/ ReloadPage(p)
    PROVE  ComposerInv'
<1>0. DraftFits /\ p.awaited /\ UNCHANGED <<errands, posted>> /\ posts' = GivenUp(p)
  BY DEF ComposerInv, PostLost, ReloadPage
<1>1. DOMAIN draft' = DOMAIN draft /\ draft'.stage = "EDITING" /\ draft'.key = draft.key
  <2>1. ASSUME draft' = Failed(draft, "RETRY")
        PROVE  DOMAIN draft' = DOMAIN draft /\ draft'.stage = "EDITING" /\ draft'.key = draft.key
    <3>1. draft' = [draft EXCEPT !.stage = "EDITING", !.sent = draft.sent]
      BY <2>1 DEF Failed
    <3> QED BY <1>0, <3>1 DEF DraftFits
  <2>2. ASSUME draft' = [draft EXCEPT !.stage = "EDITING"]
        PROVE  DOMAIN draft' = DOMAIN draft /\ draft'.stage = "EDITING" /\ draft'.key = draft.key
    BY <1>0, <2>2 DEF DraftFits
  <2> QED BY <2>1, <2>2 DEF PostLost, ReloadPage
<1>2. DraftFits'
  BY <1>0, <1>1 DEF DraftFits
<1> QED BY <1>0, <1>1, <1>2, Abandoned

(* What an answer makes of the draft.                                      *)
LEMMA DraftOutcomes ==
    ASSUME DraftFits, NEW p, draft.stage \in {"POSTING", "REPOSTING"},
           p.answer \in {"CREATED", "REUSED", "INVALID_SUPPLIER", "UNAVAILABLE"}
    PROVE  /\ DOMAIN Outcome(p) = DOMAIN draft /\ Outcome(p).value = draft.value
           /\ \/ /\ p.answer = "CREATED" /\ draft.stage = "POSTING"
                 /\ Outcome(p).stage = "POSTED" /\ Outcome(p).key = draft.key
              \/ /\ p.answer = "CREATED" /\ draft.stage = "REPOSTING"
                 /\ Outcome(p).stage = "ALREADY" /\ Outcome(p).last = draft.key
              \/ /\ p.answer = "REUSED" /\ draft.stage = "POSTING"
                 /\ Outcome(p).stage = "REPOSTING" /\ Outcome(p).key = draft.key
              \/ /\ p.answer = "REUSED" /\ draft.stage = "REPOSTING"
                 /\ Outcome(p).stage = "REUSED" /\ Outcome(p).key = draft.key
              \/ p.answer # "CREATED" /\ Outcome(p).stage = "EDITING" /\ Outcome(p).key = draft.key
<1>1. ASSUME NEW st
      PROVE  /\ DOMAIN [draft EXCEPT !.stage = st] = DOMAIN draft /\ [draft EXCEPT !.stage = st].value = draft.value
             /\ [draft EXCEPT !.stage = st].stage = st /\ [draft EXCEPT !.stage = st].key = draft.key
  BY DEF DraftFits
<1>2. LET d == [RestartDraft(draft) EXCEPT !.stage = "ALREADY"]
      IN  /\ DOMAIN d = DOMAIN draft /\ d.value = draft.value /\ d.stage = "ALREADY" /\ d.last = draft.key
  BY DEF DraftFits, RestartDraft
<1>3. ASSUME NEW why \in {"REUSED", "REFUSED", "RETRY"}
      PROVE  /\ DOMAIN Failed(draft, why) = DOMAIN draft /\ Failed(draft, why).value = draft.value
             /\ Failed(draft, why).stage = IF why = "REUSED" THEN "REUSED" ELSE "EDITING"
             /\ Failed(draft, why).key = draft.key
  <2>1. PICK st, v : /\ st = IF why = "REUSED" THEN "REUSED" ELSE "EDITING"
                     /\ v = IF why = "RETRY" THEN draft.sent ELSE draft.base
    OBVIOUS
  <2>2. Failed(draft, why) = [draft EXCEPT !.stage = st, !.sent = v]
    BY <2>1 DEF Failed
  <2>3. /\ DOMAIN [draft EXCEPT !.stage = st, !.sent = v] = DOMAIN draft
        /\ [draft EXCEPT !.stage = st, !.sent = v].value = draft.value
        /\ [draft EXCEPT !.stage = st, !.sent = v].stage = st
        /\ [draft EXCEPT !.stage = st, !.sent = v].key = draft.key
    BY DEF DraftFits
  <2> QED BY <2>1, <2>2, <2>3
<1>4. \/ p.answer = "CREATED" /\ draft.stage = "POSTING" /\ Outcome(p) = [draft EXCEPT !.stage = "POSTED"]
      \/ p.answer = "CREATED" /\ draft.stage = "REPOSTING" /\ Outcome(p) = [RestartDraft(draft) EXCEPT !.stage = "ALREADY"]
      \/ p.answer = "REUSED" /\ draft.stage = "POSTING" /\ Outcome(p) = [draft EXCEPT !.stage = "REPOSTING"]
      \/ p.answer = "REUSED" /\ draft.stage = "REPOSTING" /\ Outcome(p) = Failed(draft, "REUSED")
      \/ p.answer = "INVALID_SUPPLIER" /\ Outcome(p) = Failed(draft, "REFUSED")
      \/ p.answer = "UNAVAILABLE" /\ Outcome(p) = Failed(draft, "RETRY")
  BY DEF Outcome
<1>6. CASE p.answer = "CREATED" /\ draft.stage = "POSTING"
  BY <1>1, <1>4, <1>6
<1>7. CASE p.answer = "CREATED" /\ draft.stage = "REPOSTING"
  BY <1>2, <1>4, <1>7
<1>8. CASE p.answer = "REUSED" /\ draft.stage = "POSTING"
  BY <1>1, <1>4, <1>8
<1>9. CASE p.answer = "REUSED" /\ draft.stage = "REPOSTING"
  BY <1>3, <1>4, <1>9
<1>10. CASE p.answer \in {"INVALID_SUPPLIER", "UNAVAILABLE"}
  BY <1>3, <1>4, <1>10
<1> QED BY <1>6, <1>7, <1>8, <1>9, <1>10

LEMMA AnswerKeeps ==
    ASSUME ComposerInv, NEW p \in posts, Answer(p)
    PROVE  ComposerInv'
<1>0. /\ DraftFits /\ PostFits(p) /\ OneAwaited /\ p.awaited /\ p.answer # "NONE" /\ UNCHANGED errands
      /\ draft' = Outcome(p)
      /\ posted' = IF p.answer = "CREATED" \/ draft'.stage = "REUSED" THEN posted \cup {p.key} ELSE posted
  BY DEF ComposerInv, PostsFit, Answer
<1>1. /\ {"key", "value", "step", "awaited", "answer"} \subseteq DOMAIN p /\ p.key = draft.key
      /\ draft.stage \in {"POSTING", "REPOSTING"} /\ (draft.stage = "POSTING" => p.value = draft.value)
      /\ p.answer \in {"CREATED", "REUSED", "INVALID_SUPPLIER", "UNAVAILABLE"}
  BY <1>0 DEF PostFits
<1>2. /\ DOMAIN draft' = DOMAIN draft /\ draft'.value = draft.value
      /\ \/ /\ p.answer = "CREATED" /\ draft.stage = "POSTING"
            /\ draft'.stage = "POSTED" /\ draft'.key = draft.key
         \/ /\ p.answer = "CREATED" /\ draft.stage = "REPOSTING"
            /\ draft'.stage = "ALREADY" /\ draft'.last = draft.key
         \/ /\ p.answer = "REUSED" /\ draft.stage = "POSTING"
            /\ draft'.stage = "REPOSTING" /\ draft'.key = draft.key
         \/ /\ p.answer = "REUSED" /\ draft.stage = "REPOSTING"
            /\ draft'.stage = "REUSED" /\ draft'.key = draft.key
         \/ p.answer # "CREATED" /\ draft'.stage = "EDITING" /\ draft'.key = draft.key
  BY <1>0, <1>1, DraftOutcomes
<1>3. posted \subseteq posted' /\ (draft'.key = draft.key \/ draft.key \in posted')
  BY <1>0, <1>1, <1>2
<1>4. DraftFits'
  <2>1. draft'.stage \in {"POSTED", "REUSED"} => draft'.key \in posted'
    BY <1>0, <1>1, <1>2
  <2>2. draft'.stage = "POSTED" => \E e \in errands' : e.key = draft'.key /\ e.value = draft'.value
    BY <1>0, <1>1, <1>2 DEF PostFits
  <2>3. draft'.stage = "REPOSTING" => \E e \in errands' : e.key = draft'.key /\ e.value # draft'.value
    BY <1>0, <1>1, <1>2 DEF PostFits
  <2>4. draft'.stage = "ALREADY" => \E e \in errands' : e.key = draft'.last /\ e.value # draft'.value
    BY <1>0, <1>1, <1>2 DEF DraftFits
  <2> QED BY <1>0, <1>2, <2>1, <2>2, <2>3, <2>4 DEF DraftFits
<1>5. PICK t : t = [p EXCEPT !.value = draft.sent, !.step = "SENT", !.answer = "NONE"]
  OBVIOUS
<1>6. /\ {"key", "value", "step", "awaited", "answer"} \subseteq DOMAIN t /\ t.key = p.key /\ t.answer = "NONE"
  BY <1>1, <1>5
<1>7. \A x \in posts' : (x \in posts /\ ~x.awaited) \/ (x = t /\ draft'.stage = "REPOSTING")
  BY <1>0, <1>5 DEF Answer, OneAwaited
<1>8. draft'.stage = "REPOSTING" => PostFits(t)'
  BY <1>1, <1>2, <1>6 DEF PostFits
<1>9. OneAwaited'
  BY <1>7 DEF OneAwaited
<1> QED BY <1>0, <1>3, <1>4, <1>7, <1>8, <1>9, DraftMoves

LEMMA ComposerStep ==
    ASSUME ComposerInv, ComposerNext \/ UNCHANGED composerVars
    PROVE  ComposerInv'
<1>1. CASE UNCHANGED composerVars
  BY <1>1 DEF composerVars, ComposerInv, DraftFits, PostsFit, PostFits, OneAwaited, ErrandsFit
<1>2. CASE ComposerNext
  BY <1>2, SubmitKeeps, IdleKeeps, ServiceKeeps, AnswerKeeps, GivingUpKeeps DEF ComposerNext
<1> QED BY <1>1, <1>2

LEMMA PostedOnce ==
    ASSUME ComposerInv
    PROVE  ErrandsOnce /\ PostedAsShown
<1>0. DraftFits /\ ErrandsFit
  BY DEF ComposerInv
<1> DEFINE untold == {e \in errands : e.key \notin posted}
<1>1. \A e, f \in untold : e = f
  BY <1>0 DEF ErrandsFit
<1>2. Cardinality(untold) <= 1
  <2> HIDE DEF untold
  <2>1. CASE untold = {}
    BY <2>1, FS_EmptySet
  <2>2. CASE untold # {}
    <3>1. PICK e : untold = {e}
      BY <1>1, <2>2
    <3> QED BY <3>1, FS_Singleton
  <2> QED BY <2>1, <2>2
<1>3. ErrandsOnce
  BY <1>0, <1>2 DEF ErrandsOnce, ErrandsFit
<1>4. PostedAsShown
  BY <1>0 DEF PostedAsShown, DraftFits, ErrandsFit
<1> QED BY <1>3, <1>4

-----------------------------------------------------------------------------
(* Commands on an errand.                                                  *)

Actor == IF viewer = "REQUESTER" THEN "REQUESTER" ELSE "ASSIGNED_COURIER"

(* No version is ahead of the errand's.                                    *)
Versioned(o) == "version" \in DOMAIN o /\ o.version \in Nat /\ o.version <= errand.version

PageFits ==
    /\ errand.version \in Nat
    /\ Versioned(page) /\ Versioned(reading) /\ Versioned(dialog)

CommandFields == {"action", "version", "key", "awaited", "answer", "got"}

(* A command that was refused as stale cannot be applied any more: the     *)
(* errand has moved on, or will have when anything is applied.             *)
CommandFits(c) ==
    /\ CommandFields \subseteq DOMAIN c
    /\ Versioned(c) /\ Versioned(c.got) /\ c.key = <<c.action, c.version, 0>>
    /\ c.answer = "STALE" =>
          /\ c.key \notin cmdKeys
          /\ c.version = errand.version => {r \in OrderTransitions : /\ r.from = errand.status /\ r.action = c.action
                                                                     /\ r.actor = Actor} = {}

CommandsFit ==
    /\ \A c \in commands : CommandFits(c)
    /\ \A k \in cmdKeys : k = <<k[1], k[2], 0>>

CommandInv == PageFits /\ CommandsFit

(* The page's helpers, and what they do to the version on screen.          *)
LEMMA PageHelpers ==
    ASSUME NEW p, "version" \in DOMAIN p, p.version \in Nat
    PROVE  /\ DOMAIN Woken(p) = DOMAIN p /\ Woken(p).version = p.version
           /\ DOMAIN Paced(p) = DOMAIN p /\ Paced(p).version = p.version
           /\ \A t : DOMAIN [p EXCEPT !.timer = t] = DOMAIN p /\ [p EXCEPT !.timer = t].version = p.version
           /\ \A t, i : DOMAIN [p EXCEPT !.timer = t, !.idle = i] = DOMAIN p
                        /\ [p EXCEPT !.timer = t, !.idle = i].version = p.version
           /\ \A b : DOMAIN [p EXCEPT !.problem = b] = DOMAIN p /\ [p EXCEPT !.problem = b].version = p.version
           /\ \A b, i : DOMAIN [p EXCEPT !.problem = b, !.idle = i] = DOMAIN p
                        /\ [p EXCEPT !.problem = b, !.idle = i].version = p.version
<1>1. /\ \A t : DOMAIN [p EXCEPT !.timer = t] = DOMAIN p /\ [p EXCEPT !.timer = t].version = p.version
  OBVIOUS
<1>2. \A t, i : DOMAIN [p EXCEPT !.timer = t, !.idle = i] = DOMAIN p
                /\ [p EXCEPT !.timer = t, !.idle = i].version = p.version
  OBVIOUS
<1>3. DOMAIN Woken(p) = DOMAIN p /\ Woken(p).version = p.version
  BY DEF Woken
<1>4. \E t, i : Paced(p) = [p EXCEPT !.timer = t, !.idle = i]
  BY DEF Paced
<1>5. \A b : DOMAIN [p EXCEPT !.problem = b] = DOMAIN p /\ [p EXCEPT !.problem = b].version = p.version
  OBVIOUS
<1>6. \A b, i : DOMAIN [p EXCEPT !.problem = b, !.idle = i] = DOMAIN p
                /\ [p EXCEPT !.problem = b, !.idle = i].version = p.version
  OBVIOUS
<1> QED BY <1>1, <1>2, <1>3, <1>4, <1>5, <1>6

LEMMA ShowHelps ==
    ASSUME NEW p, "version" \in DOMAIN p, p.version \in Nat, NEW o, o.version \in Nat
    PROVE  /\ DOMAIN Show(p, o) = DOMAIN p
           /\ Show(p, o).version \in {p.version, o.version} /\ Show(p, o).version >= p.version
<1>1. CASE ~Newer(p, o)
  BY <1>1 DEF Show
<1>2. CASE Newer(p, o)
  <2>1. PICK s, f, d : Show(p, o) = [p EXCEPT !.version = o.version, !.status = s, !.fresh = f, !.due = d]
    BY <1>2 DEF Show
  <2>2. o.version >= p.version
    BY <1>2 DEF Newer
  <2> QED BY <2>1, <2>2
<1> QED BY <1>1, <1>2

(* Whatever the page reads or shows, commands and errand stay.             *)
LEMMA ScreenMoves ==
    ASSUME CommandInv, UNCHANGED <<errand, viewer, commands, cmdKeys>>,
           Versioned(page'), Versioned(reading'), Versioned(dialog')
    PROVE  CommandInv'
<1>1. \A c : CommandFits(c) => CommandFits(c)'
  BY DEF CommandFits, Versioned, Actor
<1>2. PageFits'
  BY DEF CommandInv, PageFits, Versioned
<1>3. CommandsFit'
  BY <1>1 DEF CommandInv, CommandsFit
<1> QED BY <1>2, <1>3 DEF CommandInv

(* The errand moves on; what is recorded beside it is a command that could *)
(* be applied.                                                             *)
LEMMA ErrandMovesOn ==
    ASSUME CommandInv, UNCHANGED <<viewer, page, reading, dialog>>, NEW rule \in OrderTransitions, MoveBy(rule),
           \/ cmdKeys' = cmdKeys
           \/ cmdKeys' = cmdKeys \cup {<<rule.action, errand.version, 0>>} /\ rule.actor = Actor,
           \A x \in commands' : x \in commands \/ CommandFits(x)'
    PROVE  CommandInv'
<1>0. PageFits /\ CommandsFit /\ errand'.version = errand.version + 1 /\ rule.from = errand.status
  BY DEF CommandInv, MoveBy
<1>1. errand.version \in Nat
  BY <1>0 DEF PageFits
<1>2. \A o : Versioned(o) => Versioned(o)' /\ o.version < errand'.version
  BY <1>0, <1>1 DEF Versioned
<1>3. PageFits'
  BY <1>0, <1>1, <1>2 DEF PageFits, Versioned
<1>4. ASSUME NEW c \in commands PROVE CommandFits(c)'
  <2>1. CommandFits(c) /\ c.version < errand'.version /\ Versioned(c)' /\ Versioned(c.got)'
    BY <1>0, <1>2 DEF CommandsFit, CommandFits
  <2>2. ASSUME c.answer = "STALE" PROVE c.key \notin cmdKeys'
    <3>1. c.key \notin cmdKeys /\ c.key = <<c.action, c.version, 0>>
      BY <2>1, <2>2 DEF CommandFits
    <3>2. ASSUME c.key \in cmdKeys' PROVE FALSE
      <4>1. c.key = <<rule.action, errand.version, 0>> /\ rule.actor = Actor
        BY <3>1, <3>2
      <4>2. c.action = rule.action /\ c.version = errand.version
        BY <3>1, <4>1
      <4>3. {r \in OrderTransitions : r.from = errand.status /\ r.action = c.action /\ r.actor = Actor} = {}
        BY <2>1, <2>2, <4>2 DEF CommandFits
      <4> HIDE DEF OrderTransitions
      <4> QED BY <1>0, <4>1, <4>2, <4>3
    <3> QED BY <3>1, <3>2
  <2>3. c.version \in Nat /\ c.version # errand'.version
    BY <1>0, <1>1, <2>1 DEF CommandFits, Versioned
  <2> QED BY <2>1, <2>2, <2>3 DEF CommandFits
<1>5. \A k \in cmdKeys' : k = <<k[1], k[2], 0>>
  BY <1>0 DEF CommandsFit
<1>6. CommandsFit'
  BY <1>4, <1>5 DEF CommandsFit
<1> QED BY <1>3, <1>6 DEF CommandInv

(* The service answers a command.                                          *)
LEMMA CommandReplied ==
    ASSUME CommandInv, NEW c \in commands, NEW answer, NEW row, CommandAnswered(c, answer, row),
           row.version \in Nat, row.version <= errand'.version, errand'.version \in Nat,
           errand.version <= errand'.version,
           answer = "STALE" =>
               /\ c.key \notin cmdKeys'
               /\ c.version = errand'.version =>
                    {r \in OrderTransitions : r.from = errand'.status /\ r.action = c.action /\ r.actor = Actor'} = {}
    PROVE  \A x \in commands' : x \in commands \/ CommandFits(x)'
<1> DEFINE g == [phase |-> "SERVED", version |-> row.version, status |-> row.status]
           t == [c EXCEPT !.answer = answer, !.got = g]
<1>1. CommandFits(c)
  BY DEF CommandInv, CommandsFit
<1>2. CommandFields \subseteq DOMAIN c /\ c.version \in Nat /\ c.version <= errand.version
      /\ c.key = <<c.action, c.version, 0>> /\ errand.version \in Nat
  BY <1>1 DEF CommandFits, Versioned, CommandInv, PageFits
<1>3. "version" \in DOMAIN g /\ g.version = row.version
  OBVIOUS
<1> HIDE DEF g
<1>4. /\ CommandFields \subseteq DOMAIN t /\ t.action = c.action /\ t.version = c.version /\ t.key = c.key
      /\ t.answer = answer /\ t.got = g /\ "version" \in DOMAIN t
  BY <1>2 DEF CommandFields
<1>5. \A x \in commands' : x \in commands \/ x = t
  BY DEF CommandAnswered, g
<1> HIDE DEF t
<1>6. CommandFits(t)'
  BY <1>2, <1>3, <1>4 DEF CommandFits, Versioned
<1> QED BY <1>5, <1>6

LEMMA ServedKeeps ==
    ASSUME CommandInv, NEW c \in commands, CommandServed(c)
    PROVE  CommandInv'
<1> DEFINE rules == {r \in OrderTransitions : /\ r.from = errand.status /\ r.action = c.action
                                              /\ r.actor = Actor /\ c.version = errand.version}
<1>0. /\ CommandFits(c) /\ UNCHANGED <<viewer, page, reading, dialog>> /\ errand.version \in Nat
      /\ Versioned(page) /\ Versioned(reading) /\ Versioned(dialog)
  BY DEF CommandInv, CommandsFit, PageFits, CommandServed
<1>1. \/ /\ c.key \in cmdKeys /\ CommandAnswered(c, "DONE", errand) /\ UNCHANGED <<errand, cmdKeys>>
      \/ /\ c.key \notin cmdKeys /\ rules = {} /\ CommandAnswered(c, "STALE", errand) /\ UNCHANGED <<errand, cmdKeys>>
      \/ /\ c.key \notin cmdKeys /\ \E r \in rules : MoveBy(r)
         /\ CommandAnswered(c, "DONE", errand') /\ cmdKeys' = cmdKeys \cup {c.key}
  BY DEF CommandServed, Actor
<1>2. ASSUME NEW answer \in {"DONE", "STALE"}, CommandAnswered(c, answer, errand), UNCHANGED <<errand, cmdKeys>>,
             answer = "STALE" => c.key \notin cmdKeys /\ rules = {}
      PROVE  CommandInv'
  <2>1. Actor' = Actor
    BY <1>0 DEF Actor
  <2>2. answer = "STALE" /\ c.version = errand.version =>
           {r \in OrderTransitions : r.from = errand.status /\ r.action = c.action /\ r.actor = Actor} = {}
    BY <1>2
  <2>3. \A x \in commands' : x \in commands \/ CommandFits(x)'
    BY <1>0, <1>2, <2>1, <2>2, CommandReplied
  <2>4. \A x : CommandFits(x) => CommandFits(x)'
    BY <1>0, <1>2, <2>1 DEF CommandFits, Versioned
  <2>5. CommandsFit'
    BY <1>2, <2>3, <2>4 DEF CommandInv, CommandsFit
  <2>6. PageFits'
    BY <1>0, <1>2 DEF PageFits, Versioned
  <2> QED BY <2>5, <2>6 DEF CommandInv
<1>3. ASSUME NEW r \in rules, MoveBy(r), CommandAnswered(c, "DONE", errand'), cmdKeys' = cmdKeys \cup {c.key}
      PROVE  CommandInv'
  <2>1. r \in OrderTransitions /\ r.action = c.action /\ r.actor = Actor /\ c.version = errand.version
    OBVIOUS
  <2>2. errand'.version = errand.version + 1
    BY <1>3 DEF MoveBy
  <2>3. \A x \in commands' : x \in commands \/ CommandFits(x)'
    BY <1>0, <1>3, <2>2, CommandReplied
  <2>4. c.key = <<r.action, errand.version, 0>>
    BY <1>0, <2>1 DEF CommandFits
  <2> HIDE DEF rules
  <2> QED BY <1>0, <1>3, <2>1, <2>3, <2>4, ErrandMovesOn
<1> HIDE DEF rules
<1> QED BY <1>1, <1>2, <1>3

LEMMA PageStart ==
    ASSUME NEW status, NEW role, NEW opened, PageInit(status, role, opened)
    PROVE  CommandInv
<1>1. errand.version = 1 /\ commands = {} /\ cmdKeys = {} /\ dialog = NoDialog
      /\ reading \in {NotReading, NewRead}
      /\ page = [version |-> 0, status |-> "NONE", fresh |-> TRUE, due |-> "NONE", timer |-> "NONE",
                 idle |-> FALSE, problem |-> FALSE]
  BY DEF PageInit
<1> QED BY <1>1 DEF CommandInv, PageFits, CommandsFit, Versioned, NoDialog, NotReading, NewRead

(* readNow shows nothing by itself.                                        *)
LEMMA ReadNowKeeps ==
    ASSUME NEW p, Versioned(p), ReadNow(p), PageFits
    PROVE  Versioned(page') /\ Versioned(reading') /\ page'.version = p.version
<1>1. page' = [p EXCEPT !.timer = "NONE"] /\ reading' \in {NewRead, NotReading}
  BY DEF ReadNow
<1>2. Versioned(page') /\ page'.version = p.version
  BY <1>1, PageHelpers DEF Versioned
<1>3. Versioned(reading')
  BY <1>1 DEF Versioned, NewRead, NotReading, PageFits
<1> QED BY <1>2, <1>3

(* What one of the page's steps may do to what is on screen.               *)
Screen ==
    /\ UNCHANGED <<errand, viewer, commands, cmdKeys>>
    /\ Versioned(page') /\ Versioned(reading') /\ Versioned(dialog')
    /\ page'.version >= page.version

LEMMA StreamScreens ==
    ASSUME CommandInv, StreamSteps
    PROVE  Screen
<1>0. /\ PageFits /\ Versioned(page) /\ Versioned(reading) /\ Versioned(dialog)
      /\ page.version \in Nat /\ "version" \in DOMAIN page
  BY DEF CommandInv, PageFits, Versioned
<1>1. ASSUME UNCHANGED <<errand, viewer, commands, cmdKeys, page, reading, dialog>> PROVE Screen
  BY <1>0, <1>1 DEF Screen, Versioned
<1>2. CASE FrameArrives
  <2>1. UNCHANGED <<errand, viewer, commands, cmdKeys, dialog>>
    BY <1>2 DEF FrameArrives, PageOnly
  <2>2. CASE UNCHANGED <<page, reading>>
    BY <1>1, <2>1, <2>2
  <2>3. CASE ReadNow(Woken(page))
    <3>1. Versioned(Woken(page)) /\ Woken(page).version = page.version
      BY <1>0, PageHelpers DEF Versioned
    <3>2. Versioned(page') /\ Versioned(reading') /\ page'.version = page.version
      BY <1>0, <2>3, <3>1, ReadNowKeeps
    <3> QED BY <1>0, <2>1, <3>2 DEF Screen, Versioned
  <2> QED BY <1>2, <2>2, <2>3 DEF FrameArrives
<1>3. CASE ~FrameArrives
  <2>1. UNCHANGED <<errand, viewer, commands, cmdKeys, page, reading, dialog>>
    BY <1>3 DEF StreamSteps, StreamConnects, StreamRefused, StreamBreaks, LifetimeEnds, StreamOver, RetryConnect,
                BoardInterval, ChangeDropped, Changed, StreamOnly
  <2> QED BY <1>1, <2>1
<1> QED BY <1>2, <1>3

LEMMA ReadScreens ==
    ASSUME CommandInv, ReadSteps
    PROVE  Screen
<1>0. /\ PageFits /\ Versioned(page) /\ Versioned(reading) /\ Versioned(dialog)
      /\ page.version \in Nat /\ "version" \in DOMAIN page /\ errand.version \in Nat
      /\ reading.version \in Nat /\ reading.version <= errand.version /\ page.version <= errand.version
  BY DEF CommandInv, PageFits, Versioned
<1>1. UNCHANGED <<errand, viewer, commands, cmdKeys, dialog>>
  BY DEF ReadSteps, ReadServed, ReadArrives, PollTimer, GoesQuiet, DeadlinePasses, Hide, Return, Online, ReadFails,
         PageOnly
<1>2. ASSUME Versioned(page'), Versioned(reading'), page'.version >= page.version PROVE Screen
  BY <1>0, <1>1, <1>2 DEF Screen, Versioned
<1>3. Versioned(NewRead) /\ Versioned(NotReading)
  BY <1>0 DEF Versioned, NewRead, NotReading
<1>4. Versioned(Woken(page)) /\ Woken(page).version = page.version
  BY <1>0, PageHelpers DEF Versioned
<1>5. ASSUME NEW p, Versioned(p), p.version >= page.version, ReadNow(p) PROVE Screen
  BY <1>0, <1>2, <1>5, ReadNowKeeps
<1>6. CASE ReadServed
  <2>1. UNCHANGED page /\ reading' = [phase |-> "SERVED", version |-> errand.version, status |-> errand.status]
    BY <1>6 DEF ReadServed
  <2>2. Versioned(reading')
    BY <1>0, <2>1 DEF Versioned
  <2> QED BY <1>0, <1>2, <2>1, <2>2 DEF Versioned
<1>7. CASE ReadArrives
  <2> DEFINE shown == Show(page, reading)
             p == [shown EXCEPT !.problem = FALSE]
  <2>1. DOMAIN shown = DOMAIN page /\ shown.version \in {page.version, reading.version} /\ shown.version >= page.version
    BY <1>0, ShowHelps
  <2>2. "version" \in DOMAIN shown /\ shown.version \in Nat /\ shown.version <= errand.version
    BY <1>0, <2>1
  <2>3. DOMAIN p = DOMAIN shown /\ p.version = shown.version
    <3> HIDE DEF shown
    <3> QED BY <2>2, PageHelpers
  <2>4. page' = (IF reading.status \in Final THEN [p EXCEPT !.timer = "NONE", !.idle = FALSE] ELSE Paced(p))
        /\ reading' = NotReading
    BY <1>7 DEF ReadArrives
  <2> HIDE DEF p, shown
  <2>5. DOMAIN page' = DOMAIN p /\ page'.version = p.version
    BY <2>2, <2>3, <2>4, PageHelpers
  <2>6. Versioned(page') /\ page'.version >= page.version
    BY <2>1, <2>2, <2>3, <2>5 DEF Versioned
  <2> QED BY <1>2, <1>3, <2>4, <2>6
<1>8. ASSUME NEW stops \in BOOLEAN, ReadFails(stops) PROVE Screen
  <2> DEFINE p == IF stops THEN [page EXCEPT !.timer = "NONE"] ELSE Paced(page)
  <2>1. DOMAIN p = DOMAIN page /\ p.version = page.version
    BY <1>0, PageHelpers
  <2>2. page' = [p EXCEPT !.problem = TRUE, !.idle = FALSE] /\ reading' = NotReading
    BY <1>8 DEF ReadFails
  <2> HIDE DEF p
  <2>3. DOMAIN page' = DOMAIN p /\ page'.version = p.version
    BY <1>0, <2>1, <2>2, PageHelpers
  <2>4. Versioned(page') /\ page'.version >= page.version
    BY <1>0, <2>1, <2>3 DEF Versioned
  <2> QED BY <1>2, <1>3, <2>2, <2>4
<1>9. CASE PollTimer \/ Online
  <2>1. ReadNow(page) \/ ReadNow(Woken(page))
    BY <1>9 DEF PollTimer, Online
  <2> QED BY <1>0, <1>4, <1>5, <2>1
<1>10. CASE GoesQuiet \/ DeadlinePasses
  <2>1. UNCHANGED reading /\ (page' = [page EXCEPT !.fresh = FALSE] \/ page' = [page EXCEPT !.due = "PASSED", !.fresh = TRUE])
    BY <1>10 DEF GoesQuiet, DeadlinePasses
  <2>2. "version" \in DOMAIN page' /\ page'.version = page.version
    BY <1>0, <2>1
  <2> QED BY <1>0, <1>2, <2>1, <2>2 DEF Versioned
<1>11. CASE Hide
  BY <1>0, <1>2, <1>11 DEF Hide, Versioned
<1>12. CASE Return
  <2>1. page' = [Woken(page) EXCEPT !.timer = "NONE"] /\ reading' \in {NewRead, NotReading}
    BY <1>12 DEF Return
  <2>2. DOMAIN page' = DOMAIN Woken(page) /\ page'.version = page.version
    BY <1>4, <2>1, PageHelpers DEF Versioned
  <2>3. Versioned(page') /\ page'.version >= page.version
    BY <1>0, <1>4, <2>2 DEF Versioned
  <2> QED BY <1>2, <1>3, <2>1, <2>3
<1> QED BY <1>6, <1>7, <1>8, <1>9, <1>10, <1>11, <1>12 DEF ReadSteps

(* The dialog and what the page makes of answers.                          *)
LEMMA DialogKeeps ==
    ASSUME CommandInv, CloseDialog \/ Confirm \/ (\E action : Ask(action))
    PROVE  CommandInv' /\ UNCHANGED page
<1>0. /\ PageFits /\ CommandsFit /\ Versioned(page) /\ Versioned(reading) /\ Versioned(dialog)
      /\ errand.version \in Nat /\ page.version \in Nat /\ page.version <= errand.version
  BY DEF CommandInv, PageFits, Versioned
<1>1. UNCHANGED <<errand, viewer, cmdKeys, page, reading>>
  BY DEF CloseDialog, Confirm, Ask, DialogOnly
<1>2. Versioned(NoDialog)
  BY <1>0 DEF Versioned, NoDialog
<1>3. CASE CloseDialog
  <2>1. dialog' = NoDialog /\ UNCHANGED commands
    BY <1>3 DEF CloseDialog
  <2> QED BY <1>0, <1>1, <1>2, <2>1, ScreenMoves
<1>4. ASSUME NEW action, Ask(action) PROVE CommandInv'
  <2>1. dialog' = [NoDialog EXCEPT !.action = action, !.version = page.version] /\ UNCHANGED commands
    BY <1>4 DEF Ask
  <2>2. "version" \in DOMAIN dialog' /\ dialog'.version = page.version
    BY <2>1 DEF NoDialog
  <2>3. Versioned(dialog')
    BY <1>0, <2>2 DEF Versioned
  <2> QED BY <1>0, <1>1, <2>1, <2>3, ScreenMoves
<1>5. CASE Confirm
  <2>1. PICK new : new = [action |-> dialog.action, version |-> dialog.version, key |-> KeyOf(dialog),
                          awaited |-> TRUE, answer |-> "NONE", got |-> NotReading]
    OBVIOUS
  <2>2. commands' = commands \cup {new} /\ dialog' = [dialog EXCEPT !.busy = TRUE, !.tries = dialog.tries + 1]
    BY <1>5, <2>1 DEF Confirm
  <2>3. Versioned(dialog')
    BY <1>0, <2>2 DEF Versioned
  <2>4. Versioned(NotReading)
    BY <1>0 DEF Versioned, NotReading
  <2>5. /\ CommandFields \subseteq DOMAIN new /\ new.version = dialog.version /\ new.action = dialog.action
        /\ new.got = NotReading /\ new.answer = "NONE" /\ new.key = <<new.action, new.version, 0>>
        /\ "version" \in DOMAIN new
    BY <2>1 DEF CommandFields, KeyOf
  <2>6. CommandFits(new)'
    BY <1>0, <1>1, <2>4, <2>5 DEF CommandFits, Versioned
  <2>7. \A x : CommandFits(x) => CommandFits(x)'
    BY <1>1 DEF CommandFits, Versioned, Actor
  <2>8. CommandsFit'
    BY <1>0, <1>1, <2>2, <2>6, <2>7 DEF CommandsFit
  <2>9. PageFits'
    BY <1>0, <1>1, <2>3 DEF PageFits, Versioned
  <2> QED BY <1>1, <2>8, <2>9 DEF CommandInv
<1> QED BY <1>1, <1>3, <1>4, <1>5

(* Commands leave, or are no longer waited for.                            *)
LEMMA CommandsLeave ==
    ASSUME CommandInv, UNCHANGED <<errand, viewer, cmdKeys>>,
           Versioned(page'), Versioned(reading'), Versioned(dialog'),
           \A x \in commands' : x \in commands \/ \E c \in commands : x = [c EXCEPT !.awaited = FALSE]
    PROVE  CommandInv'
<1>1. \A x : CommandFits(x) => CommandFits(x)'
  BY DEF CommandFits, Versioned, Actor
<1>2. ASSUME NEW c \in commands PROVE CommandFits([c EXCEPT !.awaited = FALSE])
  <2> DEFINE t == [c EXCEPT !.awaited = FALSE]
  <2>1. CommandFits(c)
    BY DEF CommandInv, CommandsFit
  <2>2. /\ DOMAIN t = DOMAIN c /\ t.action = c.action /\ t.version = c.version /\ t.key = c.key
        /\ t.answer = c.answer /\ t.got = c.got
    BY <2>1 DEF CommandFits, CommandFields
  <2> HIDE DEF t
  <2>3. CommandFits(t)
    BY <2>1, <2>2 DEF CommandFits, Versioned
  <2> QED BY <2>3 DEF t
<1>3. CommandsFit'
  BY <1>1, <1>2 DEF CommandInv, CommandsFit
<1>4. PageFits'
  BY DEF CommandInv, PageFits, Versioned
<1> QED BY <1>3, <1>4 DEF CommandInv

LEMMA ArrivalKeeps ==
    ASSUME CommandInv, NEW c \in commands, CommandArrives(c)
    PROVE  CommandInv' /\ page'.version >= page.version
<1>0. /\ PageFits /\ Versioned(page) /\ page.version \in Nat /\ "version" \in DOMAIN page
      /\ errand.version \in Nat /\ page.version <= errand.version
      /\ c.got.version \in Nat /\ c.got.version <= errand.version
  BY DEF CommandInv, PageFits, Versioned, CommandsFit, CommandFits
<1>1. UNCHANGED <<errand, viewer, cmdKeys>> /\ commands' = commands \ {c} /\ dialog' = NoDialog
  BY DEF CommandArrives
<1>2. Versioned(NoDialog) /\ Versioned(NotReading)
  BY <1>0 DEF Versioned, NoDialog, NotReading
<1>3. Versioned(page') /\ Versioned(reading') /\ page'.version >= page.version
  <2>1. CASE UNCHANGED page /\ reading' = NotReading
    BY <1>0, <1>2, <2>1
  <2>2. CASE ReadNow(Woken(IF c.answer = "DONE" THEN Show(page, c.got) ELSE page))
    <3> DEFINE p == IF c.answer = "DONE" THEN Show(page, c.got) ELSE page
    <3>1. "version" \in DOMAIN p /\ p.version \in Nat /\ p.version <= errand.version /\ p.version >= page.version
      <4>1. /\ DOMAIN Show(page, c.got) = DOMAIN page
            /\ Show(page, c.got).version \in {page.version, c.got.version} /\ Show(page, c.got).version >= page.version
        BY <1>0, ShowHelps
      <4> QED BY <1>0, <4>1
    <3> HIDE DEF p
    <3>2. Versioned(Woken(p)) /\ Woken(p).version = p.version
      BY <3>1, PageHelpers DEF Versioned
    <3>3. Versioned(page') /\ Versioned(reading') /\ page'.version = p.version
      BY <1>0, <2>2, <3>2, ReadNowKeeps DEF p
    <3> QED BY <3>1, <3>3
  <2> QED BY <2>1, <2>2 DEF CommandArrives
<1>4. CommandInv'
  BY <1>1, <1>2, <1>3, CommandsLeave
<1> QED BY <1>3, <1>4

LEMMA LossKeeps ==
    ASSUME CommandInv, NEW c \in commands, CommandLost(c)
    PROVE  CommandInv' /\ UNCHANGED page
<1>1. /\ UNCHANGED <<errand, viewer, cmdKeys, page, reading>> /\ dialog' = [dialog EXCEPT !.busy = FALSE]
      /\ \A x \in commands' : x \in commands \/ x = [c EXCEPT !.awaited = FALSE]
  BY DEF CommandLost, DialogOnly
<1>2. Versioned(page) /\ Versioned(reading) /\ Versioned(dialog)
  BY DEF CommandInv, PageFits
<1>3. Versioned(dialog')
  BY <1>1, <1>2 DEF Versioned
<1> QED BY <1>1, <1>2, <1>3, CommandsLeave

(* A step of the errand's page keeps the invariant, and the errand on      *)
(* screen never goes back.                                                 *)
LEMMA PageStep ==
    ASSUME CommandInv, PageNext \/ UNCHANGED pageVars
    PROVE  CommandInv' /\ page'.version >= page.version
<1>0. page.version \in Nat
  BY DEF CommandInv, PageFits, Versioned
<1>1. ASSUME Screen PROVE CommandInv' /\ page'.version >= page.version
  BY <1>1, ScreenMoves DEF Screen
<1>2. CASE UNCHANGED pageVars
  <2>1. UNCHANGED <<errand, viewer, commands, cmdKeys, page, reading, dialog>>
    BY <1>2 DEF pageVars
  <2>2. Screen
    BY <1>0, <2>1 DEF Screen, CommandInv, PageFits
  <2> QED BY <1>1, <2>2
<1>3. CASE Moved
  <2>1. UNCHANGED <<viewer, page, reading, dialog, commands, cmdKeys>> /\ \E rule \in OrderTransitions : MoveBy(rule)
    BY <1>3 DEF Moved
  <2> QED BY <1>0, <2>1, ErrandMovesOn
<1>4. CASE StreamSteps \/ ReadSteps
  BY <1>1, <1>4, StreamScreens, ReadScreens
<1>5. CASE CommandSteps
  <2>1. ASSUME NEW c \in commands, CommandServed(c) PROVE CommandInv' /\ UNCHANGED page
    BY <2>1, ServedKeeps DEF CommandServed
  <2> QED BY <1>0, <1>5, <2>1, DialogKeeps, ArrivalKeeps, LossKeeps DEF CommandSteps
<1> QED BY <1>2, <1>3, <1>4, <1>5 DEF PageNext

LEMMA AppliedAreDone ==
    ASSUME CommandInv
    PROVE  AppliedIsDone
<1> SUFFICES ASSUME NEW c \in commands, c.answer = "STALE", NEW k \in cmdKeys,
                    <<k[1], k[2]>> = <<c.action, c.version>>
             PROVE  FALSE
  BY DEF AppliedIsDone
<1>1. c.key \notin cmdKeys /\ c.key = <<c.action, c.version, 0>> /\ k = <<k[1], k[2], 0>>
  BY DEF CommandInv, CommandsFit, CommandFits
<1>2. k[1] = c.action /\ k[2] = c.version
  OBVIOUS
<1> QED BY <1>1, <1>2

-----------------------------------------------------------------------------
(* The parts together.                                                     *)

RetryInv == CatalogueInv /\ ComposerInv /\ CommandInv

LEMMA RetryStart ==
    ASSUME Init
    PROVE  RetryInv
BY CatalogueStart, ComposerStart, PageStart DEF Init, RetryInv

LEMMA RetryStep ==
    ASSUME RetryInv, [Next]_vars
    PROVE  /\ RetryInv'
           /\ CatalogueNext \/ ElsewhereChanged(1) \/ UNCHANGED catalogueVars
           /\ PageNext \/ UNCHANGED pageVars
<1>1. CatalogueNext \/ ElsewhereChanged(1) \/ UNCHANGED catalogueVars
  BY DEF Next, vars, shopVars, SocketsNext, SuppliersNext, DraftNext, ErrandNext, TalkNext, ListNext, LoginNext,
         AdminNext, DeskPagesNext, PickupNext, TimesNext
<1>2. ComposerNext \/ UNCHANGED composerVars
  BY DEF Next, vars, shopVars, SocketsNext, SuppliersNext, DraftNext, ErrandNext, TalkNext, ListNext, LoginNext,
         AdminNext, DeskPagesNext, PickupNext, TimesNext
<1>3. PageNext \/ UNCHANGED pageVars
  BY DEF Next, vars, SocketsNext, SuppliersNext, DraftNext, ErrandNext, TalkNext, ListNext, LoginNext,
         AdminNext, DeskPagesNext, PickupNext, TimesNext
<1> QED BY <1>1, <1>2, <1>3, CatalogueStep, ComposerStep, PageStep DEF RetryInv

(* The invariant behind retries holds.                                     *)
THEOREM RetryInvHolds == Spec => []RetryInv
<1>1. Init => RetryInv
  BY RetryStart
<1>2. RetryInv /\ [Next]_vars => RetryInv'
  BY RetryStep
<1> QED BY <1>1, <1>2, PTL DEF Spec

(* What is sent again after a lost answer is done once, and the page says  *)
(* of it what is so: suppliers, errands and the commands on an errand,     *)
(* however often each is retried.                                          *)
THEOREM RetriesAreHarmless == Spec => []RetriesHarmless
<1>1. RetryInv => RetriesHarmless
  BY OnlyOneUntold, PostedOnce, AppliedAreDone DEF RetryInv, RetriesHarmless
<1> QED BY <1>1, RetryInvHolds, PTL

(* A late answer to a save never closes a supplier form opened since.      *)
THEOREM FormsAreKept == Spec => FormsKept
<1>1. RetryInv /\ [Next]_vars => [FormsKeptStep]_catalogueVars
  <2> SUFFICES ASSUME RetryInv, [Next]_vars PROVE FormsKeptStep \/ UNCHANGED catalogueVars
    OBVIOUS
  <2>1. CASE CatalogueNext
    BY <2>1, FormsKeptByStep DEF RetryInv
  <2>2. CASE ElsewhereChanged(1)
    BY <2>2 DEF ElsewhereChanged, FormsKeptStep
  <2> QED BY <2>1, <2>2, RetryStep
<1> QED BY <1>1, RetryInvHolds, PTL DEF Spec, FormsKept, FormsKeptStep

(* The errand on screen never goes back to an earlier version.             *)
THEOREM ShownMovesForward == Spec => ShownForward
<1>1. RetryInv /\ [Next]_vars => [page'.version >= page.version]_pageVars
  BY RetryStep, PageStep DEF RetryInv
<1> QED BY <1>1, RetryInvHolds, PTL DEF Spec, ShownForward

-----------------------------------------------------------------------------
(* Chat sockets and the identity cache.                                    *)

Lookups == [user : People, phase : {"ASKED", "ANSWERED", "ARRIVED", "FAILED"}, version : Nat, ok : BOOLEAN,
            until : Nat]

SocketRows == [phase : {"NEW", "AWAITING_AUTH", "AUTHENTICATING", "OPEN", "CLOSED"}, user : People \cup {NoPerson},
               alive : BOOLEAN, timer : Nat, expires : Nat, waits : Nat]

IdentityTypes ==
    /\ now \in Nat /\ standing \in [People -> [version : Nat, ok : BOOLEAN]]
    /\ since \in [People -> Nat] /\ heard \in [People -> Nat] /\ inflight \in [People -> Nat]
    /\ lookups \in Seq(Lookups)
    /\ \A e \in cache : e.user \in People /\ e.version \in Nat /\ e.ok \in BOOLEAN /\ e.expires \in Nat
    /\ \A m \in news : m.user \in People /\ m.version \in Nat

(* Nothing has been heard that has not happened.                           *)
NewsFit ==
    /\ \A m \in news : m.version <= standing[m.user].version
    /\ \A u \in People : heard[u] <= standing[u].version /\ since[u] <= now

(* The answer ok about u was so at some time from t on: if u is barred     *)
(* now, that was not before t.                                             *)
TrueAt(u, ok, t) == ok /\ ~standing[u].ok => t <= since[u]

(* An answer kept is not older than what was heard, and is dropped in      *)
(* time.                                                                   *)
CacheFits ==
    /\ InvalidationsHold
    /\ \A e \in cache : /\ e.expires <= now + CacheTtl
                        /\ TrueAt(e.user, e.ok, e.expires - LookupTimeout - CacheTtl)

(* A lookup under way has not run out of time, and a further caller joins  *)
(* only one that began after what was heard.                               *)
LookupsFit ==
    /\ \A l \in DOMAIN lookups :
          /\ lookups[l].until <= now + LookupTimeout
          /\ lookups[l].phase \in {"ASKED", "ANSWERED"} => now <= lookups[l].until
          /\ lookups[l].phase = "ASKED" => ~lookups[l].ok
          /\ TrueAt(lookups[l].user, lookups[l].ok, lookups[l].until - LookupTimeout)
    /\ \A u \in People :
          LET l == inflight[u]
          IN  l # 0 => /\ l \in DOMAIN lookups /\ lookups[l].user = u
                       /\ lookups[l].phase \in {"ASKED", "ANSWERED"}
                       /\ lookups[l].phase = "ANSWERED" => lookups[l].version >= heard[u]

(* A socket that waits for a lookup keeps time from passing beyond it; one *)
(* that is open is checked again in time, from an answer that was true not *)
(* long ago.                                                               *)
SocketFits(s) ==
    /\ s.phase = "OPEN" \/ s.waits # 0 => s.user \in People
    /\ s.waits # 0 => /\ s.phase \in {"AUTHENTICATING", "OPEN", "CLOSED"}
                      /\ s.waits \in DOMAIN lookups /\ lookups[s.waits].user = s.user
                      /\ now <= lookups[s.waits].until
    /\ s.phase = "OPEN" =>
          /\ s.timer <= now + RecheckEvery
          /\ s.waits = 0 => now <= s.timer
          /\ s.waits # 0 => lookups[s.waits].until <= s.timer + LookupTimeout
          /\ TrueAt(s.user, TRUE, s.timer - RecheckEvery - CacheTtl - LookupTimeout)

IdentityInv == IdentityTypes /\ NewsFit /\ CacheFits /\ LookupsFit

SocketsFit ==
    /\ socket \in [Sockets -> SocketRows] /\ ended \subseteq Sockets
    /\ \A k \in Sockets : SocketFits(socket[k])

HubInv == IdentityInv /\ SocketsFit /\ ClosedStays /\ SocketLimits

LEMMA HubConstants ==
    /\ CacheTtl \in Nat /\ LookupTimeout \in Nat
    /\ RecheckEvery \in Nat /\ AuthTimeout \in Nat /\ TokenLife \in Nat
    /\ MaxSockets \in Nat /\ PerUser \in Nat /\ PerInstance \in Nat /\ PendingPerInstance \in Nat
BY CacheAssumption, HubAssumption

(* What an event about an account does.                                    *)
LEMMA StandingChanges ==
    ASSUME IdentityInv, UNCHANGED now, NEW u \in People, NEW ok \in BOOLEAN, NEW announced \in BOOLEAN,
           Changes(u, ok, announced)
    PROVE  IdentityInv' /\ \A s \in SocketRows : SocketFits(s) => SocketFits(s)'
<1> USE HubConstants
<1>1. /\ standing' = [standing EXCEPT ![u] = [version |-> standing[u].version + 1, ok |-> ok]]
      /\ since' = [since EXCEPT ![u] = IF standing[u].ok THEN now ELSE since[u]]
      /\ UNCHANGED <<now, cache, inflight, lookups, heard>>
      /\ \A m \in news' : \/ m \in news
                          \/ m.user = u /\ m.version = standing[u].version + 1
  BY DEF Changes
<1>2. /\ now \in Nat /\ standing \in [People -> [version : Nat, ok : BOOLEAN]] /\ since \in [People -> Nat]
      /\ heard \in [People -> Nat] /\ inflight \in [People -> Nat] /\ lookups \in Seq(Lookups)
      /\ \A e \in cache : e.user \in People /\ e.version \in Nat /\ e.ok \in BOOLEAN /\ e.expires \in Nat
      /\ \A m \in news : m.user \in People /\ m.version \in Nat
  BY DEF IdentityInv, IdentityTypes
<1>3. IdentityTypes'
  <2>1. standing' \in [People -> [version : Nat, ok : BOOLEAN]]
    BY <1>1, <1>2
  <2>2. since' \in [People -> Nat]
    BY <1>1, <1>2
  <2>3. \A m \in news' : m.user \in People /\ m.version \in Nat
    BY <1>1, <1>2
  <2> QED BY <1>1, <1>2, <2>1, <2>2, <2>3 DEF IdentityTypes
<1>4. NewsFit'
  BY <1>1, <1>2 DEF IdentityInv, NewsFit
<1>5. ASSUME NEW v \in People, NEW b \in BOOLEAN, NEW t \in Int, TrueAt(v, b, t), t <= now
      PROVE  TrueAt(v, b, t)'
  BY <1>1, <1>2, <1>5 DEF TrueAt
<1>6. CacheFits'
  <2>1. InvalidationsHold'
    BY <1>1 DEF IdentityInv, CacheFits, InvalidationsHold
  <2>2. ASSUME NEW e \in cache
        PROVE  e.expires <= now + CacheTtl /\ TrueAt(e.user, e.ok, e.expires - LookupTimeout - CacheTtl)'
    <3>1. e.expires <= now + CacheTtl /\ TrueAt(e.user, e.ok, e.expires - LookupTimeout - CacheTtl)
      BY DEF IdentityInv, CacheFits
    <3>2. e.user \in People /\ e.ok \in BOOLEAN /\ e.expires \in Nat
      BY <1>2
    <3>3. e.expires - LookupTimeout - CacheTtl \in Int /\ e.expires - LookupTimeout - CacheTtl <= now
      <4>1. now \in Int /\ CacheTtl \in Nat /\ LookupTimeout \in Nat
        BY <1>2
      <4> QED BY <3>1, <3>2, <4>1
    <3> QED BY <1>5, <3>1, <3>2, <3>3
  <2> QED BY <1>1, <2>1, <2>2 DEF CacheFits
<1>7. LookupsFit'
  <2>1. ASSUME NEW l \in DOMAIN lookups
        PROVE  TrueAt(lookups[l].user, lookups[l].ok, lookups[l].until - LookupTimeout)'
    <3>1. lookups[l] \in Lookups
      BY <1>2
    <3>0. lookups[l].until <= now + LookupTimeout
      BY <2>1 DEF IdentityInv, LookupsFit
    <3>2. TrueAt(lookups[l].user, lookups[l].ok, lookups[l].until - LookupTimeout)
      BY <2>1 DEF IdentityInv, LookupsFit
    <3>4. lookups[l].user \in People /\ lookups[l].ok \in BOOLEAN /\ lookups[l].until \in Nat
      BY <3>1 DEF Lookups
    <3> DEFINE t == lookups[l].until - LookupTimeout
    <3>3. t \in Int /\ t <= now
      BY SMTT(60), <1>2, <3>0, <3>4
    <3> HIDE DEF t
    <3>5. (standing[lookups[l].user].ok)' = standing'[lookups[l].user].ok /\ (since[lookups[l].user])' = since'[lookups[l].user]
      BY <1>1
    <3>6. TrueAt(lookups[l].user, lookups[l].ok, t)
      BY <3>2 DEF t
    <3>7. t <= since'[lookups[l].user] \/ ~lookups[l].ok \/ standing'[lookups[l].user].ok
      BY <3>6, <3>3, <3>4, <1>1, <1>2 DEF TrueAt
    <3>8. t' = t
      BY <1>1 DEF t
    <3> QED BY <3>7, <3>5, <1>1 DEF TrueAt, t
  <2> QED BY <1>1, <2>1 DEF IdentityInv, LookupsFit
<1>8. ASSUME NEW s \in SocketRows, SocketFits(s) PROVE SocketFits(s)'
  <2>1. CASE s.phase = "OPEN"
    <3> DEFINE t == s.timer - RecheckEvery - CacheTtl - LookupTimeout
    <3>0. s.timer \in Nat /\ s.timer <= now + RecheckEvery
      BY <1>8, <2>1 DEF SocketFits, SocketRows
    <3>1. s.user \in People /\ TrueAt(s.user, TRUE, t)
      BY <1>8, <2>1 DEF SocketFits
    <3>2. t \in Int /\ t <= now
      <4>1. now \in Int /\ CacheTtl \in Nat /\ LookupTimeout \in Nat /\ RecheckEvery \in Nat
        BY <1>2
      <4> QED BY <3>0, <4>1
    <3> HIDE DEF t
    <3>3. TrueAt(s.user, TRUE, t)'
      BY <1>5, <3>1, <3>2
    <3> QED BY <1>1, <1>8, <2>1, <3>3 DEF SocketFits, t
  <2>2. CASE s.phase # "OPEN"
    BY <1>1, <1>8, <2>2 DEF SocketFits
  <2> QED BY <2>1, <2>2
<1> QED BY <1>3, <1>4, <1>6, <1>7, <1>8 DEF IdentityInv

(* A socket is no worse off while accounts and time stand still.           *)
LEMMA SocketsUndisturbed ==
    ASSUME UNCHANGED <<now, standing, since>>,
           \A l \in DOMAIN lookups : /\ l \in DOMAIN lookups' /\ lookups'[l].user = lookups[l].user
                                     /\ lookups'[l].until = lookups[l].until
    PROVE  \A s : SocketFits(s) => SocketFits(s)'
<1> SUFFICES ASSUME NEW s, SocketFits(s) PROVE SocketFits(s)'
  OBVIOUS
<1>1. \A u, ok, t : TrueAt(u, ok, t)' <=> TrueAt(u, ok, t)
  BY DEF TrueAt
<1> QED BY <1>1 DEF SocketFits

(* An event is dropped, or the identity it is about forgotten.             *)
LEMMA NewsArrives ==
    ASSUME IdentityInv, UNCHANGED now, NEW m \in news, EventDropped(m) \/ InvalidateUser(m)
    PROVE  IdentityInv' /\ \A s : SocketFits(s) => SocketFits(s)'
<1> USE HubConstants
<1>1. /\ now \in Nat /\ standing \in [People -> [version : Nat, ok : BOOLEAN]] /\ since \in [People -> Nat]
      /\ heard \in [People -> Nat] /\ inflight \in [People -> Nat] /\ lookups \in Seq(Lookups)
      /\ \A e \in cache : e.user \in People /\ e.version \in Nat /\ e.ok \in BOOLEAN /\ e.expires \in Nat
      /\ \A n \in news : n.user \in People /\ n.version \in Nat
  BY DEF IdentityInv, IdentityTypes
<1>2. UNCHANGED <<standing, since, lookups>> /\ news' \subseteq news /\ cache' \subseteq cache
  BY DEF EventDropped, InvalidateUser
<1>3. /\ heard' \in [People -> Nat] /\ inflight' \in [People -> Nat]
      /\ \A u \in People : u # m.user \/ EventDropped(m) => heard'[u] = heard[u] /\ inflight'[u] = inflight[u]
      /\ \A u \in People : u = m.user /\ InvalidateUser(m) =>
            inflight'[u] = 0 /\ (heard'[u] = heard[u] \/ heard'[u] = m.version)
      /\ InvalidateUser(m) => \A e \in cache' : e.user # m.user
  <2>1. m.user \in People /\ m.version \in Nat
    BY <1>1
  <2>2. CASE EventDropped(m) /\ ~InvalidateUser(m)
    BY <1>1, <2>2 DEF EventDropped
  <2>3. CASE InvalidateUser(m)
    <3>1. /\ cache' = {e \in cache : e.user # m.user}
          /\ inflight' = [inflight EXCEPT ![m.user] = 0]
          /\ heard' = [heard EXCEPT ![m.user] = IF m.version > heard[m.user] THEN m.version ELSE heard[m.user]]
      BY <2>3 DEF InvalidateUser
    <3>2. EventDropped(m) => heard' = heard /\ inflight' = inflight
      BY DEF EventDropped
    <3> QED BY <1>1, <2>1, <3>1, <3>2
  <2> QED BY <2>2, <2>3
<1>4. IdentityTypes'
  BY <1>1, <1>2, <1>3 DEF IdentityTypes
<1>5. NewsFit'
  BY <1>1, <1>2, <1>3 DEF IdentityInv, NewsFit
<1>6. \A u, ok, t : TrueAt(u, ok, t)' <=> TrueAt(u, ok, t)
  BY <1>2 DEF TrueAt
<1>7. CacheFits'
  <2>1. InvalidationsHold'
    BY <1>1, <1>2, <1>3 DEF IdentityInv, CacheFits, InvalidationsHold
  <2> QED BY <1>2, <1>6, <2>1 DEF IdentityInv, CacheFits
<1>8. LookupsFit'
  <2>1. ASSUME NEW u \in People, inflight'[u] # 0
        PROVE  inflight'[u] = inflight[u] /\ heard'[u] = heard[u]
    BY <1>3, <2>1
  <2>2. ASSUME NEW l \in DOMAIN lookups
        PROVE  TrueAt(lookups[l].user, lookups[l].ok, lookups[l].until - LookupTimeout)'
    BY <1>2, <2>2 DEF IdentityInv, LookupsFit, TrueAt
  <2> QED BY <1>2, <2>1, <2>2 DEF IdentityInv, LookupsFit
<1> QED BY <1>2, <1>4, <1>5, <1>7, <1>8, SocketsUndisturbed DEF IdentityInv

(* The User Service reads its answer.                                      *)
LEMMA LookupAnswered ==
    ASSUME IdentityInv, UNCHANGED now, NEW l \in DOMAIN lookups, Introspected(l)
    PROVE  IdentityInv' /\ \A s : SocketFits(s) => SocketFits(s)'
<1> USE HubConstants
<1>1. /\ now \in Nat /\ standing \in [People -> [version : Nat, ok : BOOLEAN]] /\ since \in [People -> Nat]
      /\ heard \in [People -> Nat] /\ inflight \in [People -> Nat] /\ lookups \in Seq(Lookups)
  BY DEF IdentityInv, IdentityTypes
<1>2. /\ lookups[l].phase = "ASKED"
      /\ lookups' = [lookups EXCEPT ![l].phase = "ANSWERED",
                                  ![l].version = standing[lookups[l].user].version,
                                  ![l].ok = standing[lookups[l].user].ok]
      /\ UNCHANGED <<standing, since, news, cache, inflight, heard>>
  BY DEF Introspected
<1>3. lookups[l] \in Lookups
  BY <1>1
<1>4. /\ lookups[l].user \in People /\ lookups[l].until \in Nat
      /\ standing[lookups[l].user].version \in Nat /\ standing[lookups[l].user].ok \in BOOLEAN
  <2>1. lookups[l].user \in People /\ lookups[l].until \in Nat
    BY <1>3 DEF Lookups
  <2> QED BY <1>1, <2>1
<1> DEFINE a == [lookups[l] EXCEPT !.phase = "ANSWERED", !.version = standing[lookups[l].user].version,
                                   !.ok = standing[lookups[l].user].ok]
<1>5. lookups' = [lookups EXCEPT ![l] = a]
  BY <1>2, <1>1
<1>6. /\ a \in Lookups /\ a.user = lookups[l].user /\ a.until = lookups[l].until /\ a.phase = "ANSWERED"
      /\ a.version = standing[lookups[l].user].version /\ a.ok = standing[lookups[l].user].ok
  BY <1>3, <1>4 DEF Lookups
<1> HIDE DEF a
<1>7. /\ lookups' \in Seq(Lookups) /\ DOMAIN lookups' = DOMAIN lookups
      /\ \A j \in DOMAIN lookups : j # l => lookups'[j] = lookups[j]
      /\ lookups'[l] = a
  BY SMTT(60), <1>1, <1>5, <1>6
<1>8. IdentityTypes'
  BY <1>1, <1>2, <1>7 DEF IdentityInv, IdentityTypes
<1>9. NewsFit' /\ CacheFits'
  <2>1. \A e \in cache : TrueAt(e.user, e.ok, e.expires - LookupTimeout - CacheTtl)'
    BY <1>2 DEF IdentityInv, CacheFits, TrueAt
  <2> QED BY <1>2, <2>1 DEF IdentityInv, NewsFit, CacheFits, InvalidationsHold
<1>10. LookupsFit'
  <2>1. ASSUME NEW j \in DOMAIN lookups
        PROVE  /\ lookups'[j].until <= now + LookupTimeout
               /\ lookups'[j].phase \in {"ASKED", "ANSWERED"} => now <= lookups'[j].until
               /\ lookups'[j].phase = "ASKED" => ~lookups'[j].ok
               /\ TrueAt(lookups'[j].user, lookups'[j].ok, lookups'[j].until - LookupTimeout)
    <3>1. CASE j = l
      <4>1. TrueAt(a.user, a.ok, a.until - LookupTimeout)
        BY <1>6 DEF TrueAt
      <4> QED BY <1>2, <1>6, <1>7, <3>1, <4>1 DEF IdentityInv, LookupsFit
    <3>2. CASE j # l
      BY <1>7, <3>2 DEF IdentityInv, LookupsFit
    <3> QED BY <3>1, <3>2
  <2>2. ASSUME NEW u \in People, inflight[u] # 0
        PROVE  LET k == inflight[u]
               IN  /\ k \in DOMAIN lookups /\ lookups'[k].user = u
                   /\ lookups'[k].phase \in {"ASKED", "ANSWERED"}
                   /\ lookups'[k].phase = "ANSWERED" => lookups'[k].version >= heard[u]
    <3>1. CASE inflight[u] = l
      <4>1. lookups[l].user = u
        BY <2>2, <3>1 DEF IdentityInv, LookupsFit
      <4>2. heard[u] <= standing[u].version /\ heard[u] \in Nat /\ standing[u].version \in Nat
        BY <1>1 DEF IdentityInv, NewsFit
      <4> QED BY <1>6, <1>7, <3>1, <4>1, <4>2
    <3>2. CASE inflight[u] # l
      BY <1>7, <2>2, <3>2 DEF IdentityInv, LookupsFit
    <3> QED BY <3>1, <3>2
  <2>3. \A u, ok, t : TrueAt(u, ok, t)' <=> TrueAt(u, ok, t)
    BY <1>2 DEF TrueAt
  <2>4. ASSUME NEW j \in DOMAIN lookups
        PROVE  TrueAt(lookups[j].user, lookups[j].ok, lookups[j].until - LookupTimeout)'
    BY <1>2, <2>1, <2>4 DEF TrueAt
  <2> QED BY <1>2, <1>7, <2>1, <2>2, <2>4 DEF LookupsFit
<1> QED BY <1>2, <1>6, <1>7, <1>8, <1>9, <1>10, SocketsUndisturbed DEF IdentityInv

(* What is kept was kept before, or is the answer that arrived.            *)
LEMMA Remembered ==
    ASSUME NEW u, NEW version, NEW ok
    PROVE  \A e \in Remember(u, version, ok) :
              \/ e \in cache
              \/ e.user = u /\ e.version = version /\ e.ok = ok /\ e.expires = now + CacheTtl
BY DEF Remember

(* A lookup ends.                                                          *)
LEMMA LookupSettled ==
    ASSUME IdentityInv, UNCHANGED now, NEW l \in DOMAIN lookups, NEW phase \in {"ARRIVED", "FAILED"},
           Settled(l, phase)
    PROVE  IdentityInv' /\ \A s : SocketFits(s) => SocketFits(s)'
<1> USE HubConstants
<1>1. /\ now \in Nat /\ standing \in [People -> [version : Nat, ok : BOOLEAN]] /\ since \in [People -> Nat]
      /\ heard \in [People -> Nat] /\ inflight \in [People -> Nat] /\ lookups \in Seq(Lookups)
      /\ \A e \in cache : e.user \in People /\ e.version \in Nat /\ e.ok \in BOOLEAN /\ e.expires \in Nat
  BY DEF IdentityInv, IdentityTypes
<1> DEFINE u == lookups[l].user
           a == [lookups[l] EXCEPT !.phase = phase]
<1>2. /\ phase = "ARRIVED" => lookups[l].phase = "ANSWERED"
      /\ lookups[l].phase \in {"ASKED", "ANSWERED"}
      /\ cache' = IF phase = "ARRIVED" /\ StillCurrent(l)
                  THEN Remember(u, lookups[l].version, lookups[l].ok) ELSE cache
      /\ inflight' = [inflight EXCEPT ![u] = IF inflight[u] = l THEN 0 ELSE inflight[u]]
      /\ lookups' = [lookups EXCEPT ![l] = a]
      /\ UNCHANGED <<standing, since, news, heard>>
  BY DEF Settled
<1>3. /\ lookups[l] \in Lookups /\ u \in People /\ lookups[l].until \in Nat /\ lookups[l].version \in Nat
      /\ lookups[l].ok \in BOOLEAN
  <2>1. lookups[l] \in Lookups
    BY <1>1
  <2> QED BY <2>1 DEF Lookups
<1>4. /\ a \in Lookups /\ a.user = u /\ a.until = lookups[l].until /\ a.phase = phase
      /\ a.ok = lookups[l].ok
  BY <1>3 DEF Lookups
<1>5. /\ lookups' \in Seq(Lookups) /\ DOMAIN lookups' = DOMAIN lookups
      /\ \A j \in DOMAIN lookups : j # l => lookups'[j] = lookups[j]
      /\ lookups'[l] = a
  <2> HIDE DEF a
  <2> QED BY <1>1, <1>2, <1>4
<1>6. now <= lookups[l].until
  BY <1>2 DEF IdentityInv, LookupsFit
<1> HIDE DEF a, u
<1>7. inflight' \in [People -> Nat] /\ \A v \in People : inflight'[v] # 0 => inflight'[v] = inflight[v] /\ inflight[v] # l
  <2>1. inflight' \in [People -> Nat]
    BY <1>1, <1>2, <1>3
  <2>2. ASSUME NEW v \in People, inflight'[v] # 0 PROVE inflight'[v] = inflight[v] /\ inflight[v] # l
    <3>1. CASE v = u
      BY <1>1, <1>2, <1>3, <2>2, <3>1
    <3>2. CASE v # u
      <4>1. inflight'[v] = inflight[v]
        BY <1>1, <1>2, <1>3, <3>2
      <4>2. lookups[inflight[v]].user = v
        BY <2>2, <4>1 DEF IdentityInv, LookupsFit
      <4> QED BY <3>2, <4>1, <4>2 DEF u
    <3> QED BY <3>1, <3>2
  <2> QED BY <2>1, <2>2
<1>8. ASSUME NEW e \in cache', e \notin cache
      PROVE  /\ e.user = u /\ e.version = lookups[l].version /\ e.ok = lookups[l].ok /\ e.expires = now + CacheTtl
             /\ phase = "ARRIVED" /\ lookups[l].phase = "ANSWERED" /\ inflight[u] = l
  <2>1. phase = "ARRIVED" /\ StillCurrent(l) /\ e \in Remember(u, lookups[l].version, lookups[l].ok)
    BY <1>2, <1>8
  <2>2. e.user = u /\ e.version = lookups[l].version /\ e.ok = lookups[l].ok /\ e.expires = now + CacheTtl
    BY <1>8, <2>1, Remembered
  <2> QED BY <1>2, <2>1, <2>2 DEF StillCurrent, u
<1>9. IdentityTypes'
  <2>1. \A e \in cache' : e.user \in People /\ e.version \in Nat /\ e.ok \in BOOLEAN /\ e.expires \in Nat
    <3>1. now + CacheTtl \in Nat
      BY <1>1
    <3>2. \A e \in cache : e.user \in People /\ e.version \in Nat /\ e.ok \in BOOLEAN /\ e.expires \in Nat
      BY <1>1
    <3> QED BY <1>3, <1>8, <3>1, <3>2
  <2> QED BY <1>1, <1>2, <1>5, <1>7, <2>1 DEF IdentityInv, IdentityTypes
<1>10. NewsFit'
  BY <1>2 DEF IdentityInv, NewsFit
<1>11. CacheFits'
  <2>1. ASSUME NEW e \in cache'
        PROVE  /\ e.version >= heard[e.user] /\ e.expires <= now + CacheTtl
               /\ TrueAt(e.user, e.ok, e.expires - LookupTimeout - CacheTtl)
    <3>1. CASE e \in cache
      BY <3>1 DEF IdentityInv, CacheFits, InvalidationsHold
    <3>2. CASE e \notin cache
      <4>1. lookups[l].version >= heard[u]
        <5>1. u \in People /\ l # 0 /\ inflight[u] = l /\ lookups[l].phase = "ANSWERED"
          BY <1>1, <1>3, <1>8, <3>2
        <5> QED BY <5>1 DEF IdentityInv, LookupsFit
      <4>2. TrueAt(u, lookups[l].ok, lookups[l].until - LookupTimeout)
        BY <1>8, <3>2 DEF IdentityInv, LookupsFit, u
      <4>3. /\ e.user = u /\ e.version = lookups[l].version /\ e.ok = lookups[l].ok
            /\ e.expires = now + CacheTtl
        BY <1>8, <3>2
      <4>4. since[u] \in Nat
        BY <1>1, <1>3
      <4>5. e.expires - LookupTimeout - CacheTtl <= lookups[l].until - LookupTimeout
        BY <1>1, <1>3, <1>6, <4>3
      <4>6. e.expires - LookupTimeout - CacheTtl \in Int /\ lookups[l].until - LookupTimeout \in Int
        BY <1>1, <1>3, <4>3
      <4>7. TrueAt(e.user, e.ok, e.expires - LookupTimeout - CacheTtl)
        BY <4>2, <4>3, <4>4, <4>5, <4>6 DEF TrueAt
      <4>8. e.version >= heard[e.user]
        BY <4>1, <4>3
      <4>9. e.expires <= now + CacheTtl
        BY <1>1, <4>3
      <4> QED BY <4>7, <4>8, <4>9
    <3> QED BY <3>1, <3>2
  <2>2. ASSUME NEW e \in cache' PROVE TrueAt(e.user, e.ok, e.expires - LookupTimeout - CacheTtl)'
    BY <1>2, <2>1 DEF TrueAt
  <2> QED BY <1>2, <2>1, <2>2 DEF CacheFits, InvalidationsHold
<1>12. LookupsFit'
  <2>1. ASSUME NEW j \in DOMAIN lookups
        PROVE  /\ lookups'[j].until <= now + LookupTimeout
               /\ lookups'[j].phase \in {"ASKED", "ANSWERED"} => now <= lookups'[j].until
               /\ lookups'[j].phase = "ASKED" => ~lookups'[j].ok
    <3>1. CASE j = l
      BY <1>4, <1>5, <1>6, <3>1 DEF IdentityInv, LookupsFit
    <3>2. CASE j # l
      BY <1>5, <3>2 DEF IdentityInv, LookupsFit
    <3> QED BY <3>1, <3>2
  <2>2. ASSUME NEW j \in DOMAIN lookups
        PROVE  TrueAt(lookups'[j].user, lookups'[j].ok, lookups'[j].until - LookupTimeout)
    <3>1. CASE j = l
      <4>1. TrueAt(lookups[l].user, lookups[l].ok, lookups[l].until - LookupTimeout)
        BY DEF IdentityInv, LookupsFit
      <4> QED BY <1>4, <1>5, <3>1, <4>1 DEF u
    <3>2. CASE j # l
      BY <1>5, <3>2 DEF IdentityInv, LookupsFit
    <3> QED BY <3>1, <3>2
  <2>3. ASSUME NEW j \in DOMAIN lookups
        PROVE  TrueAt(lookups[j].user, lookups[j].ok, lookups[j].until - LookupTimeout)'
    BY <1>2, <2>2, <2>3 DEF TrueAt
  <2>4. ASSUME NEW v \in People, inflight'[v] # 0
        PROVE  LET k == inflight'[v]
               IN  /\ k \in DOMAIN lookups /\ lookups'[k].user = v
                   /\ lookups'[k].phase \in {"ASKED", "ANSWERED"}
                   /\ lookups'[k].phase = "ANSWERED" => lookups'[k].version >= heard[v]
    BY <1>5, <1>7, <2>4 DEF IdentityInv, LookupsFit
  <2> QED BY <1>2, <1>5, <2>1, <2>3, <2>4 DEF LookupsFit
<1> QED BY <1>2, <1>4, <1>5, <1>9, <1>10, <1>11, <1>12, SocketsUndisturbed DEF IdentityInv, u

(* A caller joins the lookup under way, or makes one.                      *)
LEMMA LookupJoined ==
    ASSUME IdentityInv, UNCHANGED <<now, standing, since, news, cache, heard>>, NEW u \in People, Join(u)
    PROVE  /\ IdentityInv' /\ \A s : SocketFits(s) => SocketFits(s)'
           /\ Joined(u) \in Nat \ {0} /\ Joined(u) \in DOMAIN lookups' /\ lookups'[Joined(u)].user = u
           /\ now <= lookups'[Joined(u)].until /\ lookups'[Joined(u)].until <= now + LookupTimeout
<1> USE HubConstants
<1>1. /\ now \in Nat /\ standing \in [People -> [version : Nat, ok : BOOLEAN]] /\ since \in [People -> Nat]
      /\ heard \in [People -> Nat] /\ inflight \in [People -> Nat] /\ lookups \in Seq(Lookups)
  BY DEF IdentityInv, IdentityTypes
<1>2. NewsFit' /\ CacheFits'
  <2>1. \A e \in cache : TrueAt(e.user, e.ok, e.expires - LookupTimeout - CacheTtl)'
    BY DEF IdentityInv, CacheFits, TrueAt
  <2> QED BY <2>1 DEF IdentityInv, NewsFit, CacheFits, InvalidationsHold
<1>3. CASE inflight[u] # 0
  <2>1. Joined(u) = inflight[u] /\ lookups' = lookups /\ inflight' = inflight
    BY <1>1, <1>3 DEF Join, Joined
  <2>2. IdentityInv'
    <3>1. \A l \in DOMAIN lookups : TrueAt(lookups[l].user, lookups[l].ok, lookups[l].until - LookupTimeout)'
      BY <2>1 DEF IdentityInv, LookupsFit, TrueAt
    <3>2. LookupsFit'
      BY <2>1, <3>1 DEF IdentityInv, LookupsFit
    <3>3. IdentityTypes'
      BY <2>1 DEF IdentityInv, IdentityTypes
    <3> QED BY <1>2, <3>2, <3>3 DEF IdentityInv
  <2>3. /\ Joined(u) \in Nat \ {0} /\ Joined(u) \in DOMAIN lookups /\ lookups[Joined(u)].user = u
        /\ now <= lookups[Joined(u)].until /\ lookups[Joined(u)].until <= now + LookupTimeout
    BY <1>1, <1>3, <2>1 DEF IdentityInv, LookupsFit
  <2> QED BY <2>1, <2>2, <2>3, SocketsUndisturbed
<1>4. CASE inflight[u] = 0
  <2> DEFINE n == Len(lookups) + 1
             q == [user |-> u, phase |-> "ASKED", version |-> 0, ok |-> FALSE, until |-> now + LookupTimeout]
  <2>1. Joined(u) = n /\ lookups' = Append(lookups, q) /\ inflight' = [inflight EXCEPT ![u] = n]
    BY <1>1, <1>4 DEF Join, Joined
  <2>2. q \in Lookups /\ q.user = u /\ q.phase = "ASKED" /\ q.ok = FALSE /\ q.until = now + LookupTimeout
    BY <1>1 DEF Lookups
  <2> HIDE DEF q
  <2>3. /\ lookups' \in Seq(Lookups) /\ DOMAIN lookups' = DOMAIN lookups \cup {n} /\ lookups'[n] = q
        /\ \A l \in DOMAIN lookups : lookups'[l] = lookups[l]
        /\ n \in Nat \ {0} /\ n \notin DOMAIN lookups
    BY <1>1, <2>1, <2>2
  <2> HIDE DEF n
  <2>4. inflight' \in [People -> Nat] /\ inflight'[u] = n /\ \A v \in People : v # u => inflight'[v] = inflight[v]
    BY <1>1, <2>1, <2>3
  <2>5. IdentityTypes'
    BY <1>1, <2>3, <2>4 DEF IdentityInv, IdentityTypes
  <2>6. LookupsFit'
    <3>1. ASSUME NEW l \in DOMAIN lookups'
          PROVE  /\ lookups'[l].until <= now + LookupTimeout
                 /\ lookups'[l].phase \in {"ASKED", "ANSWERED"} => now <= lookups'[l].until
                 /\ lookups'[l].phase = "ASKED" => ~lookups'[l].ok
      <4>1. CASE l = n
        BY <1>1, <2>2, <2>3, <4>1
      <4>2. CASE l \in DOMAIN lookups
        BY <2>3, <4>2 DEF IdentityInv, LookupsFit
      <4> QED BY <2>3, <4>1, <4>2
    <3>2. ASSUME NEW l \in DOMAIN lookups'
          PROVE  TrueAt(lookups[l].user, lookups[l].ok, lookups[l].until - LookupTimeout)'
      <4>1. CASE l = n
        BY <2>2, <2>3, <4>1 DEF TrueAt
      <4>2. CASE l \in DOMAIN lookups
        <5>1. TrueAt(lookups[l].user, lookups[l].ok, lookups[l].until - LookupTimeout)
          BY <4>2 DEF IdentityInv, LookupsFit
        <5> QED BY <2>3, <4>2, <5>1 DEF TrueAt
      <4> QED BY <2>3, <4>1, <4>2
    <3>3. ASSUME NEW v \in People, inflight'[v] # 0
          PROVE  LET k == inflight'[v]
                 IN  /\ k \in DOMAIN lookups' /\ lookups'[k].user = v
                     /\ lookups'[k].phase \in {"ASKED", "ANSWERED"}
                     /\ lookups'[k].phase = "ANSWERED" => lookups'[k].version >= heard[v]
      <4>1. CASE v = u
        BY <2>2, <2>3, <2>4, <4>1
      <4>2. CASE v # u
        BY <2>3, <2>4, <3>3, <4>2 DEF IdentityInv, LookupsFit
      <4> QED BY <4>1, <4>2
    <3> QED BY <3>1, <3>2, <3>3 DEF LookupsFit
  <2>7. now <= lookups'[n].until /\ lookups'[n].until <= now + LookupTimeout
    BY <1>1, <2>2, <2>3
  <2> QED BY <1>2, <2>1, <2>2, <2>3, <2>5, <2>6, <2>7, SocketsUndisturbed DEF IdentityInv
<1> QED BY <1>3, <1>4, <1>1

(* Time passes, once everything due has happened.                          *)
LEMMA TimePasses ==
    ASSUME IdentityInv, SocketsFit, Tick
    PROVE  IdentityInv' /\ SocketsFit'
<1> USE HubConstants
<1>1. /\ now \in Nat /\ standing \in [People -> [version : Nat, ok : BOOLEAN]] /\ since \in [People -> Nat]
      /\ heard \in [People -> Nat] /\ inflight \in [People -> Nat] /\ lookups \in Seq(Lookups)
      /\ \A e \in cache : e.user \in People /\ e.version \in Nat /\ e.ok \in BOOLEAN /\ e.expires \in Nat
  BY DEF IdentityInv, IdentityTypes
<1>2. now' = now + 1 /\ UNCHANGED <<standing, since, news, cache, inflight, lookups, heard>> /\ UNCHANGED <<socket, ended>>
  BY DEF Tick, identityVars, hubVars
<1>3. \A u, ok, t : TrueAt(u, ok, t)' <=> TrueAt(u, ok, t)
  BY <1>2 DEF TrueAt
<1>4. ASSUME NEW l \in DOMAIN lookups PROVE lookups[l].until \in Nat
  <2>1. lookups[l] \in Lookups
    BY <1>1
  <2> QED BY <2>1 DEF Lookups
<1>5. IdentityTypes'
  BY <1>1, <1>2 DEF IdentityInv, IdentityTypes
<1>6. NewsFit'
  BY <1>1, <1>2 DEF IdentityInv, NewsFit
<1>7. CacheFits'
  <2>1. \A e \in cache : e.expires <= now' + CacheTtl
    BY <1>1, <1>2 DEF IdentityInv, CacheFits
  <2> QED BY <1>2, <1>3, <2>1 DEF IdentityInv, CacheFits, InvalidationsHold
<1>8. LookupsFit'
  <2>1. ASSUME NEW l \in DOMAIN lookups
        PROVE  /\ lookups[l].until <= now' + LookupTimeout
               /\ lookups[l].phase \in {"ASKED", "ANSWERED"} => now' <= lookups[l].until
    <3>1. lookups[l].until <= now + LookupTimeout /\ lookups[l].until \in Nat
      BY <1>4 DEF IdentityInv, LookupsFit
    <3>2. lookups[l].phase \in {"ASKED", "ANSWERED"} => lookups[l].until > now
      BY DEF Tick
    <3> QED BY <1>1, <1>2, <3>1, <3>2
  <2>2. \A l \in DOMAIN lookups : TrueAt(lookups[l].user, lookups[l].ok, lookups[l].until - LookupTimeout)'
    BY <1>2 DEF IdentityInv, LookupsFit, TrueAt
  <2> QED BY <1>2, <2>1, <2>2 DEF IdentityInv, LookupsFit
<1>9. SocketsFit'
  <2>1. ASSUME NEW k \in Sockets PROVE SocketFits(socket[k])'
    <3> DEFINE s == socket[k]
    <3>1. SocketFits(s) /\ s \in SocketRows
      BY DEF SocketsFit
    <3>2. s.timer \in Nat /\ s.waits \in Nat
      BY <3>1 DEF SocketRows
    <3>3. s.waits # 0 => s.waits \in DOMAIN lookups /\ lookups[s.waits].until > now
      <4>1. s.waits # 0 => s.waits \in DOMAIN lookups
        BY <3>1 DEF SocketFits
      <4>2. s.waits # 0 => lookups[s.waits].phase \in {"ASKED", "ANSWERED"}
        BY DEF Tick
      <4>3. \A l \in DOMAIN lookups : lookups[l].phase \in {"ASKED", "ANSWERED"} => lookups[l].until > now
        BY DEF Tick
      <4> QED BY <4>1, <4>2, <4>3
    <3>4. s.phase = "OPEN" /\ s.waits = 0 => s.timer > now
      BY DEF Tick, Held
    <3> HIDE DEF s
    <3>5. s.waits # 0 => s.waits \in DOMAIN lookups /\ now + 1 <= lookups[s.waits].until
      BY <1>1, <1>4, <3>3
    <3>6. s.phase = "OPEN" => s.timer <= now + 1 + RecheckEvery /\ (s.waits = 0 => now + 1 <= s.timer)
      BY <1>1, <3>1, <3>2, <3>4 DEF SocketFits
    <3>7. s' = s
      BY <1>2 DEF s
    <3>8. TrueAt(s.user, TRUE, s.timer - RecheckEvery - CacheTtl - LookupTimeout)'
            <=> TrueAt(s.user, TRUE, s.timer - RecheckEvery - CacheTtl - LookupTimeout)
      BY <1>2, <3>7 DEF TrueAt
    <3>9. SocketFits(s)'
      BY <1>2, <3>1, <3>5, <3>6, <3>7, <3>8 DEF SocketFits
    <3> QED BY <3>9 DEF s
  <2> QED BY <1>2, <2>1 DEF SocketsFit
<1> QED BY <1>5, <1>6, <1>7, <1>8, <1>9 DEF IdentityInv

LEMMA SocketsFinite ==
    /\ IsFiniteSet(Held) /\ IsFiniteSet(Pending)
    /\ \A u : IsFiniteSet(ByUser(u))
<1>1. IsFiniteSet(Sockets)
  BY HubConstants, FS_Interval DEF Sockets
<1>2. Held \subseteq Sockets /\ Pending \subseteq Sockets /\ \A u : ByUser(u) \subseteq Sockets
  BY DEF Held, Pending, ByUser
<1> QED BY <1>1, <1>2, FS_Subset

(* Sockets only close.                                                     *)
LEMMA SocketsClose ==
    ASSUME ClosedStays, SocketLimits,
           \A k \in Sockets : /\ socket'[k].user = socket[k].user
                              /\ socket'[k].phase \in {socket[k].phase, "CLOSED"},
           \A k \in ended' : k \in ended \/ socket'[k].phase = "CLOSED",
           ended \subseteq Sockets,
           stopping' = stopping \/ Held' = {}
    PROVE  ClosedStays' /\ SocketLimits'
<1>1. Held' \subseteq Held /\ Pending' \subseteq Pending /\ \A u : ByUser(u)' \subseteq ByUser(u)
  BY DEF Held, Pending, ByUser
<1>2. ClosedStays'
  <2>1. \A k \in ended' : socket'[k].phase = "CLOSED"
    BY DEF ClosedStays
  <2>2. stopping' => Held' = {}
    BY <1>1 DEF ClosedStays
  <2> QED BY <2>1, <2>2 DEF ClosedStays
<1>3. Cardinality(Held') <= Cardinality(Held) /\ Cardinality(Held) \in Nat /\ Cardinality(Held') \in Nat
  BY <1>1, SocketsFinite, FS_Subset, FS_CardinalityType
<1>4. Cardinality(Pending') <= Cardinality(Pending) /\ Cardinality(Pending) \in Nat /\ Cardinality(Pending') \in Nat
  BY <1>1, SocketsFinite, FS_Subset, FS_CardinalityType
<1>5. ASSUME NEW u \in People
      PROVE  /\ Cardinality(ByUser(u)') <= Cardinality(ByUser(u))
             /\ Cardinality(ByUser(u)) \in Nat /\ Cardinality(ByUser(u)') \in Nat
  BY <1>1, SocketsFinite, FS_Subset, FS_CardinalityType
<1>6. Cardinality(Held') <= PerInstance /\ Cardinality(Pending') <= PendingPerInstance
  BY <1>3, <1>4, HubConstants DEF SocketLimits
<1>7. \A u \in People : Cardinality(ByUser(u)') <= PerUser
  BY <1>5, HubConstants DEF SocketLimits
<1> QED BY <1>2, <1>6, <1>7 DEF SocketLimits

(* A socket that is held signs in, is checked again, or closes.            *)
LEMMA SocketTurns ==
    ASSUME ClosedStays, SocketLimits, socket \in [Sockets -> SocketRows], NEW k \in Held, NEW t \in SocketRows,
           Becomes(k, t), UNCHANGED stopping,
           t.phase \in {"AUTHENTICATING", "OPEN", "CLOSED"},
           t.phase = "AUTHENTICATING" => socket[k].phase # "OPEN",
           t.phase = "OPEN" => \/ socket[k].phase = "OPEN" /\ t.user = socket[k].user
                               \/ ~OwnFull(t.user)
    PROVE  ClosedStays' /\ SocketLimits'
<1>1. k \in Sockets /\ socket[k].phase # "CLOSED" /\ ~stopping
  BY DEF Held, ClosedStays
<1>2. /\ socket'[k] = t /\ \A j \in Sockets : j # k => socket'[j] = socket[j]
      /\ ended' \subseteq ended \cup {k} /\ (k \in ended' => t.phase = "CLOSED")
  BY <1>1 DEF Becomes, ClosedStays
<1>3. Held' \subseteq Held /\ Pending' \subseteq Pending
  BY <1>2 DEF Held, Pending
<1>4. ClosedStays'
  <2>1. \A j \in ended' : socket'[j].phase = "CLOSED"
    <3>1. ASSUME NEW j \in ended' PROVE socket'[j].phase = "CLOSED"
      <4>1. CASE j = k
        BY <1>2, <4>1
      <4>2. CASE j # k
        <5>1. j \in ended
          BY <1>2, <4>2
        <5>2. socket[j].phase = "CLOSED"
          BY <5>1 DEF ClosedStays
        <5>3. socket' = [socket EXCEPT ![k] = t]
          BY DEF Becomes
        <5> QED BY <4>2, <5>2, <5>3
      <4> QED BY <4>1, <4>2
    <3> QED BY <3>1
  <2> QED BY <1>1, <2>1 DEF ClosedStays
<1>5. Cardinality(Held') <= PerInstance /\ Cardinality(Pending') <= PendingPerInstance
  <2>1. Cardinality(Held') <= Cardinality(Held) /\ Cardinality(Held) \in Nat /\ Cardinality(Held') \in Nat
    BY <1>3, SocketsFinite, FS_Subset, FS_CardinalityType
  <2>2. Cardinality(Pending') <= Cardinality(Pending) /\ Cardinality(Pending) \in Nat /\ Cardinality(Pending') \in Nat
    BY <1>3, SocketsFinite, FS_Subset, FS_CardinalityType
  <2> QED BY <2>1, <2>2, HubConstants DEF SocketLimits
<1>6. ASSUME NEW u \in People PROVE Cardinality(ByUser(u)') <= PerUser
  <2>1. IsFiniteSet(ByUser(u)) /\ Cardinality(ByUser(u)) \in Nat /\ Cardinality(ByUser(u)) <= PerUser
    BY SocketsFinite, FS_CardinalityType DEF SocketLimits
  <2>2. CASE ByUser(u)' \subseteq ByUser(u)
    <3>1. Cardinality(ByUser(u)') <= Cardinality(ByUser(u)) /\ Cardinality(ByUser(u)') \in Nat
      BY <2>1, <2>2, FS_Subset, FS_CardinalityType
    <3> QED BY <2>1, <3>1, HubConstants
  <2>3. CASE ~(ByUser(u)' \subseteq ByUser(u))
    <3>1. ByUser(u)' \subseteq ByUser(u) \cup {k} /\ t.phase = "OPEN" /\ t.user = u /\ k \notin ByUser(u)
      BY <1>2, <2>3 DEF ByUser, Held
    <3>2. ~OwnFull(u)
      BY <1>1, <3>1 DEF ByUser, Held
    <3>3. Cardinality(ByUser(u)) < PerUser
      BY <2>1, <3>2, HubConstants DEF OwnFull
    <3>4. IsFiniteSet(ByUser(u) \cup {k}) /\ Cardinality(ByUser(u) \cup {k}) = Cardinality(ByUser(u)) + 1
      BY <2>1, <3>1, FS_AddElement
    <3>5. Cardinality(ByUser(u)') <= Cardinality(ByUser(u)) + 1 /\ Cardinality(ByUser(u)') \in Nat
      BY <3>1, <3>4, FS_Subset, FS_CardinalityType
    <3> QED BY <2>1, <3>3, <3>5, HubConstants
  <2> QED BY <2>2, <2>3
<1> QED BY <1>4, <1>5, <1>6 DEF SocketLimits

LEMMA ShutSocket ==
    ASSUME NEW s \in SocketRows, SocketFits(s)
    PROVE  /\ Shut(s) \in SocketRows /\ SocketFits(Shut(s))
           /\ Shut(s).phase = "CLOSED" /\ Shut(s).user = s.user /\ Shut(s).waits = s.waits
<1>1. /\ Shut(s) \in SocketRows /\ Shut(s).phase = "CLOSED" /\ Shut(s).user = s.user /\ Shut(s).waits = s.waits
  BY DEF Shut, SocketRows
<1> QED BY <1>1 DEF SocketFits

(* end, of any sockets.                                                    *)
LEMMA SocketsEnd ==
    ASSUME HubInv, NEW ks \in SUBSET Sockets, End(ks), \A s : SocketFits(s) => SocketFits(s)',
           stopping' = stopping \/ Held \subseteq ks
    PROVE  SocketsFit' /\ ClosedStays' /\ SocketLimits'
<1>1. /\ socket' = [k \in Sockets |-> IF k \in ks THEN Shut(socket[k]) ELSE socket[k]]
      /\ ended' = ended \cup ks
  BY DEF End, Close
<1>2. ASSUME NEW k \in Sockets
      PROVE  /\ socket[k] \in SocketRows /\ SocketFits(socket[k])
             /\ socket'[k] \in SocketRows /\ SocketFits(socket'[k]) /\ socket'[k].user = socket[k].user
             /\ socket'[k].phase \in {socket[k].phase, "CLOSED"} /\ (k \in ks => socket'[k].phase = "CLOSED")
  <2>1. socket[k] \in SocketRows /\ SocketFits(socket[k])
    BY DEF HubInv, SocketsFit
  <2>2. CASE k \in ks
    BY <1>1, <2>1, <2>2, ShutSocket
  <2>3. CASE k \notin ks
    BY <1>1, <2>1, <2>3
  <2> QED BY <2>1, <2>2, <2>3
<1>3. ASSUME NEW k \in Sockets PROVE SocketFits(socket[k])'
  <2>1. SocketFits(socket'[k])
    BY <1>2
  <2>2. \A s : SocketFits(s) => SocketFits(s)'
    OBVIOUS
  <2>3. PICK r : r = socket'[k]
    OBVIOUS
  <2>4. SocketFits(r)'
    BY <2>1, <2>2, <2>3
  <2> QED BY <2>3, <2>4 DEF SocketFits, TrueAt
<1>4. SocketsFit'
  BY <1>1, <1>2, <1>3 DEF HubInv, SocketsFit
<1>5. stopping' = stopping \/ Held' = {}
  BY <1>1, <1>2 DEF Held
<1>6. ended \subseteq Sockets
  BY DEF HubInv, SocketsFit
<1>7. \A k \in ended' : k \in ended \/ socket'[k].phase = "CLOSED"
  BY <1>1, <1>2
<1>8. \A k \in Sockets : /\ socket'[k].user = socket[k].user
                         /\ socket'[k].phase \in {socket[k].phase, "CLOSED"}
  BY <1>2
<1> QED BY <1>4, <1>5, <1>6, <1>7, <1>8, SocketsClose DEF HubInv

LEMMA IdentityUndisturbed ==
    ASSUME IdentityInv, UNCHANGED <<now, identityVars>>
    PROVE  IdentityInv' /\ \A s : SocketFits(s) => SocketFits(s)'
<1>1. UNCHANGED <<now, standing, since, news, cache, inflight, lookups, heard>>
  BY DEF identityVars
<1>2. \A s : SocketFits(s) => SocketFits(s)'
  BY <1>1, SocketsUndisturbed
<1>3. \A u, ok, t : TrueAt(u, ok, t)' <=> TrueAt(u, ok, t)
  BY <1>1 DEF TrueAt
<1>4. IdentityTypes' /\ NewsFit'
  BY <1>1 DEF IdentityInv, IdentityTypes, NewsFit
<1>5. CacheFits'
  BY <1>1, <1>3 DEF IdentityInv, CacheFits, InvalidationsHold
<1>6. LookupsFit'
  <2>1. \A l \in DOMAIN lookups : TrueAt(lookups[l].user, lookups[l].ok, lookups[l].until - LookupTimeout)'
    BY <1>1 DEF IdentityInv, LookupsFit, TrueAt
  <2> QED BY <1>1, <2>1 DEF IdentityInv, LookupsFit
<1> QED BY <1>2, <1>4, <1>5, <1>6 DEF IdentityInv

(* beat and its answer.                                                    *)
LEMMA SocketsBeat ==
    ASSUME HubInv, Beat \/ (\E k \in Sockets : Pong(k)), UNCHANGED now
    PROVE  HubInv'
<1>1. UNCHANGED <<standing, since, news, cache, inflight, lookups, heard>> /\ UNCHANGED stopping
  BY DEF Beat, Pong, identityVars
<1>2. \A s : SocketFits(s) => SocketFits(s)'
  BY <1>1, IdentityUndisturbed DEF HubInv, identityVars
<1>3. IdentityInv'
  BY <1>1, IdentityUndisturbed DEF HubInv, identityVars
<1>4. ASSUME NEW k \in Sockets
      PROVE  /\ socket'[k] \in SocketRows /\ SocketFits(socket'[k]) /\ socket'[k].user = socket[k].user
             /\ socket'[k].phase \in {socket[k].phase, "CLOSED"}
             /\ k \in ended' => k \in ended \/ socket'[k].phase = "CLOSED"
  <2>1. socket[k] \in SocketRows /\ SocketFits(socket[k]) /\ socket \in [Sockets -> SocketRows]
    BY DEF HubInv, SocketsFit
  <2>2. \A s \in SocketRows, b \in BOOLEAN :
           /\ [s EXCEPT !.alive = b] \in SocketRows /\ (SocketFits(s) => SocketFits([s EXCEPT !.alive = b]))
           /\ [s EXCEPT !.alive = b].user = s.user /\ [s EXCEPT !.alive = b].phase = s.phase
    <3> SUFFICES ASSUME NEW s \in SocketRows, NEW b \in BOOLEAN
                 PROVE  /\ [s EXCEPT !.alive = b] \in SocketRows
                        /\ SocketFits(s) => SocketFits([s EXCEPT !.alive = b])
                        /\ [s EXCEPT !.alive = b].user = s.user /\ [s EXCEPT !.alive = b].phase = s.phase
      OBVIOUS
    <3> DEFINE t == [s EXCEPT !.alive = b]
    <3>1. t \in SocketRows /\ t.user = s.user /\ t.phase = s.phase /\ t.waits = s.waits /\ t.timer = s.timer
      BY DEF SocketRows
    <3> HIDE DEF t
    <3>2. SocketFits(s) => SocketFits(t)
      BY <3>1 DEF SocketFits, TrueAt
    <3> QED BY <3>1, <3>2 DEF t
  <2>3. CASE Beat
    <3> DEFINE silent == {j \in Held : ~socket[j].alive}
    <3>1. /\ socket' = [j \in Sockets |-> IF j \in Held THEN [Close(silent)[j] EXCEPT !.alive = FALSE] ELSE socket[j]]
          /\ ended' = ended \cup silent
      BY <2>3 DEF Beat
    <3>2. Close(silent)[k] = IF k \in silent THEN Shut(socket[k]) ELSE socket[k]
      BY DEF Close
    <3>3. /\ Shut(socket[k]) \in SocketRows /\ SocketFits(Shut(socket[k])) /\ Shut(socket[k]).phase = "CLOSED"
          /\ Shut(socket[k]).user = socket[k].user
      BY <2>1, ShutSocket
    <3>4. CASE k \in silent
      <4>1. k \in Held
        BY <3>4
      <4>2. socket'[k] = [Shut(socket[k]) EXCEPT !.alive = FALSE]
        BY <3>1, <3>2, <3>4, <4>1
      <4> QED BY <2>2, <3>3, <4>2
    <3>5. CASE k \notin silent /\ k \in Held
      <4>1. socket'[k] = [socket[k] EXCEPT !.alive = FALSE]
        BY <3>1, <3>2, <3>5
      <4> QED BY <2>1, <2>2, <3>1, <3>5, <4>1
    <3>6. CASE k \notin Held
      BY <2>1, <3>1, <3>6
    <3> QED BY <3>4, <3>5, <3>6
  <2>4. CASE \E j \in Sockets : Pong(j)
    <3>1. PICK j \in Sockets : Pong(j)
      BY <2>4
    <3>2. socket' = [socket EXCEPT ![j] = [socket[j] EXCEPT !.alive = TRUE]] /\ ended' = ended
      BY <3>1 DEF Pong
    <3> QED BY <2>1, <2>2, <3>2
  <2> QED BY <2>3, <2>4
<1>5. ASSUME NEW k \in Sockets PROVE SocketFits(socket[k])'
  <2>1. PICK r : r = socket'[k]
    OBVIOUS
  <2>2. SocketFits(r)'
    BY <1>2, <1>4, <2>1
  <2> QED BY <2>1, <2>2 DEF SocketFits, TrueAt
<1>6. socket' \in [Sockets -> SocketRows] /\ ended' \subseteq Sockets
  <2>1. \E f : socket' = [j \in Sockets |-> f[j]]
    <3>1. CASE Beat
      <4> DEFINE f == [j \in Sockets |-> IF j \in Held THEN [Close({i \in Held : ~socket[i].alive})[j] EXCEPT !.alive = FALSE]
                                         ELSE socket[j]]
      <4>1. socket' = f
        BY <3>1 DEF Beat
      <4>2. f = [j \in Sockets |-> f[j]]
        OBVIOUS
      <4> HIDE DEF f
      <4> QED BY <4>1, <4>2
    <3>2. CASE \E k \in Sockets : Pong(k)
      <4>1. PICK j \in Sockets : socket' = [socket EXCEPT ![j].alive = TRUE]
        BY <3>2 DEF Pong
      <4>2. DOMAIN socket = Sockets
        BY DEF HubInv, SocketsFit
      <4>3. socket' = [i \in Sockets |-> socket'[i]]
        BY <4>1, <4>2
      <4> QED BY <4>3
    <3> QED BY <3>1, <3>2
  <2>2. ended' \subseteq Sockets
    BY DEF Beat, Pong, HubInv, SocketsFit, Held
  <2> QED BY <1>4, <2>1, <2>2
<1>7. SocketsFit'
  BY <1>5, <1>6 DEF SocketsFit
<1>8. ended \subseteq Sockets
  BY DEF HubInv, SocketsFit
<1>9. ClosedStays' /\ SocketLimits'
  BY <1>1, <1>4, <1>6, <1>8, SocketsClose DEF HubInv
<1> QED BY <1>3, <1>7, <1>9 DEF HubInv

(* A connection is refused, or waits, perhaps in the place of another.     *)
LEMMA SocketConnects ==
    ASSUME HubInv, NEW k \in Sockets, Connect(k), UNCHANGED now
    PROVE  HubInv'
<1> USE HubConstants
<1>1. UNCHANGED identityVars /\ UNCHANGED stopping
  BY DEF Connect
<1>2. IdentityInv' /\ \A s : SocketFits(s) => SocketFits(s)'
  BY <1>1, IdentityUndisturbed DEF HubInv
<1>3. socket[k].phase = "NEW" /\ k \notin Held /\ k \notin ended /\ now \in Nat
  <2>1. socket[k].phase = "NEW"
    <3>1. \A j \in Sockets : socket[j].phase = "NEW" <=> j >= k
      BY DEF Connect
    <3>2. k \in Int
      BY DEF Sockets
    <3> QED BY <3>1, <3>2
  <2>2. now \in Nat
    BY DEF HubInv, IdentityInv, IdentityTypes
  <2> QED BY <2>1, <2>2 DEF Held, HubInv, ClosedStays
<1>4. CASE End({k})
  <2>1. SocketsFit' /\ ClosedStays' /\ SocketLimits'
    BY <1>1, <1>2, <1>4, SocketsEnd
  <2> QED BY <1>2, <2>1 DEF HubInv
<1>5. CASE ~End({k})
  <2> DEFINE fresh == [NotOpen EXCEPT !.phase = "AWAITING_AUTH", !.timer = now + AuthTimeout]
  <2>1. /\ ~stopping /\ ~(Cardinality(Held) >= PerInstance)
        /\ ~(Cardinality(Pending) >= PendingPerInstance /\ Evicted = {})
        /\ socket' = [Close(Evicted) EXCEPT ![k] = fresh]
        /\ ended' = ended \cup Evicted
    BY <1>5 DEF Connect
  <2>2. fresh \in SocketRows /\ fresh.phase = "AWAITING_AUTH" /\ fresh.waits = 0
    <3>1. NotOpen \in SocketRows /\ NotOpen.waits = 0
      BY DEF NotOpen, SocketRows
    <3>2. now + AuthTimeout \in Nat
      BY <1>3
    <3> QED BY <3>1, <3>2 DEF SocketRows
  <2> HIDE DEF fresh
  <2>3. SocketFits(fresh)
    BY <2>2 DEF SocketFits
  <2>4. Evicted \subseteq Pending
    BY DEF Evicted
  <2>5. Evicted \subseteq Held /\ Evicted \subseteq Sockets /\ k \notin Evicted
    BY <1>3, <2>4 DEF Pending, Held
  <2>6. Close(Evicted) = [j \in Sockets |-> IF j \in Evicted THEN Shut(socket[j]) ELSE socket[j]]
    BY DEF Close
  <2>7. /\ socket'[k] = fresh /\ DOMAIN socket' = Sockets
        /\ \A j \in Sockets : j # k => socket'[j] = IF j \in Evicted THEN Shut(socket[j]) ELSE socket[j]
        /\ socket' = [j \in Sockets |-> socket'[j]]
    BY <2>1, <2>6
  <2>8. ASSUME NEW j \in Sockets
        PROVE  /\ socket'[j] \in SocketRows /\ SocketFits(socket'[j])
               /\ j # k => /\ socket'[j].user = socket[j].user
                           /\ socket'[j].phase = IF j \in Evicted THEN "CLOSED" ELSE socket[j].phase
    <3>1. socket[j] \in SocketRows /\ SocketFits(socket[j])
      BY DEF HubInv, SocketsFit
    <3>2. CASE j = k
      BY <2>2, <2>3, <2>7, <3>2
    <3>3. CASE j # k /\ j \in Evicted
      <4>1. socket'[j] = Shut(socket[j])
        BY <2>7, <3>3
      <4> QED BY <3>1, <3>3, <4>1, ShutSocket
    <3>4. CASE j # k /\ j \notin Evicted
      BY <2>7, <3>1, <3>4
    <3> QED BY <3>2, <3>3, <3>4
  <2>9. SocketsFit'
    <3>1. ASSUME NEW j \in Sockets PROVE SocketFits(socket[j])'
      <4>1. PICK r : r = socket'[j]
        OBVIOUS
      <4>2. SocketFits(r)'
        BY <1>2, <2>8, <4>1
      <4> QED BY <4>1, <4>2 DEF SocketFits, TrueAt
    <3>2. socket' \in [Sockets -> SocketRows]
      BY <2>7, <2>8
    <3>3. ended' \subseteq Sockets
      BY <2>1, <2>5 DEF HubInv, SocketsFit
    <3> QED BY <3>1, <3>2, <3>3 DEF SocketsFit
  <2>10. ClosedStays'
    <3>1. ASSUME NEW j \in ended' PROVE socket'[j].phase = "CLOSED"
      <4>1. j \in Sockets /\ (j \in ended \/ j \in Evicted) /\ j # k
        BY <1>3, <2>1, <2>5 DEF HubInv, SocketsFit
      <4>2. j \in ended => socket[j].phase = "CLOSED"
        BY DEF HubInv, ClosedStays
      <4> QED BY <2>8, <4>1, <4>2
    <3> QED BY <1>1, <2>1, <3>1 DEF ClosedStays
  <2>11. /\ Held' \subseteq (Held \ Evicted) \cup {k} /\ Pending' \subseteq (Pending \ Evicted) \cup {k}
         /\ \A u : ByUser(u)' \subseteq ByUser(u)
    <3>1. \A j \in Held' : j = k \/ j \in Held \ Evicted
      BY <2>8 DEF Held
    <3>2. \A j \in Pending' : j = k \/ j \in Pending \ Evicted
      BY <2>8 DEF Held, Pending
    <3>3. ASSUME NEW u, NEW j \in ByUser(u)' PROVE j \in ByUser(u)
      <4>1. j \in Sockets /\ socket'[j].phase = "OPEN" /\ socket'[j].user = u
        BY DEF ByUser, Held
      <4>2. j # k
        BY <2>2, <2>7, <4>1
      <4> QED BY <2>8, <4>1, <4>2 DEF ByUser, Held
    <3> QED BY <3>1, <3>2, <3>3
  <2>12. Cardinality(Held') <= PerInstance
    <3>1. IsFiniteSet(Held) /\ Cardinality(Held) \in Nat
      BY SocketsFinite, FS_CardinalityType
    <3>2. IsFiniteSet(Held \cup {k}) /\ Cardinality(Held \cup {k}) = Cardinality(Held) + 1
      BY <1>3, <3>1, FS_AddElement
    <3>3. Held' \subseteq Held \cup {k}
      BY <2>11
    <3>4. Cardinality(Held') <= Cardinality(Held) + 1 /\ Cardinality(Held') \in Nat
      BY <3>2, <3>3, FS_Subset, FS_CardinalityType
    <3> QED BY <2>1, <3>1, <3>4
  <2>13. Cardinality(Pending') <= PendingPerInstance
    <3>1. /\ IsFiniteSet(Pending) /\ Cardinality(Pending) \in Nat /\ Cardinality(Pending) <= PendingPerInstance
          /\ k \notin Pending
      BY <1>3, SocketsFinite, FS_CardinalityType DEF HubInv, SocketLimits, Pending
    <3> DEFINE rest == Pending \ Evicted
    <3>2. IsFiniteSet(rest) /\ Cardinality(rest) \in Nat /\ Cardinality(rest) <= Cardinality(Pending)
      BY <3>1, FS_Subset, FS_CardinalityType
    <3>3. Cardinality(rest) < PendingPerInstance
      <4>1. CASE Evicted = {}
        <5>1. Cardinality(Pending) < PendingPerInstance
          BY <2>1, <3>1, <4>1
        <5> QED BY <3>1, <3>2, <5>1
      <4>2. CASE Evicted # {}
        <5>1. rest \subseteq Pending /\ rest # Pending
          BY <2>4, <4>2
        <5>2. Cardinality(rest) # Cardinality(Pending)
          BY <3>1, <5>1, FS_Subset
        <5> QED BY <3>1, <3>2, <5>2
      <4> QED BY <4>1, <4>2
    <3>4. IsFiniteSet(rest \cup {k}) /\ Cardinality(rest \cup {k}) = Cardinality(rest) + 1
      BY <3>1, <3>2, FS_AddElement
    <3>5. Pending' \subseteq rest \cup {k}
      BY <2>11
    <3>6. Cardinality(Pending') <= Cardinality(rest) + 1 /\ Cardinality(Pending') \in Nat
      BY <3>4, <3>5, FS_Subset, FS_CardinalityType
    <3> QED BY <3>2, <3>3, <3>6
  <2>14. ASSUME NEW u \in People PROVE Cardinality(ByUser(u)') <= PerUser
    <3>1. ByUser(u)' \subseteq ByUser(u) /\ IsFiniteSet(ByUser(u)) /\ Cardinality(ByUser(u)) <= PerUser
      BY <2>11, SocketsFinite DEF HubInv, SocketLimits
    <3>2. /\ Cardinality(ByUser(u)') <= Cardinality(ByUser(u))
          /\ Cardinality(ByUser(u)) \in Nat /\ Cardinality(ByUser(u)') \in Nat
      BY <3>1, FS_Subset, FS_CardinalityType
    <3> QED BY <3>1, <3>2
  <2>15. SocketLimits'
    BY <2>12, <2>13, <2>14 DEF SocketLimits
  <2> QED BY <1>2, <2>9, <2>10, <2>15 DEF HubInv
<1> QED BY <1>4, <1>5

(* What an answer makes of a socket that waited for one.                   *)
LEMMA SocketResolved ==
    ASSUME IdentityInv, NEW s \in SocketRows, NEW ok \in BOOLEAN, s.user \in People,
           s.phase \in {"AUTHENTICATING", "OPEN"},
           ok => TrueAt(s.user, TRUE, now - CacheTtl - LookupTimeout)
    PROVE  LET t == [Resolved(s, ok) EXCEPT !.waits = 0]
           IN  /\ t \in SocketRows /\ SocketFits(t) /\ t.waits = 0 /\ t.user = s.user
               /\ t.phase \in {"OPEN", "CLOSED"}
               /\ t.phase = "OPEN" /\ s.phase # "OPEN" => ~OwnFull(t.user)
               /\ Resolved(s, ok) = IF s.waits = 0 THEN t ELSE Resolved(s, ok)
<1> USE HubConstants
<1>1. now \in Nat
  BY DEF IdentityInv, IdentityTypes
<1> DEFINE t == [Resolved(s, ok) EXCEPT !.waits = 0]
           shut == [s EXCEPT !.phase = "CLOSED", !.timer = 0, !.alive = TRUE, !.waits = 0]
           open == [s EXCEPT !.phase = "OPEN", !.timer = now + RecheckEvery, !.waits = 0]
<1>2. /\ shut \in SocketRows /\ shut.phase = "CLOSED" /\ shut.waits = 0 /\ shut.user = s.user
      /\ open \in SocketRows /\ open.phase = "OPEN" /\ open.waits = 0 /\ open.user = s.user
      /\ open.timer = now + RecheckEvery
  <2>1. now + RecheckEvery \in Nat
    BY <1>1
  <2>2. /\ shut \in SocketRows /\ shut.phase = "CLOSED" /\ shut.waits = 0 /\ shut.user = s.user
    BY DEF SocketRows
  <2>3. /\ open \in SocketRows /\ open.phase = "OPEN" /\ open.waits = 0 /\ open.user = s.user
        /\ open.timer = now + RecheckEvery
    BY <2>1 DEF SocketRows
  <2> QED BY <2>2, <2>3
<1>3. Resolved(s, ok) \in SocketRows
  <2>1. now + RecheckEvery \in Nat
    BY <1>1
  <2>2. Shut(s) \in SocketRows
    BY DEF Shut, SocketRows
  <2>3. [s EXCEPT !.timer = now + RecheckEvery, !.waits = 0] \in SocketRows
    BY <2>1 DEF SocketRows
  <2> HIDE DEF shut, open
  <2>4. \/ Resolved(s, ok) = Shut(s)
        \/ Resolved(s, ok) = [s EXCEPT !.timer = now + RecheckEvery, !.waits = 0]
        \/ Resolved(s, ok) = open
    BY DEF Resolved, open
  <2> QED BY <1>2, <2>2, <2>3, <2>4
<1>4. \/ t = shut
      \/ t = open /\ ok /\ (s.phase # "OPEN" => ~OwnFull(s.user))
  <2>1. \/ Resolved(s, ok) = Shut(s)
        \/ ok /\ s.phase = "OPEN" /\ Resolved(s, ok) = [s EXCEPT !.timer = now + RecheckEvery, !.waits = 0]
        \/ ok /\ ~OwnFull(s.user) /\ Resolved(s, ok) = open
    BY DEF Resolved
  <2>2. [Shut(s) EXCEPT !.waits = 0] = shut
    BY DEF Shut, SocketRows
  <2>3. [open EXCEPT !.waits = 0] = open
    BY <1>2 DEF SocketRows
  <2>4. s.phase = "OPEN" => [[s EXCEPT !.timer = now + RecheckEvery, !.waits = 0] EXCEPT !.waits = 0] = open
    BY DEF SocketRows
  <2> HIDE DEF shut, open
  <2> QED BY <2>1, <2>2, <2>3, <2>4
<1>5. s.waits = 0 => Resolved(s, ok) = t
  <2>1. ASSUME s.waits = 0 PROVE Resolved(s, ok).waits = 0
    <3>1. \/ Resolved(s, ok) = Shut(s)
          \/ Resolved(s, ok) = [s EXCEPT !.timer = now + RecheckEvery, !.waits = 0]
          \/ Resolved(s, ok) = open
      BY DEF Resolved
    <3>2. Shut(s).waits = 0
      BY <2>1 DEF Shut, SocketRows
    <3>3. [s EXCEPT !.timer = now + RecheckEvery, !.waits = 0].waits = 0
      BY DEF SocketRows
    <3> HIDE DEF open
    <3> QED BY <1>2, <3>1, <3>2, <3>3
  <2>2. \A r \in SocketRows : r.waits = 0 => r = [r EXCEPT !.waits = 0]
    BY DEF SocketRows
  <2> HIDE DEF shut, open
  <2> QED BY <1>3, <2>1, <2>2
<1> HIDE DEF shut, open
<1>6. CASE t = shut
  <2>1. SocketFits(shut)
    BY <1>2 DEF SocketFits
  <2> QED BY <1>2, <1>5, <1>6, <2>1
<1>7. CASE t = open /\ ok /\ (s.phase # "OPEN" => ~OwnFull(s.user))
  <2>1. TrueAt(s.user, TRUE, now - CacheTtl - LookupTimeout)
    BY <1>7
  <2>2. now - CacheTtl - LookupTimeout = open.timer - RecheckEvery - CacheTtl - LookupTimeout
    BY <1>1, <1>2
  <2>3. TrueAt(open.user, TRUE, open.timer - RecheckEvery - CacheTtl - LookupTimeout)
    BY <1>2, <2>1, <2>2 DEF TrueAt
  <2>4. open.timer <= now + RecheckEvery /\ now <= open.timer
    BY <1>1, <1>2
  <2>5. SocketFits(open)
    BY <1>2, <2>3, <2>4 DEF SocketFits
  <2> QED BY <1>2, <1>5, <1>7, <2>5
<1> QED BY <1>4, <1>6, <1>7

(* A kept answer that may be used was true not long ago.                   *)
LEMMA KeptIsRecent ==
    ASSUME IdentityInv, NEW u \in People, Hit(u)
    PROVE  KeptAnswer(u).ok \in BOOLEAN /\ (KeptAnswer(u).ok => TrueAt(u, TRUE, now - CacheTtl - LookupTimeout))
<1> USE HubConstants
<1> DEFINE e == KeptAnswer(u)
<1>1. e \in cache /\ e.user = u /\ e.expires > now
  BY DEF Hit, Kept, KeptAnswer
<1> HIDE DEF e
<1>2. now \in Nat /\ e.ok \in BOOLEAN /\ e.expires \in Nat /\ since[u] \in Nat
  BY <1>1 DEF IdentityInv, IdentityTypes
<1>3. TrueAt(u, e.ok, e.expires - LookupTimeout - CacheTtl)
  BY <1>1 DEF IdentityInv, CacheFits
<1>4. now - CacheTtl - LookupTimeout <= e.expires - LookupTimeout - CacheTtl
  BY <1>1, <1>2
<1>5. e.ok => TrueAt(u, TRUE, now - CacheTtl - LookupTimeout)
  BY <1>2, <1>3, <1>4 DEF TrueAt
<1> QED BY <1>2, <1>5 DEF e

(* A socket's new state fits, so all do.                                   *)
LEMMA SocketBecomes ==
    ASSUME HubInv, NEW k \in Sockets, NEW t \in SocketRows, Becomes(k, t), SocketFits(t)',
           \A s : SocketFits(s) => SocketFits(s)'
    PROVE  SocketsFit'
<1>1. /\ socket' = [socket EXCEPT ![k] = t] /\ socket \in [Sockets -> SocketRows]
      /\ ended' \subseteq ended \cup {k} /\ ended \subseteq Sockets
  BY DEF Becomes, HubInv, SocketsFit
<1>2. ASSUME NEW j \in Sockets PROVE SocketFits(socket[j])'
  <2>1. PICK r : r = socket'[j]
    OBVIOUS
  <2>2. SocketFits(r)'
    <3>1. CASE j = k
      <4>1. r = t
        BY <1>1, <2>1, <3>1
      <4> QED BY <4>1
    <3>2. CASE j # k
      <4>1. r = socket[j] /\ SocketFits(socket[j])
        BY <1>1, <2>1, <3>2 DEF HubInv, SocketsFit
      <4>2. SocketFits(r)
        BY <4>1
      <4> QED BY <4>2
    <3> QED BY <3>1, <3>2
  <2> QED BY <2>1, <2>2 DEF SocketFits, TrueAt
<1> QED BY <1>1, <1>2 DEF SocketsFit

(* authenticate, at once or once a lookup has ended.                       *)
LEMMA SocketAuthenticates ==
    ASSUME HubInv, NEW k \in Held, NEW s \in SocketRows, s.user \in People, s.waits = 0,
           \/ s.phase = "AUTHENTICATING" /\ socket[k].phase = "AWAITING_AUTH"
           \/ s.phase = "OPEN" /\ s = socket[k],
           Authenticate(k, s), UNCHANGED <<now, standing, since, news, cache, heard, stopping>>
    PROVE  HubInv'
<1> USE HubConstants
<1>0. k \in Sockets /\ now \in Nat /\ socket \in [Sockets -> SocketRows] /\ IdentityInv /\ SocketFits(socket[k])
  BY DEF Held, HubInv, IdentityInv, IdentityTypes, SocketsFit
<1>1. CASE Hit(s.user)
  <2> DEFINE ok == KeptAnswer(s.user).ok
  <2>0. PICK t : t = Resolved(s, ok)
    OBVIOUS
  <2>1. Becomes(k, t) /\ UNCHANGED <<inflight, lookups>>
    BY <1>1, <2>0 DEF Authenticate
  <2>2. ok \in BOOLEAN /\ (ok => TrueAt(s.user, TRUE, now - CacheTtl - LookupTimeout))
    BY <1>0, <1>1, KeptIsRecent
  <2> HIDE DEF ok
  <2>3. s.phase \in {"AUTHENTICATING", "OPEN"}
    OBVIOUS
  <2>4. /\ t \in SocketRows /\ SocketFits(t) /\ t.user = s.user /\ t.phase \in {"OPEN", "CLOSED"}
        /\ t.phase = "OPEN" /\ s.phase # "OPEN" => ~OwnFull(t.user)
    <3> DEFINE r == [Resolved(s, ok) EXCEPT !.waits = 0]
    <3>1. /\ r \in SocketRows /\ SocketFits(r) /\ r.user = s.user /\ r.phase \in {"OPEN", "CLOSED"}
          /\ r.phase = "OPEN" /\ s.phase # "OPEN" => ~OwnFull(r.user)
          /\ Resolved(s, ok) = IF s.waits = 0 THEN r ELSE Resolved(s, ok)
      BY <1>0, <2>2, <2>3, SocketResolved
    <3> HIDE DEF r
    <3>2. t = r
      BY <2>0, <3>1
    <3> QED BY <3>1, <3>2
  <2>5. IdentityInv' /\ \A r : SocketFits(r) => SocketFits(r)'
    BY <1>0, <2>1, IdentityUndisturbed DEF identityVars
  <2>6. SocketFits(t)'
    BY <2>4, <2>5
  <2>7. SocketsFit'
    BY <1>0, <2>1, <2>4, <2>5, <2>6, SocketBecomes
  <2>8. ClosedStays' /\ SocketLimits'
    <3>1. t.phase = "OPEN" => \/ socket[k].phase = "OPEN" /\ t.user = socket[k].user
                              \/ ~OwnFull(t.user)
      BY <2>4
    <3>2. t.phase # "AUTHENTICATING" /\ t.phase \in {"AUTHENTICATING", "OPEN", "CLOSED"}
      BY <2>4
    <3> QED BY <1>0, <2>1, <2>4, <3>1, <3>2, SocketTurns DEF HubInv
  <2> QED BY <2>5, <2>7, <2>8 DEF HubInv
<1>2. CASE ~Hit(s.user)
  <2>0. PICK l : l = Joined(s.user)
    OBVIOUS
  <2> DEFINE t == [s EXCEPT !.waits = l]
  <2>1. Becomes(k, t) /\ Join(s.user)
    BY <1>2, <2>0 DEF Authenticate
  <2>2. /\ IdentityInv' /\ \A r : SocketFits(r) => SocketFits(r)'
        /\ l \in Nat \ {0} /\ l \in DOMAIN lookups' /\ lookups'[l].user = s.user
        /\ now <= lookups'[l].until /\ lookups'[l].until <= now + LookupTimeout
    BY <1>0, <2>0, <2>1, LookupJoined
  <2>3. /\ t \in SocketRows /\ t.waits = l /\ t.user = s.user /\ t.phase = s.phase /\ t.timer = s.timer
        /\ s.timer \in Nat
    BY <2>2 DEF SocketRows
  <2> HIDE DEF t
  <2>4. SocketFits(t)'
    <3>1. CASE s.phase = "AUTHENTICATING"
      BY <2>2, <2>3, <3>1 DEF SocketFits
    <3>2. CASE s.phase = "OPEN" /\ s = socket[k]
      <4>1. /\ s.timer <= now + RecheckEvery /\ now <= s.timer
            /\ TrueAt(s.user, TRUE, s.timer - RecheckEvery - CacheTtl - LookupTimeout)
        BY <1>0, <3>2 DEF SocketFits
      <4>2. lookups'[l].until <= s.timer + LookupTimeout
        <5>1. lookups' \in Seq(Lookups)
          BY <2>2 DEF IdentityInv, IdentityTypes
        <5>2. lookups'[l] \in Lookups
          BY <2>2, <5>1
        <5>3. lookups'[l].until \in Nat
          BY <5>2 DEF Lookups
        <5> QED BY <1>0, <2>2, <2>3, <4>1, <5>3
      <4>3. TrueAt(t.user, TRUE, t.timer - RecheckEvery - CacheTtl - LookupTimeout)'
        BY <2>3, <4>1 DEF TrueAt
      <4> QED BY <2>2, <2>3, <3>2, <4>1, <4>2, <4>3 DEF SocketFits
    <3> QED BY <3>1, <3>2
  <2>5. SocketsFit'
    BY <1>0, <2>1, <2>2, <2>3, <2>4, SocketBecomes
  <2>6. ClosedStays' /\ SocketLimits'
    <3>1. t.phase = "OPEN" => socket[k].phase = "OPEN" /\ t.user = socket[k].user
      BY <2>3
    <3>2. /\ t.phase \in {"AUTHENTICATING", "OPEN", "CLOSED"}
          /\ t.phase = "AUTHENTICATING" => socket[k].phase # "OPEN"
      BY <2>3
    <3> QED BY <1>0, <2>1, <2>3, <3>1, <3>2, SocketTurns DEF HubInv
  <2> QED BY <2>2, <2>5, <2>6 DEF HubInv
<1> QED BY <1>1, <1>2

(* A lookup that a socket awaited has ended.                               *)
LEMMA SocketResumes ==
    ASSUME HubInv, NEW k \in Sockets, Resume(k), UNCHANGED now
    PROVE  HubInv'
<1> USE HubConstants
<1> DEFINE s == socket[k]
           l == s.waits
           ok == lookups[l].phase = "ARRIVED" /\ lookups[l].ok
           t == [(IF StillThere(k) THEN Resolved(s, ok) ELSE s) EXCEPT !.waits = 0]
<1>1. /\ l # 0 /\ lookups[l].phase \in {"ARRIVED", "FAILED"} /\ Becomes(k, t)
      /\ UNCHANGED identityVars /\ UNCHANGED stopping
  BY DEF Resume
<1>2. s \in SocketRows /\ SocketFits(s) /\ IdentityInv
  BY DEF HubInv, SocketsFit
<1>3. /\ s.user \in People /\ s.phase \in {"AUTHENTICATING", "OPEN", "CLOSED"}
      /\ l \in DOMAIN lookups /\ lookups[l].user = s.user /\ now <= lookups[l].until
  BY <1>1, <1>2 DEF SocketFits
<1>4. IdentityInv' /\ \A r : SocketFits(r) => SocketFits(r)'
  BY <1>1, <1>2, IdentityUndisturbed
<1>5. ok \in BOOLEAN /\ (ok => TrueAt(s.user, TRUE, now - CacheTtl - LookupTimeout))
  <2>1. /\ now \in Nat /\ lookups \in Seq(Lookups) /\ since \in [People -> Nat]
    BY <1>2 DEF IdentityInv, IdentityTypes
  <2>2. lookups[l] \in Lookups
    BY <1>3, <2>1
  <2>3. lookups[l].ok \in BOOLEAN /\ lookups[l].until \in Nat
    BY <2>2 DEF Lookups
  <2>4. TrueAt(lookups[l].user, lookups[l].ok, lookups[l].until - LookupTimeout)
    BY <1>2, <1>3 DEF IdentityInv, LookupsFit
  <2> HIDE DEF s, l
  <2>5. now - CacheTtl - LookupTimeout <= lookups[l].until - LookupTimeout /\ since[s.user] \in Nat
    BY <1>3, <2>1, <2>3
  <2>6. ok => TrueAt(s.user, TRUE, now - CacheTtl - LookupTimeout)
    BY <1>3, <2>1, <2>3, <2>4, <2>5 DEF TrueAt
  <2> QED BY <2>3, <2>6
<1>6. CASE s.phase # "CLOSED"
  <2>1. t = [Resolved(s, ok) EXCEPT !.waits = 0]
    BY <1>6 DEF StillThere
  <2>2. s.phase \in {"AUTHENTICATING", "OPEN"} /\ k \in Held
    BY <1>3, <1>6 DEF Held
  <2> HIDE DEF s, ok, t
  <2>3. /\ t \in SocketRows /\ SocketFits(t) /\ t.user = s.user /\ t.phase \in {"OPEN", "CLOSED"}
        /\ t.phase = "OPEN" /\ s.phase # "OPEN" => ~OwnFull(t.user)
    BY <1>2, <1>3, <1>5, <2>1, <2>2, SocketResolved
  <2>4. SocketsFit'
    BY <1>1, <1>4, <2>3, SocketBecomes
  <2>5. ClosedStays' /\ SocketLimits'
    <3>1. t.phase = "OPEN" => \/ socket[k].phase = "OPEN" /\ t.user = socket[k].user
                              \/ ~OwnFull(t.user)
      BY <2>3 DEF s
    <3>2. t.phase # "AUTHENTICATING" /\ t.phase \in {"AUTHENTICATING", "OPEN", "CLOSED"}
      BY <2>3
    <3>3. socket \in [Sockets -> SocketRows]
      BY DEF HubInv, SocketsFit
    <3> QED BY <1>1, <2>2, <2>3, <3>1, <3>2, <3>3, SocketTurns DEF HubInv
  <2> QED BY <1>4, <2>4, <2>5 DEF HubInv
<1>7. CASE s.phase = "CLOSED"
  <2>1. t = [s EXCEPT !.waits = 0]
    BY <1>7 DEF StillThere
  <2>2. t \in SocketRows /\ t.user = s.user /\ t.phase = "CLOSED" /\ t.waits = 0
    BY <1>2, <1>7, <2>1 DEF SocketRows
  <2> HIDE DEF t
  <2>3. SocketFits(t)
    BY <2>2 DEF SocketFits
  <2>4. SocketsFit'
    BY <1>1, <1>4, <2>2, <2>3, SocketBecomes
  <2>5. /\ socket' = [socket EXCEPT ![k] = t] /\ ended' \subseteq ended \cup {k} /\ ended \subseteq Sockets
        /\ socket \in [Sockets -> SocketRows]
    BY <1>1 DEF Becomes, HubInv, SocketsFit
  <2>6. \A j \in Sockets : socket'[j].user = socket[j].user /\ socket'[j].phase \in {socket[j].phase, "CLOSED"}
    BY <2>2, <2>5
  <2>7. \A j \in ended' : j \in ended \/ socket'[j].phase = "CLOSED"
    BY <2>2, <2>5
  <2>8. ClosedStays' /\ SocketLimits'
    BY <1>1, <2>5, <2>6, <2>7, SocketsClose DEF HubInv
  <2> QED BY <1>4, <2>4, <2>8 DEF HubInv
<1> QED BY <1>6, <1>7

LEMMA HubStart ==
    ASSUME IdentityInit, HubInit
    PROVE  HubInv
<1> USE HubConstants
<1>1. /\ now = 0 /\ news = {} /\ cache = {} /\ lookups = <<>>
      /\ standing = [u \in People |-> [version |-> 1, ok |-> TRUE]]
      /\ since = [u \in People |-> 0] /\ inflight = [u \in People |-> 0] /\ heard = [u \in People |-> 0]
  BY DEF IdentityInit
<1>2. socket = [k \in Sockets |-> NotOpen] /\ stopping = FALSE /\ ended = {}
  BY DEF HubInit
<1>3. lookups \in Seq(Lookups) /\ DOMAIN lookups = {}
  BY <1>1
<1>4. IdentityTypes
  BY <1>1, <1>3 DEF IdentityTypes
<1>5. NewsFit /\ CacheFits /\ LookupsFit
  BY <1>1, <1>3 DEF NewsFit, CacheFits, InvalidationsHold, LookupsFit
<1>6. NotOpen \in SocketRows /\ NotOpen.phase = "NEW" /\ NotOpen.waits = 0
  BY DEF NotOpen, SocketRows
<1>7. SocketFits(NotOpen)
  BY <1>6 DEF SocketFits
<1>8. SocketsFit
  BY <1>2, <1>6, <1>7 DEF SocketsFit
<1>9. Held = {} /\ Pending = {} /\ \A u : ByUser(u) = {}
  BY <1>2, <1>6 DEF Held, Pending, ByUser
<1>10. ClosedStays
  BY <1>2 DEF ClosedStays
<1>11. SocketLimits
  BY <1>9, FS_EmptySet DEF SocketLimits
<1> QED BY <1>4, <1>5, <1>8, <1>10, <1>11 DEF IdentityInv, HubInv

(* Each step of the hub keeps it.                                          *)
LEMMA HubStep ==
    ASSUME HubInv, HubNext
    PROVE  HubInv'
<1>0. IdentityInv /\ SocketsFit
  BY DEF HubInv
<1>1. CASE IdentityStep /\ UNCHANGED <<now, hubVars>>
  <2>1. IdentityInv' /\ \A s \in SocketRows : SocketFits(s) => SocketFits(s)'
    <3>1. CASE \E u \in People, ok \in BOOLEAN : Changes(u, ok, TRUE)
      BY <1>0, <1>1, <3>1, StandingChanges
    <3>2. CASE \E u \in People : Changes(u, FALSE, FALSE)
      BY <1>0, <1>1, <3>2, StandingChanges
    <3>3. CASE \E m \in news : EventDropped(m) \/ InvalidateUser(m)
      BY <1>0, <1>1, <3>3, NewsArrives
    <3>4. CASE \E l \in DOMAIN lookups : Introspected(l)
      BY <1>0, <1>1, <3>4, LookupAnswered
    <3>5. CASE \E l \in DOMAIN lookups : Settled(l, "ARRIVED") \/ Settled(l, "FAILED")
      BY <1>0, <1>1, <3>5, LookupSettled
    <3> QED BY <1>1, <3>1, <3>2, <3>3, <3>4, <3>5 DEF IdentityStep
  <2>2. UNCHANGED <<socket, stopping, ended>>
    BY <1>1 DEF hubVars
  <2>3. SocketsFit'
    <3>1. ASSUME NEW k \in Sockets PROVE SocketFits(socket[k])'
      <4>1. PICK r : r = socket[k]
        OBVIOUS
      <4>2. r \in SocketRows /\ SocketFits(r)
        BY <1>0, <4>1 DEF SocketsFit
      <4>3. SocketFits(r)'
        BY <2>1, <4>2
      <4> QED BY <2>2, <4>1, <4>3 DEF SocketFits, TrueAt
    <3> QED BY <1>0, <2>2, <3>1 DEF SocketsFit
  <2>4. ClosedStays' /\ SocketLimits'
    BY <2>2 DEF HubInv, ClosedStays, SocketLimits, Held, Pending, ByUser
  <2> QED BY <2>1, <2>3, <2>4 DEF HubInv
<1>2. CASE SocketStep /\ UNCHANGED now
  <2>1. ASSUME NEW k \in Sockets, Connect(k) PROVE HubInv'
    BY <1>2, <2>1, SocketConnects
  <2>2. ASSUME NEW k \in Sockets, ReceivedOther(k) \/ Disconnected(k) \/ AuthTimesOut(k) \/ TokenExpires(k)
        PROVE  HubInv'
    <3>1. End({k}) /\ UNCHANGED identityVars /\ UNCHANGED stopping
      BY <2>2 DEF ReceivedOther, Disconnected, AuthTimesOut, TokenExpires
    <3>2. IdentityInv' /\ \A s : SocketFits(s) => SocketFits(s)'
      BY <1>0, <1>2, <3>1, IdentityUndisturbed
    <3>3. SocketsFit' /\ ClosedStays' /\ SocketLimits'
      BY <3>1, <3>2, SocketsEnd
    <3> QED BY <3>2, <3>3 DEF HubInv
  <2>3. ASSUME NEW k \in Sockets, Recheck(k) PROVE HubInv'
    <3>1. /\ socket[k].phase = "OPEN" /\ socket[k].waits = 0 /\ Authenticate(k, socket[k])
          /\ UNCHANGED <<standing, since, news, cache, heard, stopping>>
      BY <2>3 DEF Recheck
    <3>2. socket[k] \in SocketRows /\ socket[k].user \in People /\ k \in Held
      BY <1>0, <3>1 DEF SocketsFit, SocketFits, Held
    <3> QED BY <1>2, <3>1, <3>2, SocketAuthenticates
  <2>4. ASSUME NEW k \in Sockets, Pong(k) PROVE HubInv'
    BY <1>2, <2>4, SocketsBeat
  <2>5. ASSUME NEW k \in Sockets, Resume(k) PROVE HubInv'
    BY <1>2, <2>5, SocketResumes
  <2>6. ASSUME NEW k \in Sockets, NEW u \in People, ReceivedAuth(k, u) PROVE HubInv'
    <3> DEFINE s == [socket[k] EXCEPT !.phase = "AUTHENTICATING", !.user = u, !.expires = now + TokenLife]
    <3>1. /\ socket[k].phase = "AWAITING_AUTH" /\ Authenticate(k, s)
          /\ UNCHANGED <<standing, since, news, cache, heard, stopping>>
      BY <2>6 DEF ReceivedAuth
    <3>2. socket[k] \in SocketRows /\ SocketFits(socket[k]) /\ now + TokenLife \in Nat /\ k \in Held
      <4>1. socket[k] \in SocketRows /\ SocketFits(socket[k])
        BY <1>0 DEF SocketsFit
      <4>2. now + TokenLife \in Nat
        BY <1>0, HubConstants DEF IdentityInv, IdentityTypes
      <4>3. k \in Held
        BY <3>1 DEF Held
      <4> QED BY <4>1, <4>2, <4>3
    <3>3. socket[k].waits = 0
      BY <3>1, <3>2 DEF SocketFits
    <3>4. s \in SocketRows /\ s.user = u /\ s.phase = "AUTHENTICATING" /\ s.waits = 0
      BY <3>2, <3>3 DEF SocketRows
    <3> HIDE DEF s
    <3> QED BY <1>2, <3>1, <3>2, <3>4, SocketAuthenticates
  <2>7. CASE Beat
    BY <1>2, <2>7, SocketsBeat
  <2>8. CASE OnModuleDestroy
    <3>1. End(Held) /\ UNCHANGED identityVars /\ Held \subseteq Sockets
      BY <2>8 DEF OnModuleDestroy, Held
    <3>2. IdentityInv' /\ \A s : SocketFits(s) => SocketFits(s)'
      BY <1>0, <1>2, <3>1, IdentityUndisturbed
    <3>3. SocketsFit' /\ ClosedStays' /\ SocketLimits'
      BY <3>1, <3>2, SocketsEnd
    <3> QED BY <3>2, <3>3 DEF HubInv
  <2>9. ASSUME NEW m \in news, SocketStatusChanged(m) PROVE HubInv'
    <3>1. InvalidateUser(m) /\ End(ByUser(m.user)) /\ UNCHANGED stopping /\ ByUser(m.user) \subseteq Sockets
      BY <2>9 DEF SocketStatusChanged, ByUser, Held
    <3>2. IdentityInv' /\ \A s : SocketFits(s) => SocketFits(s)'
      BY <1>0, <1>2, <3>1, NewsArrives
    <3>3. SocketsFit' /\ ClosedStays' /\ SocketLimits'
      BY <3>1, <3>2, SocketsEnd
    <3> QED BY <3>2, <3>3 DEF HubInv
  <2> QED BY <1>2, <2>1, <2>2, <2>3, <2>4, <2>5, <2>6, <2>7, <2>8, <2>9 DEF SocketStep
<1>3. CASE Tick
  <2>1. IdentityInv' /\ SocketsFit'
    BY <1>0, <1>3, TimePasses
  <2>2. ClosedStays' /\ SocketLimits'
    BY <1>3 DEF Tick, hubVars, HubInv, ClosedStays, SocketLimits, Held, Pending, ByUser
  <2> QED BY <2>1, <2>2 DEF HubInv
<1> QED BY <1>1, <1>2, <1>3 DEF HubNext

(* The parts of the hub's invariant that bound how long a socket stays.    *)
LEMMA BarredAreClosed ==
    ASSUME HubInv
    PROVE  BarredSocketsClose
<1> USE HubConstants
<1> SUFFICES ASSUME NEW k \in Sockets, socket[k].phase = "OPEN", ~standing[socket[k].user].ok
             PROVE  now <= since[socket[k].user] + RecheckEvery + CacheTtl + 2 * LookupTimeout
  BY DEF BarredSocketsClose
<1> DEFINE s == socket[k]
<1>1. s \in SocketRows /\ SocketFits(s) /\ now \in Nat /\ since \in [People -> Nat] /\ lookups \in Seq(Lookups)
  BY DEF HubInv, SocketsFit, IdentityInv, IdentityTypes
<1>2. s.user \in People /\ s.timer \in Nat
  BY <1>1 DEF SocketFits, SocketRows
<1>3. since[s.user] \in Nat
  BY <1>1, <1>2
<1>4. s.timer - RecheckEvery - CacheTtl - LookupTimeout <= since[s.user]
  BY <1>1 DEF SocketFits, TrueAt
<1>5. CASE s.waits = 0
  <2>1. now <= s.timer
    BY <1>1, <1>5 DEF SocketFits
  <2> HIDE DEF s
  <2>2. now <= since[s.user] + RecheckEvery + CacheTtl + 2 * LookupTimeout
    <3>1. /\ now \in Int /\ since[s.user] \in Int /\ s.timer \in Int
          /\ RecheckEvery \in Int /\ CacheTtl \in Int /\ LookupTimeout \in Nat
      BY <1>1, <1>2, <1>3
    <3> QED BY <1>4, <2>1, <3>1
  <2> QED BY <2>2 DEF s
<1>6. CASE s.waits # 0
  <2> DEFINE l == s.waits
  <2>1. l \in DOMAIN lookups /\ now <= lookups[l].until /\ lookups[l].until <= s.timer + LookupTimeout
    BY <1>1, <1>6 DEF SocketFits
  <2>2. lookups[l] \in Lookups
    BY <1>1, <2>1
  <2>3. lookups[l].until \in Nat
    BY <2>2 DEF Lookups
  <2> HIDE DEF s, l
  <2>4. now \in Nat
    BY <1>1
  <2>5. now <= s.timer + LookupTimeout
    BY <1>2, <2>1, <2>3, <2>4
  <2>6. now <= since[s.user] + RecheckEvery + CacheTtl + 2 * LookupTimeout
    BY <1>2, <1>3, <1>4, <2>4, <2>5
  <2> QED BY <2>6 DEF s
<1> QED BY <1>5, <1>6

(* The invariant of the hub and its cache.                                 *)
THEOREM HubInvHolds == Spec => []HubInv
<1>1. Init => HubInv
  BY HubStart DEF Init
<1>2. HubInv /\ [Next]_vars => HubInv'
  <2>1. ASSUME HubInv, UNCHANGED socketVars PROVE HubInv'
    <3>1. UNCHANGED <<now, identityVars>> /\ UNCHANGED <<socket, stopping, ended>>
      BY <2>1 DEF socketVars, hubVars
    <3>2. IdentityInv' /\ \A s : SocketFits(s) => SocketFits(s)'
      BY <2>1, <3>1, IdentityUndisturbed DEF HubInv
    <3>3. SocketsFit'
      <4>1. ASSUME NEW k \in Sockets PROVE SocketFits(socket[k])'
        <5>1. PICK r : r = socket[k]
          OBVIOUS
        <5>2. SocketFits(r)
          BY <2>1, <5>1 DEF HubInv, SocketsFit
        <5>3. SocketFits(r)'
          BY <3>2, <5>2
        <5> QED BY <3>1, <5>1, <5>3 DEF SocketFits, TrueAt
      <4> QED BY <2>1, <3>1, <4>1 DEF HubInv, SocketsFit
    <3>4. ClosedStays' /\ SocketLimits'
      BY <2>1, <3>1 DEF HubInv, ClosedStays, SocketLimits, Held, Pending, ByUser
    <3> QED BY <3>2, <3>3, <3>4 DEF HubInv
  <2>2. [Next]_vars => HubNext \/ UNCHANGED socketVars
    BY DEF Next, vars, SocketsNext, SuppliersNext, DraftNext, ErrandNext, TalkNext, ListNext, LoginNext,
           AdminNext, DeskPagesNext, PickupNext, TimesNext
  <2> QED BY <2>1, <2>2, HubStep
<1> QED BY <1>1, <1>2, PTL DEF Spec

(* A cached identity never outlives the event that changed it, a student   *)
(* who is barred keeps no socket beyond the recheck and the age of an      *)
(* answer although every event is lost, and a socket that was closed stays *)
(* closed, for any number of students, sockets, lookups and events.        *)
THEOREM SocketsFollow == Spec => []SocketsFollowAccounts
<1>1. HubInv => SocketsFollowAccounts
  BY BarredAreClosed DEF HubInv, IdentityInv, CacheFits, SocketsFollowAccounts
<1> QED BY <1>1, HubInvHolds, PTL

-----------------------------------------------------------------------------
(* Messages of one sender.                                                 *)

(* A sender's own lock is held by one send at a time, and the one that     *)
(* holds the channel too has found room in the window.                     *)
RateInv ==
    /\ clock \in Nat /\ IsFiniteSet(messages)
    /\ \A m \in messages : m.at \in Int /\ m.at <= clock
    /\ \A s, t \in sends : s.by = t.by /\ {s.phase, t.phase} \subseteq {"SENDER", "CHANNEL"} => s = t
    /\ \A s \in sends : s.phase = "CHANNEL" => Cardinality(Recent(s.by)) < SendLimit
    /\ RateKept

(* A set of messages that shrinks, or a clock that moves on, leaves fewer  *)
(* in each window.                                                         *)
LEMMA FewerMessages ==
    ASSUME RateInv, messages' \subseteq messages, clock' \in {clock, clock + 1}, sends' \subseteq sends
    PROVE  RateInv'
<1>1. clock \in Nat /\ IsFiniteSet(messages) /\ (\A m \in messages : m.at \in Int /\ m.at <= clock) /\ Window \in Nat
      /\ SendLimit \in Nat
  BY ChatAssumption DEF RateInv
<1>2. IsFiniteSet(messages')
  BY <1>1, FS_Subset
<1>3. clock' \in Nat /\ \A m \in messages' : m.at \in Int /\ m.at <= clock'
  BY <1>1
<1>4. ASSUME NEW s \in sends', s.phase = "CHANNEL" PROVE Cardinality(Recent(s.by)') < SendLimit
  <2>1. Recent(s.by)' \subseteq Recent(s.by)
    <3>1. \A m \in messages : m.at > clock' - Window => m.at > clock - Window
      BY <1>1
    <3> QED BY <3>1 DEF Recent
  <2>2. IsFiniteSet(Recent(s.by))
    BY <1>1, FS_Subset DEF Recent
  <2>3. /\ Cardinality(Recent(s.by)') <= Cardinality(Recent(s.by))
        /\ Cardinality(Recent(s.by)') \in Nat /\ Cardinality(Recent(s.by)) \in Nat
    BY <2>1, <2>2, FS_Subset, FS_CardinalityType
  <2>4. Cardinality(Recent(s.by)) < SendLimit
    BY <1>4 DEF RateInv
  <2> QED BY <1>1, <2>3, <2>4
<1>5. RateKept'
  <2>1. ASSUME NEW m \in messages', m.at >= 0
        PROVE  Cardinality({n \in messages' : n.by = m.by /\ n.at \in m.at - Window + 1 .. m.at}) <= SendLimit
    <3> DEFINE A == {n \in messages : n.by = m.by /\ n.at \in m.at - Window + 1 .. m.at}
               B == {n \in messages' : n.by = m.by /\ n.at \in m.at - Window + 1 .. m.at}
    <3>1. B \subseteq A /\ A \subseteq messages
      OBVIOUS
    <3>2. Cardinality(A) <= SendLimit
      BY <2>1 DEF RateInv, RateKept
    <3> HIDE DEF A, B
    <3>3. IsFiniteSet(A)
      BY <1>1, <3>1, FS_Subset
    <3>4. Cardinality(B) <= Cardinality(A) /\ Cardinality(B) \in Nat /\ Cardinality(A) \in Nat
      BY <3>1, <3>3, FS_Subset, FS_CardinalityType
    <3>5. Cardinality(B) <= SendLimit
      BY <1>1, <3>2, <3>4
    <3> QED BY <3>5 DEF B
  <2> QED BY <2>1 DEF RateKept
<1>6. \A s, t \in sends' : s.by = t.by /\ {s.phase, t.phase} \subseteq {"SENDER", "CHANNEL"} => s = t
  BY DEF RateInv
<1> QED BY <1>2, <1>3, <1>4, <1>5, <1>6 DEF RateInv

(* One send is replaced by another of the same sender.                     *)
LEMMA SenderProceeds ==
    ASSUME RateInv, UNCHANGED <<messages, clock>>, NEW s \in sends, NEW t, t.by = s.by,
           sends' \subseteq (sends \ {s}) \cup {t},
           t.phase \in {"SENDER", "CHANNEL"} => s.phase \in {"SENDER", "CHANNEL"} \/ FreeSender(s),
           t.phase = "CHANNEL" => Cardinality(Recent(s.by)) < SendLimit
    PROVE  RateInv'
<1>1. \A x, y \in sends' : x.by = y.by /\ {x.phase, y.phase} \subseteq {"SENDER", "CHANNEL"} => x = y
  <2> SUFFICES ASSUME NEW x \in sends', NEW y \in sends', x.by = y.by,
                      x.phase \in {"SENDER", "CHANNEL"}, y.phase \in {"SENDER", "CHANNEL"}
               PROVE  x = y
    BY SMT
  <2>1. \A a, b \in sends : a.by = b.by /\ a.phase \in {"SENDER", "CHANNEL"} /\ b.phase \in {"SENDER", "CHANNEL"} => a = b
    BY DEF RateInv
  <2>2. ASSUME NEW a \in sends \ {s}, a.by = t.by, a.phase \in {"SENDER", "CHANNEL"},
               t.phase \in {"SENDER", "CHANNEL"}
        PROVE  FALSE
    BY <2>1, <2>2 DEF FreeSender
  <2>3. CASE x = t
    BY <2>2, <2>3
  <2>4. CASE y = t
    BY <2>2, <2>4
  <2>5. CASE x \in sends /\ y \in sends
    BY <2>1, <2>5
  <2> QED BY <2>3, <2>4, <2>5
<1>2. \A x \in sends' : x.phase = "CHANNEL" => Cardinality(Recent(x.by)') < SendLimit
  <2>1. \A by : Recent(by)' = Recent(by)
    BY DEF Recent
  <2>2. \A x \in sends' : x \in sends \/ x = t
    OBVIOUS
  <2>3. \A x \in sends : x.phase = "CHANNEL" => Cardinality(Recent(x.by)) < SendLimit
    BY DEF RateInv
  <2> QED BY <2>1, <2>2, <2>3
<1>3. RateKept'
  BY DEF RateInv, RateKept
<1> QED BY <1>1, <1>2, <1>3 DEF RateInv

(* A send begins.                                                          *)
LEMMA SenderBegins ==
    ASSUME RateInv, UNCHANGED <<messages, clock>>, NEW t, t.phase \notin {"SENDER", "CHANNEL"},
           sends' \subseteq sends \cup {t}
    PROVE  RateInv'
<1>1. \A x, y \in sends' : x.by = y.by /\ {x.phase, y.phase} \subseteq {"SENDER", "CHANNEL"} => x = y
  <2>1. \A a, b \in sends : a.by = b.by /\ a.phase \in {"SENDER", "CHANNEL"} /\ b.phase \in {"SENDER", "CHANNEL"} => a = b
    BY DEF RateInv
  <2> QED BY <2>1
<1>2. \A x \in sends' : x.phase = "CHANNEL" => Cardinality(Recent(x.by)') < SendLimit
  BY DEF RateInv, Recent
<1>3. RateKept'
  BY DEF RateInv, RateKept
<1> QED BY <1>1, <1>2, <1>3 DEF RateInv

(* A message is stored while its sender's lock is held.                    *)
LEMMA MessageStored ==
    ASSUME ChatInv, RateInv, NEW s \in sends, SendStored(s)
    PROVE  RateInv'
<1> DEFINE m == [channel |-> s.channel, seq |-> s.seq, by |-> s.by, client |-> s.client, at |-> clock]
<1>1. s.phase = "CHANNEL" /\ messages' = messages \cup {m} /\ clock' = clock /\ SendAnswered(s, "SENT", s.seq)
  BY DEF SendStored
<1>2. clock \in Nat /\ IsFiniteSet(messages) /\ (\A n \in messages : n.at \in Int /\ n.at <= clock)
      /\ Window \in Nat \ {0} /\ SendLimit \in Nat
  BY ChatAssumption DEF RateInv
<1>3. m.by = s.by /\ m.at = clock
  OBVIOUS
<1> HIDE DEF m
<1>4. IsFiniteSet(messages')
  BY <1>1, <1>2, FS_AddElement
<1>5. PICK t : t.phase = "DONE" /\ sends' \subseteq (sends \ {s}) \cup {t}
  <2>1. s \in [channel : Channels, by : {s.by}, client : {s.client}, awaited : {s.awaited}, rev : {s.rev},
               phase : {s.phase}, order : {s.order}, seq : {s.seq}, answer : {s.answer}]
    BY DEF ChatInv, SendsFit, SendFits
  <2>2. [s EXCEPT !.phase = "DONE", !.answer = "SENT", !.seq = s.seq].phase = "DONE"
    BY <2>1
  <2>3. sends' \subseteq (sends \ {s}) \cup {[s EXCEPT !.phase = "DONE", !.answer = "SENT", !.seq = s.seq]}
    BY <1>1 DEF SendAnswered
  <2> QED BY <2>2, <2>3
<1>6. \A a, b \in sends : a.by = b.by /\ a.phase \in {"SENDER", "CHANNEL"} /\ b.phase \in {"SENDER", "CHANNEL"} => a = b
  BY DEF RateInv
<1>7. \A x, y \in sends' : x.by = y.by /\ {x.phase, y.phase} \subseteq {"SENDER", "CHANNEL"} => x = y
  BY <1>5, <1>6
<1>8. ASSUME NEW x \in sends', x.phase = "CHANNEL" PROVE Cardinality(Recent(x.by)') < SendLimit
  <2>1. x \in sends /\ x # s
    BY <1>5, <1>8
  <2>2. x.by # s.by
    BY <1>1, <1>6, <1>8, <2>1
  <2>3. Recent(x.by)' = Recent(x.by)
    BY <1>1, <1>3, <2>2 DEF Recent
  <2> QED BY <1>8, <2>1, <2>3 DEF RateInv
<1>9. Cardinality(Recent(s.by) \cup {m}) <= SendLimit /\ IsFiniteSet(Recent(s.by) \cup {m})
  <2>1. IsFiniteSet(Recent(s.by))
    BY <1>2, FS_Subset DEF Recent
  <2>2. Cardinality(Recent(s.by)) < SendLimit /\ Cardinality(Recent(s.by)) \in Nat
    BY <1>1, <2>1, FS_CardinalityType DEF RateInv
  <2>3. /\ IsFiniteSet(Recent(s.by) \cup {m})
        /\ Cardinality(Recent(s.by) \cup {m}) = IF m \in Recent(s.by) THEN Cardinality(Recent(s.by))
                                                ELSE Cardinality(Recent(s.by)) + 1
    BY <2>1, FS_AddElement
  <2> QED BY <1>2, <2>2, <2>3
<1>10. RateKept'
  <2>1. ASSUME NEW n \in messages', n.at >= 0
        PROVE  Cardinality({x \in messages' : x.by = n.by /\ x.at \in n.at - Window + 1 .. n.at}) <= SendLimit
    <3> DEFINE A == {x \in messages : x.by = n.by /\ x.at \in n.at - Window + 1 .. n.at}
               B == {x \in messages' : x.by = n.by /\ x.at \in n.at - Window + 1 .. n.at}
    <3>1. n.at \in Int /\ n.at <= clock
      BY <1>1, <1>2, <1>3
    <3>2. CASE n.by = s.by /\ n.at = clock
      <4>1. B \subseteq Recent(s.by) \cup {m}
        <5>1. ASSUME NEW x \in messages', x.by = n.by, x.at \in n.at - Window + 1 .. n.at
              PROVE  x \in Recent(s.by) \cup {m}
          <6>1. x \in messages => x.at > clock - Window
            BY <1>2, <3>2, <5>1
          <6> QED BY <1>1, <3>2, <5>1, <6>1 DEF Recent
        <5> QED BY <5>1
      <4> HIDE DEF B
      <4>2. Cardinality(B) <= Cardinality(Recent(s.by) \cup {m}) /\ Cardinality(B) \in Nat
             /\ Cardinality(Recent(s.by) \cup {m}) \in Nat
        BY <1>9, <4>1, FS_Subset, FS_CardinalityType
      <4>3. Cardinality(B) <= SendLimit
        BY <1>2, <1>9, <4>2
      <4> QED BY <4>3 DEF B
    <3>3. CASE ~(n.by = s.by /\ n.at = clock)
      <4>1. n \in messages
        BY <1>1, <1>3, <3>3
      <4>2. m.by = n.by => m.at \notin n.at - Window + 1 .. n.at
        BY <1>2, <1>3, <3>1, <3>3
      <4>3. B = A
        BY <1>1, <4>2
      <4>4. Cardinality(A) <= SendLimit
        BY <2>1, <4>1 DEF RateInv, RateKept
      <4> QED BY <4>3, <4>4
    <3> QED BY <3>2, <3>3
  <2> QED BY <2>1 DEF RateKept
<1>11. \A n \in messages' : n.at \in Int /\ n.at <= clock'
  BY <1>1, <1>2, <1>3
<1> QED BY <1>1, <1>2, <1>4, <1>7, <1>8, <1>10, <1>11 DEF RateInv

(* A send takes its next step.                                             *)
LEMMA SenderSteps ==
    ASSUME ChatInv, RateInv, NEW s \in sends,
           SendAsked(s) \/ SendChecked(s) \/ LockSender(s) \/ LockChannel(s) \/ LockTimesOut(s)
    PROVE  RateInv'
<1>1. UNCHANGED <<messages, clock>>
  BY DEF SendAsked, SendChecked, LockSender, LockChannel, LockTimesOut
<1>2. s \in [channel : Channels, by : {s.by}, client : {s.client}, awaited : {s.awaited}, rev : {s.rev},
             phase : {s.phase}, order : {s.order}, seq : {s.seq}, answer : {s.answer}]
  BY DEF ChatInv, SendsFit, SendFits
<1>3. ASSUME NEW answer, NEW seq, SendAnswered(s, answer, seq) PROVE RateInv'
  <2> DEFINE t == [s EXCEPT !.phase = "DONE", !.answer = answer, !.seq = seq]
  <2>1. t.by = s.by /\ t.phase = "DONE"
    BY <1>2
  <2>2. sends' \subseteq (sends \ {s}) \cup {t}
    BY <1>3 DEF SendAnswered
  <2> HIDE DEF t
  <2> QED BY <1>1, <2>1, <2>2, SenderProceeds
<1>4. ASSUME NEW t, Proceeds(s, t), t.by = s.by,
             \/ t.phase \in {"KNOWN", "BEGUN"}
             \/ t.phase = "SENDER" /\ FreeSender(s)
             \/ t.phase = "CHANNEL" /\ s.phase = "SENDER" /\ Cardinality(Recent(s.by)) < SendLimit
      PROVE  RateInv'
  <2>1. sends' \subseteq (sends \ {s}) \cup {t}
    BY <1>4 DEF Proceeds
  <2> QED BY <1>1, <1>4, <2>1, SenderProceeds
<1>5. ASSUME SendAsked(s) PROVE RateInv'
  <2> DEFINE t == [s EXCEPT !.phase = "KNOWN", !.order = orders[s.channel]]
  <2>1. t.by = s.by /\ t.phase = "KNOWN"
    BY <1>2
  <2>2. Proceeds(s, t) \/ SendAnswered(s, "UNAVAILABLE", 0)
    BY <1>5 DEF SendAsked
  <2> HIDE DEF t
  <2> QED BY <1>3, <1>4, <2>1, <2>2
<1>6. ASSUME SendChecked(s) PROVE RateInv'
  <2> DEFINE t == [s EXCEPT !.phase = "BEGUN"]
  <2>1. t.by = s.by /\ t.phase = "BEGUN"
    BY <1>2
  <2>2. Proceeds(s, t) \/ \E answer, seq : SendAnswered(s, answer, seq)
    BY <1>6 DEF SendChecked
  <2> HIDE DEF t
  <2> QED BY <1>3, <1>4, <2>1, <2>2
<1>7. ASSUME LockSender(s) PROVE RateInv'
  <2> DEFINE t == [s EXCEPT !.phase = "SENDER"]
  <2>1. t.by = s.by /\ t.phase = "SENDER"
    BY <1>2
  <2>2. Proceeds(s, t) /\ FreeSender(s)
    BY <1>7 DEF LockSender
  <2> HIDE DEF t
  <2> QED BY <1>4, <2>1, <2>2
<1>8. ASSUME LockChannel(s) PROVE RateInv'
  <2> DEFINE t == [s EXCEPT !.phase = "CHANNEL", !.seq = channels[s.channel].latest + 1]
  <2>1. t.by = s.by /\ t.phase = "CHANNEL"
    BY <1>2
  <2>2. s.phase = "SENDER"
    BY <1>8 DEF LockChannel
  <2>3. \/ \E answer, seq : SendAnswered(s, answer, seq)
        \/ Proceeds(s, t) /\ ~(Cardinality(Recent(s.by)) >= SendLimit)
    BY <1>8 DEF LockChannel
  <2> HIDE DEF t
  <2>4. Cardinality(Recent(s.by)) \in Nat /\ SendLimit \in Nat
    <3>1. IsFiniteSet(Recent(s.by))
      BY FS_Subset DEF RateInv, Recent
    <3> QED BY <3>1, FS_CardinalityType, ChatAssumption
  <2>5. ~(Cardinality(Recent(s.by)) >= SendLimit) => Cardinality(Recent(s.by)) < SendLimit
    BY <2>4
  <2> QED BY <1>3, <1>4, <2>1, <2>2, <2>3, <2>5
<1>9. ASSUME LockTimesOut(s) PROVE RateInv'
  BY <1>3, <1>9 DEF LockTimesOut
<1> QED BY <1>5, <1>6, <1>7, <1>8, <1>9

LEMMA RateStep ==
    ASSUME ChatInv, RateInv, ChatPageNext
    PROVE  RateInv'
<1>0. clock \in Nat
  BY DEF RateInv
<1>a. ASSUME UNCHANGED <<messages, clock, sends>> PROVE RateInv'
  BY <1>a, FewerMessages
<1>1. ASSUME ServerNext PROVE RateInv'
  <2>1. ASSUME NEW c \in Channels, NEW courier \in {Me, Nobody}, NEW ends \in BOOLEAN,
               ErrandChanges(c, courier, ends)
        PROVE  RateInv'
    BY <1>a, <2>1 DEF ErrandChanges
  <2>2. ASSUME NEW c \in Channels, NEW by, SendsElsewhere(c, by) PROVE RateInv'
    <3> DEFINE t == NewSend(c, by, <<"ELSEWHERE", quota["SEND_ELSEWHERE"]>>, FALSE, 0)
    <3>1. t.phase = "ASKED"
      BY DEF NewSend
    <3>2. UNCHANGED <<messages, clock>> /\ sends' \subseteq sends \cup {t}
      BY <2>2 DEF SendsElsewhere
    <3> HIDE DEF t
    <3> QED BY <3>1, <3>2, SenderBegins
  <2>3. ASSUME NEW s \in sends,
               SendAsked(s) \/ SendChecked(s) \/ LockSender(s) \/ LockChannel(s) \/ LockTimesOut(s)
        PROVE  RateInv'
    BY <2>3, SenderSteps
  <2>4. ASSUME NEW s \in sends, SendStored(s) PROVE RateInv'
    BY <2>4, MessageStored
  <2>5. ASSUME SecondPasses PROVE RateInv'
    BY <2>5, FewerMessages DEF SecondPasses
  <2>6. ASSUME DayPasses \/ SweepStarts \/ PageSettled PROVE RateInv'
    BY <1>a, <2>6 DEF DayPasses, SweepStarts, PageSettled, ChatKept
  <2>7. ASSUME NEW c \in Channels, Settle(c) \/ DeleteFails(c) PROVE RateInv'
    BY <1>a, <2>7 DEF Settle, DeleteFails, ChatKept
  <2>8. ASSUME NEW c \in Channels, DeleteChannel(c) PROVE RateInv'
    <3>1. messages' \subseteq messages /\ clock' = clock /\ sends' = sends
      BY <2>8 DEF DeleteChannel
    <3> QED BY <3>1, FewerMessages
  <2> QED BY <1>1, <2>1, <2>2, <2>3, <2>4, <2>5, <2>6, <2>7, <2>8 DEF ServerNext
<1>2. ASSUME RefreshSteps PROVE RateInv'
  <2>1. UNCHANGED <<messages, clock, sends>>
    BY <1>2 DEF RefreshSteps, RefreshServed, ServerKept, RefreshArrives, ChatTimer, RefreshNow, ErrandShown,
                Restart, chatVars
  <2> QED BY <1>a, <2>1
<1>3. ASSUME OutgoingSteps PROVE RateInv'
  <2>1. ASSUME NEW client, Transmit(client) PROVE RateInv'
    <3> DEFINE t == NewSend(Mine, Me, client, TRUE, chat.rev)
    <3>1. t.phase = "ASKED"
      BY DEF NewSend
    <3>2. UNCHANGED <<messages, clock>> /\ sends' \subseteq sends \cup {t}
      BY <2>1 DEF Transmit
    <3> HIDE DEF t
    <3> QED BY <3>1, <3>2, SenderBegins
  <2>2. ASSUME NEW s \in sends, SendArrives(s) PROVE RateInv'
    <3>1. messages' = messages /\ clock' = clock /\ sends' \subseteq sends
      BY <2>2 DEF SendArrives
    <3> QED BY <3>1, FewerMessages
  <2>3. ASSUME NEW s \in sends, SendLost(s) PROVE RateInv'
    <3> DEFINE t == [s EXCEPT !.awaited = FALSE]
    <3>1. s \in [channel : Channels, by : {s.by}, client : {s.client}, awaited : {s.awaited}, rev : {s.rev},
                 phase : {s.phase}, order : {s.order}, seq : {s.seq}, answer : {s.answer}]
      BY DEF ChatInv, SendsFit, SendFits
    <3>2. t.by = s.by /\ t.phase = s.phase
      BY <3>1
    <3>3. UNCHANGED <<messages, clock>> /\ sends' \subseteq (sends \ {s}) \cup {t}
      BY <2>3 DEF SendLost
    <3> HIDE DEF t
    <3>4. t.phase = "CHANNEL" => Cardinality(Recent(s.by)) < SendLimit
      BY <3>2 DEF RateInv
    <3> QED BY <3>2, <3>3, <3>4, SenderProceeds
  <2>4. ASSUME ThrottleEnds PROVE RateInv'
    BY <1>a, <2>4 DEF ThrottleEnds, chatVars
  <2> QED BY <1>3, <2>1, <2>2, <2>3, <2>4 DEF OutgoingSteps, SendMessage, RetryMessage
<1>4. ASSUME ReadingSteps PROVE RateInv'
  <2>1. UNCHANGED <<messages, clock, sends>>
    BY <1>4 DEF ReadingSteps, OlderServed, ServerKept, MarkServed, Older, MarkVisibleRead, OlderArrives, MarkArrives,
                chatVars
  <2> QED BY <1>a, <2>1
<1> QED BY <1>1, <1>2, <1>3, <1>4 DEF ChatPageNext

(* What was said before is older than the window.                          *)
LEMMA RateStart ==
    ASSUME NEW talk \in Nat, NEW read \in Nat, ChatInit(talk, read)
    PROVE  RateInv
<1> DEFINE Earlier(c, n) == [channel |-> c, seq |-> n, by |-> Other, client |-> <<"EARLIER", n>>, at |-> -Window]
<1>1. /\ clock = 0 /\ sends = {} /\ Window \in Nat \ {0} /\ IsFiniteSet(Channels)
      /\ messages = {Earlier(c, n) : c \in Channels, n \in 1 .. talk}
  BY ChatAssumption, FS_Interval DEF ChatInit, Channels
<1>2. \A m \in messages : m.at = -Window
  BY <1>1
<1>3. IsFiniteSet(messages)
  <2> DEFINE P == Channels \X (1 .. talk)
             f == [p \in P |-> Earlier(p[1], p[2])]
  <2>1. IsFiniteSet(1 .. talk)
    BY FS_Interval
  <2>2. IsFiniteSet(P)
    BY <1>1, <2>1, FS_Product
  <2>3. \A p \in P : f[p] \in messages
    <3>1. \A p \in P : p[1] \in Channels /\ p[2] \in 1 .. talk
      OBVIOUS
    <3> QED BY <1>1, <3>1
  <2>4. \A m \in messages : \E p \in P : f[p] = m
    <3> SUFFICES ASSUME NEW m \in messages PROVE \E p \in P : f[p] = m
      OBVIOUS
    <3>1. PICK c \in Channels, n \in 1 .. talk : m = Earlier(c, n)
      BY <1>1
    <3>2. <<c, n>> \in P /\ f[<<c, n>>] = m
      BY <3>1
    <3> QED BY <3>2
  <2>5. f \in [P -> messages]
    BY <2>3
  <2> HIDE DEF f, P
  <2>6. f \in Surjection(P, messages)
    BY <2>4, <2>5 DEF Surjection
  <2> QED BY <2>2, <2>6, FS_Surjection
<1>4. \A m \in messages : m.at \in Int /\ m.at < 0 /\ m.at <= clock
  BY <1>1, <1>2
<1>5. RateKept
  BY <1>4 DEF RateKept
<1> QED BY <1>1, <1>3, <1>4, <1>5 DEF RateInv

-----------------------------------------------------------------------------
(* Guesses at a password.                                                  *)

Guesses(email, from) == {t \in tried : t.email = email /\ t.at >= from}
GuessesIn(email, from, to) == {t \in tried : t.email = email /\ t.at >= from /\ t.at < to}
OpenWindows(email) == {w \in windows["EMAIL"] : w.key = email /\ w.resetsAt > minute}

(* The latest window of an account began at b.  Every later guess fell     *)
(* into it and, while it is open, the limiter has it and has counted       *)
(* those guesses.  The one before ended by b, so the guesses of a window's *)
(* length before b were its own.                                           *)
LatestWindow(email, b) ==
    /\ Cardinality(Guesses(email, b)) <= PerEmail
    /\ Cardinality(GuessesIn(email, b - LimitWindow, b)) <= PerEmail
    /\ \A t \in Guesses(email, b) : t.at < b + LimitWindow
    /\ b + LimitWindow > minute => OpenWindows(email) # {}
    /\ \A w \in OpenWindows(email) : w.resetsAt = b + LimitWindow /\ Cardinality(Guesses(email, b)) <= w.count

GuessTypes ==
    /\ minute \in Nat /\ IsFiniteSet(tried)
    /\ \A t \in tried : t.email \in Emails /\ t.at \in 0 .. minute
    /\ DOMAIN windows = {"IP", "EMAIL"}
    /\ windows["EMAIL"] \subseteq [key : Emails, count : Nat, resetsAt : Int]
    /\ \A w, v \in windows["EMAIL"] : w.key = v.key => w = v

GuessInv ==
    /\ GuessTypes
    /\ LimitWindow > 0 => \A email \in Emails : \E b \in (-LimitWindow) .. minute : LatestWindow(email, b)
    /\ GuessesBounded

(* hit: one window for the key, its own or a new one; the open windows of  *)
(* other keys stay.                                                        *)
LEMMA CountedFits ==
    ASSUME GuessTypes, NEW email \in Emails, NEW C, C = Counted(windows["EMAIL"], email)
    PROVE  /\ C \subseteq [key : Emails, count : Nat, resetsAt : Int]
           /\ \A w, v \in C : w.key = v.key => w = v
           /\ \A w \in C : w.key # email => w \in windows["EMAIL"]
           /\ \A w \in windows["EMAIL"] : w.key # email /\ w.resetsAt > minute => w \in C
           /\ \E n \in C : /\ n.key = email
                           /\ \/ /\ OpenWindows(email) = {}
                                 /\ n.count = 1 /\ n.resetsAt = minute + LimitWindow
                              \/ \E w \in OpenWindows(email) : n.count = w.count + 1 /\ n.resetsAt = w.resetsAt
<1> DEFINE ws == windows["EMAIL"]
           kept == IF Cardinality(ws) > MaxKeys THEN Prune(ws) ELSE ws
           own == {w \in kept : w.key = email /\ w.resetsAt > minute}
           next == IF own = {} THEN [key |-> email, count |-> 1, resetsAt |-> minute + LimitWindow]
                   ELSE LET w == CHOOSE w \in own : TRUE IN [w EXCEPT !.count = @ + 1]
<1>1. minute \in Nat /\ LimitWindow \in Nat /\ ws \subseteq [key : Emails, count : Nat, resetsAt : Int]
      /\ \A w, v \in ws : w.key = v.key => w = v
  BY LimitAssumption DEF GuessTypes
<1>2. C = {w \in kept : w.key # email} \cup {next}
  BY DEF Counted
<1>3. kept \subseteq ws /\ \A w \in ws : w.resetsAt > minute => w \in kept
  BY DEF Prune
<1>4. own = OpenWindows(email)
  BY <1>3 DEF OpenWindows
<1> HIDE DEF kept, ws
<1>5. /\ next \in [key : Emails, count : Nat, resetsAt : Int] /\ next.key = email
      /\ \/ OpenWindows(email) = {} /\ next.count = 1 /\ next.resetsAt = minute + LimitWindow
         \/ \E w \in OpenWindows(email) : next.count = w.count + 1 /\ next.resetsAt = w.resetsAt
  <2>1. CASE own = {}
    <3>1. next = [key |-> email, count |-> 1, resetsAt |-> minute + LimitWindow]
      BY <2>1
    <3>2. minute + LimitWindow \in Int
      BY <1>1
    <3> QED BY <1>4, <2>1, <3>1, <3>2
  <2>2. CASE own # {}
    <3> DEFINE w == CHOOSE w \in own : TRUE
    <3>1. w \in own
      BY <2>2
    <3>2. next = [w EXCEPT !.count = @ + 1]
      BY <2>2
    <3> HIDE DEF w, next
    <3>3. w \in [key : Emails, count : Nat, resetsAt : Int] /\ w.key = email /\ w \in OpenWindows(email)
      BY <1>1, <1>3, <1>4, <3>1
    <3> HIDE DEF own
    <3>4. /\ next \in [key : Emails, count : Nat, resetsAt : Int] /\ next.key = email
          /\ next.count = w.count + 1 /\ next.resetsAt = w.resetsAt
      BY <3>2, <3>3
    <3> QED BY <3>3, <3>4
  <2> QED BY <2>1, <2>2
<1> HIDE DEF own, next
<1>6. \A w \in C : w.key # email => w \in ws
  BY <1>2, <1>3, <1>5
<1>7. \A w, v \in C : w.key = v.key => w = v
  BY <1>1, <1>2, <1>3, <1>5
<1>8. C \subseteq [key : Emails, count : Nat, resetsAt : Int]
  BY <1>1, <1>2, <1>3, <1>5
<1>9. \A w \in ws : w.key # email /\ w.resetsAt > minute => w \in C
  BY <1>2, <1>3
<1>10. next \in C
  BY <1>2
<1> QED BY <1>5, <1>6, <1>7, <1>8, <1>9, <1>10 DEF ws

(* One guess more.                                                         *)
LEMMA OneMoreGuess ==
    ASSUME NEW S, IsFiniteSet(S), NEW g
    PROVE  /\ IsFiniteSet(S \cup {g}) /\ Cardinality(S) \in Nat /\ Cardinality(S \cup {g}) \in Nat
           /\ Cardinality(S \cup {g}) <= Cardinality(S) + 1
BY FS_AddElement, FS_CardinalityType

(* An attempt that is counted, let through or not, leaves every account a  *)
(* latest window: for its own account the open one, or one that starts.    *)
LEMMA CountedWindows ==
    ASSUME GuessInv, LimitWindow > 0, NEW email \in Emails, NEW g, g.email = email, g.at = minute,
           minute' = minute, windows'["EMAIL"] = Counted(windows["EMAIL"], email),
           tried' = IF Allowed("EMAIL", windows'["EMAIL"], email) THEN tried \cup {g} ELSE tried,
           NEW e \in Emails
    PROVE  \E b \in (-LimitWindow) .. minute : LatestWindow(e, b)'
<1> DEFINE C == windows'["EMAIL"]
<1>1. /\ minute \in Nat /\ LimitWindow \in Nat /\ PerEmail \in Nat /\ IsFiniteSet(tried)
      /\ \A t \in tried : t.at \in Int /\ t.at <= minute
  BY LimitAssumption DEF GuessInv, GuessTypes
<1>2. /\ C \subseteq [key : Emails, count : Nat, resetsAt : Int]
      /\ \A w, v \in C : w.key = v.key => w = v
      /\ \A w \in C : w.key # email => w \in windows["EMAIL"]
      /\ \A w \in windows["EMAIL"] : w.key # email /\ w.resetsAt > minute => w \in C
  <2>1. GuessTypes
    BY DEF GuessInv
  <2> QED BY <2>1, CountedFits
<1>3. PICK n \in C : /\ n.key = email
                     /\ \/ OpenWindows(email) = {} /\ n.count = 1 /\ n.resetsAt = minute + LimitWindow
                        \/ \E w \in OpenWindows(email) : n.count = w.count + 1 /\ n.resetsAt = w.resetsAt
  <2>1. GuessTypes
    BY DEF GuessInv
  <2> QED BY <2>1, CountedFits
<1>4. PICK b \in (-LimitWindow) .. minute : LatestWindow(e, b)
  BY DEF GuessInv
<1>5. b \in Int /\ b <= minute /\ -LimitWindow <= b
  BY <1>1, <1>4
<1>6. tried' = tried \/ (tried' = tried \cup {g} /\ n.count <= PerEmail)
  BY <1>2, <1>3 DEF Allowed, Limit
<1>7. CASE e # email
  <2>1. \A from, to : Guesses(e, from)' = Guesses(e, from) /\ GuessesIn(e, from, to)' = GuessesIn(e, from, to)
    BY <1>6, <1>7 DEF Guesses, GuessesIn
  <2>2. OpenWindows(e)' = OpenWindows(e)
    BY <1>2, <1>7 DEF OpenWindows
  <2>3. LatestWindow(e, b)'
    BY <1>4, <2>1, <2>2 DEF LatestWindow
  <2> QED BY <1>4, <2>3
<1>8. CASE e = email
  <2>1. OpenWindows(e)' = IF n.resetsAt > minute THEN {n} ELSE {}
    BY <1>2, <1>3, <1>8 DEF OpenWindows
  <2>2. \A from : IsFiniteSet(Guesses(e, from)) /\ IsFiniteSet(Guesses(e, from)')
    <3>1. IsFiniteSet(tried')
      BY <1>1, <1>6, OneMoreGuess
    <3>2. \A from : Guesses(e, from) \subseteq tried /\ Guesses(e, from)' \subseteq tried'
      BY DEF Guesses
    <3> QED BY <1>1, <3>1, <3>2, FS_Subset
  <2>3. \A from : Cardinality(Guesses(e, from)) \in Nat /\ Cardinality(Guesses(e, from)') \in Nat
    BY <2>2, FS_CardinalityType
  <2>4. n.count \in Nat /\ n.resetsAt \in Int
    BY <1>2
  <2>5. CASE OpenWindows(email) = {} /\ n.count = 1 /\ n.resetsAt = minute + LimitWindow
    <3>1. b + LimitWindow <= minute
      BY <1>1, <1>4, <1>5, <1>8, <2>5 DEF LatestWindow
    <3>2. Guesses(e, minute) = {}
      <4>1. \A t \in tried : t.at >= minute /\ t.email = e => t \in Guesses(e, b)
        BY <1>1, <1>5 DEF Guesses
      <4>2. \A t \in Guesses(e, b) : t.at < b + LimitWindow
        BY <1>4 DEF LatestWindow
      <4>3. \A t \in tried : t.at >= minute /\ t.email = e => FALSE
        BY <1>1, <1>5, <3>1, <4>1, <4>2
      <4> QED BY <4>3 DEF Guesses
    <3>3. Guesses(e, minute)' \subseteq {g} /\ (tried' = tried => Guesses(e, minute)' = {})
      BY <1>6, <3>2 DEF Guesses
    <3>4. Cardinality(Guesses(e, minute)') <= 1 /\ Cardinality(Guesses(e, minute)') <= PerEmail
      <4>1. Guesses(e, minute)' = {} \/ Guesses(e, minute)' = {g}
        BY <3>3
      <4>2. Cardinality({}) = 0 /\ Cardinality({g}) = 1
        BY FS_EmptySet, FS_Singleton
      <4>3. CASE Guesses(e, minute)' = {}
        BY <1>1, <4>2, <4>3
      <4>4. CASE Guesses(e, minute)' = {g}
        <5>1. tried' # tried
          BY <3>3, <4>4
        <5>2. 1 <= PerEmail
          BY <1>6, <2>5, <5>1
        <5> QED BY <4>2, <4>4, <5>2
      <4> QED BY <4>1, <4>3, <4>4
    <3>5. Cardinality(GuessesIn(e, minute - LimitWindow, minute)') <= PerEmail
      <4>1. GuessesIn(e, minute - LimitWindow, minute)' \subseteq Guesses(e, b)
        <5>1. ASSUME NEW t \in tried', t.email = e, t.at >= minute - LimitWindow, t.at < minute
              PROVE  t \in tried /\ t.at >= b
          <6>1. t \in tried
            BY <1>1, <1>6, <5>1
          <6> QED BY <1>1, <1>5, <3>1, <5>1, <6>1
        <5> QED BY <5>1 DEF GuessesIn, Guesses
      <4>2. /\ Cardinality(GuessesIn(e, minute - LimitWindow, minute)') <= Cardinality(Guesses(e, b))
            /\ IsFiniteSet(GuessesIn(e, minute - LimitWindow, minute)')
        BY <2>2, <4>1, FS_Subset
      <4>3. Cardinality(GuessesIn(e, minute - LimitWindow, minute)') \in Nat
        BY <4>2, FS_CardinalityType
      <4>4. Cardinality(Guesses(e, b)) <= PerEmail
        BY <1>4 DEF LatestWindow
      <4> QED BY <1>1, <2>3, <4>2, <4>3, <4>4
    <3>6. \A t \in Guesses(e, minute)' : t.at < minute + LimitWindow
      BY <1>1, <3>3
    <3>7. OpenWindows(e)' = {n}
      BY <1>1, <2>1, <2>5
    <3>8. LatestWindow(e, minute)'
      BY <2>5, <3>4, <3>5, <3>6, <3>7 DEF LatestWindow
    <3>9. minute \in (-LimitWindow) .. minute
      BY <1>1
    <3> QED BY <3>8, <3>9
  <2>6. CASE \E w \in OpenWindows(email) : n.count = w.count + 1 /\ n.resetsAt = w.resetsAt
    <3>1. PICK w \in OpenWindows(email) : n.count = w.count + 1 /\ n.resetsAt = w.resetsAt
      BY <2>6
    <3>2. w.resetsAt > minute /\ w.count \in Nat
      BY <3>1 DEF OpenWindows, GuessInv, GuessTypes
    <3>3. w.resetsAt = b + LimitWindow /\ Cardinality(Guesses(e, b)) <= w.count
      BY <1>4, <1>8, <3>1 DEF LatestWindow
    <3>4. OpenWindows(e)' = {n}
      BY <2>1, <3>1, <3>2
    <3>5. Guesses(e, b)' = Guesses(e, b) \/ (Guesses(e, b)' = Guesses(e, b) \cup {g} /\ n.count <= PerEmail)
      BY <1>1, <1>5, <1>6, <1>8 DEF Guesses
    <3>6. Cardinality(Guesses(e, b) \cup {g}) <= Cardinality(Guesses(e, b)) + 1
      BY <2>2, OneMoreGuess
    <3>7. Cardinality(Guesses(e, b)) <= PerEmail
      BY <1>4 DEF LatestWindow
    <3>8. Cardinality(Guesses(e, b)') <= n.count /\ Cardinality(Guesses(e, b)') <= PerEmail
      <4>1. CASE Guesses(e, b)' = Guesses(e, b)
        BY <2>3, <2>4, <3>1, <3>2, <3>3, <3>7, <4>1
      <4>2. CASE Guesses(e, b)' = Guesses(e, b) \cup {g} /\ n.count <= PerEmail
        <5>1. Cardinality(Guesses(e, b)') <= Cardinality(Guesses(e, b)) + 1
          BY <3>6, <4>2
        <5>2. n.count <= PerEmail
          BY <4>2
        <5> HIDE <4>2
        <5>3. Cardinality(Guesses(e, b)') <= n.count
          BY <2>3, <2>4, <3>1, <3>2, <3>3, <5>1
        <5> QED BY <1>1, <2>3, <2>4, <5>2, <5>3
      <4> QED BY <3>5, <4>1, <4>2
    <3>9. GuessesIn(e, b - LimitWindow, b)' = GuessesIn(e, b - LimitWindow, b)
      BY <1>1, <1>5, <1>6 DEF GuessesIn
    <3>10. \A t \in Guesses(e, b)' : t.at < b + LimitWindow
      <4>1. \A t \in Guesses(e, b) : t.at < b + LimitWindow
        BY <1>4 DEF LatestWindow
      <4>2. g.at < b + LimitWindow
        BY <1>1, <3>2, <3>3
      <4> QED BY <3>5, <4>1, <4>2
    <3>11. Cardinality(GuessesIn(e, b - LimitWindow, b)) <= PerEmail
      BY <1>4 DEF LatestWindow
    <3>12. LatestWindow(e, b)'
      BY <3>1, <3>3, <3>4, <3>8, <3>9, <3>10, <3>11 DEF LatestWindow
    <3> QED BY <1>4, <3>12
  <2> QED BY <1>3, <2>5, <2>6
<1> QED BY <1>7, <1>8

(* A stretch of a window's length that reaches the present lies in the     *)
(* latest window and the one before; any other is as it was.               *)
LEMMA CountedGuesses ==
    ASSUME GuessInv, NEW email \in Emails, NEW g, g.email = email, g.at = minute,
           minute' = minute, windows'["EMAIL"] = Counted(windows["EMAIL"], email),
           tried' = IF Allowed("EMAIL", windows'["EMAIL"], email) THEN tried \cup {g} ELSE tried
    PROVE  GuessesBounded'
<1> DEFINE Near(t) == {s \in tried : s.email = t.email /\ s.at \in t.at .. t.at + LimitWindow - 1}
           NearNow(t) == {s \in tried' : s.email = t.email /\ s.at \in t.at .. t.at + LimitWindow - 1}
<1>1. /\ minute \in Nat /\ LimitWindow \in Nat /\ PerEmail \in Nat /\ IsFiniteSet(tried)
      /\ \A t \in tried : t.email \in Emails /\ t.at \in Int /\ t.at <= minute
  BY LimitAssumption DEF GuessInv, GuessTypes
<1>2. IsFiniteSet(tried') /\ \A t \in tried' : t.email \in Emails /\ t.at \in Int /\ t.at <= minute
  <2>1. IsFiniteSet(tried \cup {g})
    BY <1>1, OneMoreGuess
  <2>2. \A t \in tried \cup {g} : t.email \in Emails /\ t.at \in Int /\ t.at <= minute
    BY <1>1
  <2> QED BY <1>1, <2>1, <2>2
<1>3. ASSUME NEW t \in tried' PROVE Cardinality(NearNow(t)) <= 2 * PerEmail
  <2>1. CASE LimitWindow = 0
    <3>1. NearNow(t) = {}
      BY <1>2, <2>1
    <3>2. Cardinality(NearNow(t)) = 0
      BY <3>1, FS_EmptySet
    <3> QED BY <1>1, <3>2
  <2>2. CASE LimitWindow > 0 /\ t.at + LimitWindow - 1 >= minute
    <3>1. PICK b \in (-LimitWindow) .. minute : LatestWindow(t.email, b)'
      BY <1>2, <2>2, CountedWindows
    <3> DEFINE A == Guesses(t.email, b)'
               B == GuessesIn(t.email, b - LimitWindow, b)'
    <3>2. NearNow(t) \subseteq A \cup B
      <4>1. ASSUME NEW s \in tried', s.email = t.email, s.at \in t.at .. t.at + LimitWindow - 1
            PROVE  s.at >= b \/ (s.at >= b - LimitWindow /\ s.at < b)
        BY <1>1, <1>2, <2>2, <3>1, <4>1
      <4> QED BY <4>1 DEF Guesses, GuessesIn
    <3>3. IsFiniteSet(A) /\ IsFiniteSet(B)
      BY <1>2, FS_Subset DEF Guesses, GuessesIn
    <3>4. Cardinality(A) <= PerEmail /\ Cardinality(B) <= PerEmail
      BY <3>1 DEF LatestWindow
    <3> HIDE DEF A, B, NearNow
    <3>5. IsFiniteSet(A \cup B) /\ Cardinality(A \cup B) = Cardinality(A) + Cardinality(B) - Cardinality(A \cap B)
      BY <3>3, FS_Union
    <3>6. Cardinality(NearNow(t)) <= Cardinality(A \cup B) /\ IsFiniteSet(NearNow(t))
      BY <3>2, <3>5, FS_Subset
    <3>7. IsFiniteSet(A \cap B)
      BY <3>3, FS_Intersection
    <3>8. {Cardinality(A), Cardinality(B), Cardinality(A \cap B), Cardinality(A \cup B), Cardinality(NearNow(t))} \subseteq Nat
      BY <3>3, <3>5, <3>6, <3>7, FS_CardinalityType
    <3> QED BY <1>1, <3>4, <3>5, <3>6, <3>8
  <2>3. CASE LimitWindow > 0 /\ ~(t.at + LimitWindow - 1 >= minute)
    <3>1. t.at # minute
      BY <1>1, <1>2, <2>3
    <3>2. t \in tried
      BY <3>1
    <3>3. g.at \notin t.at .. t.at + LimitWindow - 1
      BY <1>1, <1>2, <2>3
    <3>4. NearNow(t) = Near(t)
      BY <3>3
    <3>5. Cardinality(Near(t)) <= 2 * PerEmail
      BY <3>2 DEF GuessInv, GuessesBounded
    <3> QED BY <3>4, <3>5
  <2> QED BY <1>1, <2>1, <2>2, <2>3
<1> QED BY <1>3 DEF GuessesBounded

LEMMA GuessStep ==
    ASSUME GuessInv, LimitsNext
    PROVE  GuessInv'
<1>0. GuessTypes /\ minute \in Nat /\ LimitWindow \in Nat
  BY LimitAssumption DEF GuessInv, GuessTypes
<1>1. ASSUME MinutePasses PROVE GuessInv'
  <2>1. minute' = minute + 1 /\ UNCHANGED <<windows, tried>>
    BY <1>1 DEF MinutePasses
  <2>2. GuessTypes'
    <3>1. \A t \in tried : t.at \in 0 .. minute => t.at \in 0 .. minute + 1
      BY <1>0
    <3> QED BY <1>0, <2>1, <3>1 DEF GuessTypes
  <2>3. GuessesBounded'
    BY <2>1 DEF GuessInv, GuessesBounded
  <2>4. ASSUME LimitWindow > 0, NEW e \in Emails
        PROVE  \E b \in (-LimitWindow) .. minute' : LatestWindow(e, b)'
    <3>1. PICK b \in (-LimitWindow) .. minute : LatestWindow(e, b)
      BY <2>4 DEF GuessInv
    <3>2. b \in (-LimitWindow) .. minute' /\ b \in Int
      BY <1>0, <2>1, <3>1
    <3>3. \A w \in windows["EMAIL"] : w.resetsAt \in Int
      BY <1>0 DEF GuessTypes
    <3>4. OpenWindows(e)' \subseteq OpenWindows(e)
      <4>1. \A w \in windows["EMAIL"] : w.resetsAt > minute' => w.resetsAt > minute
        BY <1>0, <2>1, <3>3
      <4> QED BY <2>1, <4>1 DEF OpenWindows
    <3>5. \A from, to : Guesses(e, from)' = Guesses(e, from) /\ GuessesIn(e, from, to)' = GuessesIn(e, from, to)
      BY <2>1 DEF Guesses, GuessesIn
    <3>6. b + LimitWindow > minute' => OpenWindows(e)' # {}
      <4> SUFFICES ASSUME b + LimitWindow > minute' PROVE OpenWindows(e)' # {}
        OBVIOUS
      <4>1. b + LimitWindow > minute
        BY <1>0, <2>1, <3>2
      <4>2. PICK w \in OpenWindows(e) : w.resetsAt = b + LimitWindow
        BY <3>1, <4>1 DEF LatestWindow
      <4>3. w \in OpenWindows(e)'
        BY <2>1, <4>2 DEF OpenWindows
      <4> QED BY <4>3
    <3>7. LatestWindow(e, b)'
      BY <3>1, <3>4, <3>5, <3>6 DEF LatestWindow
    <3> QED BY <3>2, <3>7
  <2> QED BY <2>2, <2>3, <2>4 DEF GuessInv
<1>2. ASSUME NEW ip \in Addresses, NEW email \in Emails, LoginAttempt(ip, email) PROVE GuessInv'
  <2> DEFINE perIp == Counted(windows["IP"], ip)
             C == Counted(windows["EMAIL"], email)
             g == [email |-> email, at |-> minute, no |-> quota["LOGIN"]]
  <2>1. minute' = minute
    BY <1>2 DEF LoginAttempt
  <2>2. \/ /\ windows' = [windows EXCEPT !["IP"] = perIp, !["EMAIL"] = C]
           /\ tried' = IF Allowed("EMAIL", C, email) THEN tried \cup {g} ELSE tried
        \/ windows' = [windows EXCEPT !["IP"] = perIp] /\ UNCHANGED tried
    BY <1>2 DEF LoginAttempt
  <2>3. g.email = email /\ g.at = minute
    OBVIOUS
  <2> HIDE DEF perIp, C, g
  <2>4. CASE windows' = [windows EXCEPT !["IP"] = perIp] /\ UNCHANGED tried
    <3>1. windows'["EMAIL"] = windows["EMAIL"] /\ DOMAIN windows' = {"IP", "EMAIL"}
      BY <1>0, <2>4 DEF GuessTypes
    <3>2. \A e, b : LatestWindow(e, b)' <=> LatestWindow(e, b)
      BY <2>1, <2>4, <3>1 DEF LatestWindow, Guesses, GuessesIn, OpenWindows
    <3>3. GuessTypes'
      BY <1>0, <2>1, <2>4, <3>1 DEF GuessTypes
    <3>4. GuessesBounded'
      BY <2>4 DEF GuessInv, GuessesBounded
    <3> QED BY <2>1, <3>2, <3>3, <3>4 DEF GuessInv
  <2>5. CASE /\ windows' = [windows EXCEPT !["IP"] = perIp, !["EMAIL"] = C]
             /\ tried' = IF Allowed("EMAIL", C, email) THEN tried \cup {g} ELSE tried
    <3>1. windows'["EMAIL"] = C /\ DOMAIN windows' = {"IP", "EMAIL"}
      BY <1>0, <2>5 DEF GuessTypes
    <3>2. windows'["EMAIL"] = Counted(windows["EMAIL"], email)
      BY <3>1 DEF C
    <3>3. tried' = IF Allowed("EMAIL", windows'["EMAIL"], email) THEN tried \cup {g} ELSE tried
      BY <2>5, <3>1
    <3>4. GuessesBounded'
      BY <2>1, <2>3, <3>2, <3>3, CountedGuesses
    <3>5. \A e \in Emails : LimitWindow > 0 => \E b \in (-LimitWindow) .. minute : LatestWindow(e, b)'
      BY <2>1, <2>3, <3>2, <3>3, CountedWindows
    <3>6. /\ windows'["EMAIL"] \subseteq [key : Emails, count : Nat, resetsAt : Int]
          /\ \A w, v \in windows'["EMAIL"] : w.key = v.key => w = v
      BY <1>0, <3>2, CountedFits
    <3>7. IsFiniteSet(tried')
      BY <1>0, <3>3, OneMoreGuess DEF GuessTypes
    <3>8. \A t \in tried' : t.email \in Emails /\ t.at \in 0 .. minute'
      BY <1>0, <2>1, <2>3, <3>3 DEF GuessTypes
    <3>9. GuessTypes'
      BY <1>0, <2>1, <3>1, <3>6, <3>7, <3>8 DEF GuessTypes
    <3> QED BY <2>1, <3>4, <3>5, <3>9 DEF GuessInv
  <2> QED BY <2>2, <2>4, <2>5
<1> QED BY <1>1, <1>2 DEF LimitsNext

LEMMA GuessStart ==
    ASSUME LimitsInit
    PROVE  GuessInv
<1>1. minute = 0 /\ windows["EMAIL"] = {} /\ DOMAIN windows = {"IP", "EMAIL"} /\ tried = {}
      /\ LimitWindow \in Nat /\ PerEmail \in Nat
  BY LimitAssumption DEF LimitsInit
<1>2. IsFiniteSet({}) /\ Cardinality({}) = 0
  BY FS_EmptySet
<1>3. GuessTypes
  BY <1>1, <1>2 DEF GuessTypes
<1>4. ASSUME NEW e \in Emails PROVE \E b \in (-LimitWindow) .. minute : LatestWindow(e, b)
  <2>1. -LimitWindow \in (-LimitWindow) .. minute
    BY <1>1
  <2>2. \A from, to : Guesses(e, from) = {} /\ GuessesIn(e, from, to) = {}
    BY <1>1 DEF Guesses, GuessesIn
  <2>3. OpenWindows(e) = {}
    BY <1>1 DEF OpenWindows
  <2>4. ~((-LimitWindow) + LimitWindow > minute)
    BY <1>1
  <2>5. LatestWindow(e, -LimitWindow)
    BY <1>1, <1>2, <2>2, <2>3, <2>4 DEF LatestWindow
  <2> QED BY <2>1, <2>5
<1>5. GuessesBounded
  BY <1>1 DEF GuessesBounded
<1> QED BY <1>3, <1>4, <1>5 DEF GuessInv

-----------------------------------------------------------------------------
(* The sender's lock, held from the count to the insert, keeps the rate.   *)
THEOREM RateInvHolds == Spec => []RateInv
<1>1. Init => RateInv
  BY CasesAssumption, RateStart DEF Init
<1>2. ChatInv /\ RateInv /\ [Next]_vars => RateInv'
  <2>1. ASSUME ChatInv, RateInv, TalkNext PROVE RateInv'
    BY <2>1, RateStep DEF TalkNext
  <2>2. ASSUME RateInv, UNCHANGED talkVars PROVE RateInv'
    <3>1. UNCHANGED <<messages, clock, sends>>
      BY <2>2 DEF talkVars, chatVars
    <3> QED BY <2>2, <3>1, FewerMessages DEF RateInv
  <2>3. [Next]_vars => TalkNext \/ UNCHANGED talkVars
    BY DEF Next, vars, SocketsNext, SuppliersNext, DraftNext, ErrandNext, ListNext, LoginNext, AdminNext,
           DeskPagesNext, PickupNext, TimesNext
  <2> QED BY <2>1, <2>2, <2>3
<1> QED BY <1>1, <1>2, ChatInvHolds, PTL DEF Spec

(* Every account has a latest window that holds the guesses since,         *)
(* whatever the limiter has pruned.                                        *)
THEOREM GuessInvHolds == Spec => []GuessInv
<1>1. Init => GuessInv
  BY GuessStart DEF Init
<1>2. GuessInv /\ [Next]_vars => GuessInv'
  <2>1. ASSUME GuessInv, LoginNext PROVE GuessInv'
    BY <2>1, GuessStep DEF LoginNext
  <2>2. ASSUME GuessInv, UNCHANGED limitVars PROVE GuessInv'
    <3>1. UNCHANGED <<minute, windows, tried>>
      BY <2>2 DEF limitVars
    <3>2. GuessTypes' /\ GuessesBounded'
      BY <2>2, <3>1 DEF GuessInv, GuessTypes, GuessesBounded
    <3>3. \A e, b : LatestWindow(e, b)' <=> LatestWindow(e, b)
      BY <3>1 DEF LatestWindow, Guesses, GuessesIn, OpenWindows
    <3> QED BY <2>2, <3>1, <3>2, <3>3 DEF GuessInv
  <2>3. [Next]_vars => LoginNext \/ UNCHANGED limitVars
    BY DEF Next, vars, SocketsNext, SuppliersNext, DraftNext, ErrandNext, TalkNext, ListNext, AdminNext,
           DeskPagesNext, PickupNext, TimesNext
  <2> QED BY <2>1, <2>2, <2>3
<1> QED BY <1>1, <1>2, PTL DEF Spec

(* However many sockets, sends and logins run at once: the hub keeps its   *)
(* limits of sockets, a sender its messages in a window, and an account    *)
(* sees at most twice its limit of passwords in a window's length.         *)
THEOREM LimitsAreKept == Spec => []LimitsHold
<1>1. HubInv /\ RateInv /\ GuessInv => LimitsHold
  BY DEF LimitsHold, HubInv, RateInv, GuessInv
<1> QED BY <1>1, HubInvHolds, RateInvHolds, GuessInvHolds, PTL

=============================================================================
