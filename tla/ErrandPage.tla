----------------------------- MODULE ErrandPage -----------------------------
(***************************************************************************)
(* One errand's page in a browser tab (web-app use-order.ts, use-poll.ts,  *)
(* use-order-action.ts), the live-update stream that nudges it (live/      *)
(* connection.ts, order-service live-hub.ts) and the errand's commands     *)
(* with their idempotency keys (orders.service.ts once).  The errand moves *)
(* by the transition table; who moves it, other than this page, is left    *)
(* open.                                                                   *)
(***************************************************************************)
EXTENDS Quota, OrderStateMachine, Sequences

VARIABLES
    errand,     \* the order's row, and what its courier column holds
    viewer,     \* the student's part in the errand when the page opened
    changes,    \* status changes on their way to the hub
    board,      \* the hub's throttle of board nudges
    stream,     \* the tab's live-update stream, both ends, and its LiveStatus
    tab,        \* VISIBLE, HIDDEN or LEFT
    page,       \* what useOrder keeps
    reading,    \* the one read that has not been aborted
    dialog,     \* the command asked for, if one is
    commands,   \* commands not yet dealt with
    cmdKeys     \* order_command_idempotency_keys

pageVars == <<errand, viewer, changes, board, stream, tab, page, reading, dialog, commands, cmdKeys>>

Final == {"REJECTED", "COMPLETED", "CANCELLED", "EXPIRED"}
WaitsOnCredit(s) == s \in {"PENDING_CREDIT", "COMPLETION_PENDING_CREDIT", "RELEASE_PENDING_CREDIT"}

NotReading == [phase |-> "NONE", version |-> 0, status |-> "NONE"]
NoDialog == [action |-> "NONE", version |-> 0, tries |-> 0, busy |-> FALSE]
NewRead == [NotReading EXCEPT !.phase = "SENT"]
NoStream == [serving |-> FALSE, phase |-> "OFF", failures |-> 0, status |-> "connecting", frames |-> <<>>]

(* The page is opened, in a build with or without the live-update address, *)
(* or it is not open at all.                                               *)
PageInit(status, role, opened) ==
    /\ errand = [version |-> 1, status |-> status,
                 courier |-> status \notin {"PENDING_CREDIT", "REJECTED", "OPEN"}]
    /\ viewer = role
    /\ changes = {} /\ board = "QUIET"
    /\ tab = IF opened = "CLOSED" THEN "LEFT" ELSE "VISIBLE"
    /\ stream = CASE opened = "LIVE" -> [NoStream EXCEPT !.phase = "CONNECTING"]
                  [] opened = "POLLING" -> [NoStream EXCEPT !.phase = "NO_URL", !.status = "polling"]
                  [] OTHER -> NoStream
    /\ page = [version |-> 0, status |-> "NONE", fresh |-> TRUE, due |-> "NONE", timer |-> "NONE",
               idle |-> FALSE, problem |-> FALSE]
    /\ reading = IF opened = "CLOSED" THEN NotReading ELSE NewRead
    /\ dialog = NoDialog /\ commands = {} /\ cmdKeys = {}

-----------------------------------------------------------------------------
(* The errand moves: its row, and the change that will reach the hub.      *)
MoveBy(rule) ==
    /\ rule.from = errand.status
    /\ errand' = [version |-> errand.version + 1, status |-> rule.to,
                  courier |-> IF rule.action = "ACCEPT" THEN TRUE
                              ELSE errand.courier /\ rule.to # "OPEN" /\ rule.action \notin {"WITHDRAW", "PICKUP_TIMEOUT"}]
    /\ changes' = IF rule.emits = "NOTHING" THEN changes
                  ELSE changes \cup {[version |-> errand.version + 1,
                                      board |-> "OPEN" \in {rule.from, rule.to}]}

Moved ==
    /\ \E rule \in OrderTransitions : MoveBy(rule)
    /\ Use("MOVE")
    /\ UNCHANGED <<viewer, board, stream, tab, page, reading, dialog, commands, cmdKeys>>

(* The hub's queue drops a change: it is too old, or the queue is gone.    *)
ChangeDropped(c) ==
    /\ Use("DROP_CHANGE")
    /\ changes' = changes \ {c}
    /\ UNCHANGED <<errand, viewer, board, stream, tab, page, reading, dialog, commands, cmdKeys>>

Frame(kind, version) == [kind |-> kind, version |-> version]

(* changed: nothing while no stream is open; a board nudge, throttled; an  *)
(* errand nudge to its requester and its courier at that moment, unless    *)
(* the row cannot be read.                                                 *)
Named == viewer = "REQUESTER" \/ errand.courier

Changed(c, readable) ==
    /\ readable \/ quota["ROW_UNREADABLE"] > 0
    /\ quota' = IF readable THEN quota ELSE [quota EXCEPT !["ROW_UNREADABLE"] = @ - 1]
    /\ changes' = changes \ {c}
    /\ IF ~stream.serving THEN UNCHANGED <<stream, board>>
       ELSE LET atOnce == c.board /\ board = "QUIET"
                frames == (IF atOnce THEN <<Frame("board", 0)>> ELSE <<>>) \o
                          (IF readable /\ Named THEN <<Frame("errand", c.version)>> ELSE <<>>)
            IN  /\ stream' = [stream EXCEPT !.frames = @ \o frames]
                /\ board' = CASE atOnce -> "RECENT" [] c.board /\ ~atOnce -> "PENDING" [] OTHER -> board
    /\ UNCHANGED <<errand, viewer, tab, page, reading, dialog, commands, cmdKeys>>

(* The board interval ends: the nudge it held back goes out.               *)
BoardInterval ==
    /\ board # "QUIET"
    /\ board' = IF board = "PENDING" THEN "RECENT" ELSE "QUIET"
    /\ stream' = IF board = "PENDING" /\ stream.serving
                 THEN [stream EXCEPT !.frames = Append(@, Frame("board", 0))] ELSE stream
    /\ UNCHANGED <<errand, viewer, changes, tab, page, reading, dialog, commands, cmdKeys, quota>>

-----------------------------------------------------------------------------
(* The connection.                                                         *)
Unplugged(s) == [s EXCEPT !.serving = FALSE, !.frames = <<>>]

(* failed: from the second failure in a row it is reconnecting, from the   *)
(* fourth the page polls.                                                  *)
StreamFailed(s) ==
    LET n == IF s.failures < 4 THEN s.failures + 1 ELSE 4
    IN  [Unplugged(s) EXCEPT !.failures = n, !.phase = "WAITING",
                                 !.status = CASE n >= 4 -> "polling" [] n \in 2 .. 3 -> "reconnecting"
                                              [] OTHER -> @]

StreamOnly(s) ==
    /\ stream' = s
    /\ UNCHANGED <<errand, viewer, changes, board, tab, page, reading, dialog, commands, cmdKeys>>

StreamConnects ==
    /\ stream.phase = "CONNECTING"
    /\ StreamOnly([stream EXCEPT !.phase = "OPEN", !.serving = TRUE, !.frames = <<Frame("ready", 0)>>])
    /\ UNCHANGED quota

(* The stream is refused, too many being open or the service stopping.     *)
StreamRefused ==
    /\ stream.phase = "CONNECTING" /\ Use("REFUSE")
    /\ StreamOnly([stream EXCEPT !.phase = "WAITING", !.status = "polling"])

(* The attempt fails, or an open stream breaks.                            *)
StreamBreaks ==
    /\ stream.phase \in {"CONNECTING", "OPEN"} /\ Use("BREAK")
    /\ StreamOnly(StreamFailed(stream))

(* The hub ends the stream after its lifetime, which is far longer than a  *)
(* read takes, or because the service stops.                               *)
LifetimeEnds ==
    /\ stream.serving /\ reading.phase = "NONE"
    /\ StreamOnly([stream EXCEPT !.serving = FALSE])
    /\ UNCHANGED quota

StreamOver ==
    /\ stream.phase = "OPEN" /\ ~stream.serving /\ stream.frames = <<>>
    /\ StreamOnly(StreamFailed(stream))
    /\ UNCHANGED quota

RetryConnect ==
    /\ stream.phase = "WAITING"
    /\ StreamOnly([stream EXCEPT !.phase = "CONNECTING"])
    /\ UNCHANGED quota

-----------------------------------------------------------------------------
(* The page: useOrder and usePoll.                                         *)
(* Mutant: whatever was read last is shown.                                *)
MutantNewer(p, o) == TRUE

Newer(p, o) == o.version >= p.version

(* show: an older version is ignored; a new status wakes settled polling.  *)
Show(p, o) ==
    IF ~Newer(p, o) THEN p
    ELSE [p EXCEPT !.version = o.version, !.status = o.status,
                   !.fresh = @ \/ o.status # p.status,
                   !.due = IF o.status \notin {"OPEN", "DELIVERED"} THEN "NONE"
                           ELSE IF o.version = p.version /\ @ = "PASSED" THEN @ ELSE "AHEAD"]

(* Mutant: an errand that waits for nobody is read once and then left to   *)
(* the nudges.                                                             *)
MutantPaced(p) ==
    [p EXCEPT !.timer = IF p.status = "NONE" \/ WaitsOnCredit(p.status) THEN "SET" ELSE "NONE",
              !.idle = FALSE]

(* nextDelay.                                                              *)
Paced(p) ==
    CASE p.status = "NONE" \/ WaitsOnCredit(p.status) \/ p.fresh ->
           [p EXCEPT !.timer = "SET", !.idle = FALSE]
      [] OTHER -> [p EXCEPT !.timer = IF p.due = "AHEAD" THEN "FAR" ELSE "NONE", !.idle = TRUE]

Woken(p) == [p EXCEPT !.fresh = TRUE]

(* readNow: the read under way is aborted, unless the tab is hidden a new  *)
(* one starts, and none does once the errand has reached a final status.   *)
ReadNow(p) ==
    /\ page' = [p EXCEPT !.timer = "NONE"]
    /\ reading' = IF tab = "VISIBLE" /\ p.status \notin Final THEN NewRead ELSE NotReading

PageOnly == UNCHANGED <<errand, viewer, changes, board, tab, commands, cmdKeys>>

ReadServed ==
    /\ reading.phase = "SENT"
    /\ reading' = [phase |-> "SERVED", version |-> errand.version, status |-> errand.status]
    /\ PageOnly /\ UNCHANGED <<page, stream, dialog, quota>>

ReadArrives ==
    /\ reading.phase = "SERVED"
    /\ LET p == [Show(page, reading) EXCEPT !.problem = FALSE]
       IN  page' = IF reading.status \in Final THEN [p EXCEPT !.timer = "NONE", !.idle = FALSE] ELSE Paced(p)
    /\ reading' = NotReading
    /\ PageOnly /\ UNCHANGED <<stream, dialog, quota>>

(* The read fails: a 5xx or the network, to be tried again at the usual    *)
(* pace, or a 4xx, after which the page stops.                             *)
ReadFails(stops) ==
    /\ reading.phase # "NONE" /\ Use("READ_FAILS")
    /\ page' = [(IF stops THEN [page EXCEPT !.timer = "NONE"] ELSE Paced(page)) EXCEPT !.problem = TRUE,
                                                                                 !.idle = FALSE]
    /\ reading' = NotReading
    /\ PageOnly /\ UNCHANGED <<stream, dialog>>

PollTimer ==
    /\ reading.phase = "NONE" /\ tab # "LEFT"
    /\ page.timer = "SET" \/ (page.timer = "FAR" /\ page.due = "PASSED")
    /\ ReadNow(page)
    /\ PageOnly /\ UNCHANGED <<stream, dialog, quota>>

(* Ten minutes pass without a change, and a deadline on screen passes.     *)
GoesQuiet ==
    /\ page.fresh /\ reading.phase = "NONE" /\ page.status # "NONE" /\ Use("QUIET")
    /\ page' = [page EXCEPT !.fresh = FALSE]
    /\ PageOnly /\ UNCHANGED <<stream, reading, dialog>>

DeadlinePasses ==
    /\ page.due = "AHEAD" /\ reading.phase = "NONE"
    /\ page' = [page EXCEPT !.due = "PASSED", !.fresh = TRUE]
    /\ PageOnly /\ UNCHANGED <<stream, reading, dialog, quota>>

Ours(f) ==
    \/ f.kind = "ready"
    \/ f.kind = "errand" /\ f.version > page.version
    \/ f.kind = "board" /\ page.status = "ACCEPTED"

FrameArrives ==
    /\ stream.phase = "OPEN" /\ stream.frames # <<>>
    /\ LET f == Head(stream.frames)
       IN  /\ stream' = [stream EXCEPT !.frames = Tail(@),
                                       !.failures = IF f.kind = "ready" THEN 0 ELSE @,
                                       !.status = IF f.kind = "ready" THEN "live" ELSE @]
           /\ IF Ours(f) THEN ReadNow(Woken(page)) ELSE UNCHANGED <<page, reading>>
    /\ PageOnly /\ UNCHANGED <<dialog, quota>>

(* The tab is hidden: the stream is closed and a read due then is skipped. *)
Hide ==
    /\ tab = "VISIBLE" /\ Use("HIDE")
    /\ tab' = "HIDDEN"
    /\ stream' = [Unplugged(stream) EXCEPT !.phase = IF @ = "NO_URL" THEN @ ELSE "OFF"]
    /\ UNCHANGED <<errand, viewer, changes, board, page, reading, dialog, commands, cmdKeys>>

Return ==
    /\ tab = "HIDDEN"
    /\ tab' = "VISIBLE"
    /\ stream' = [stream EXCEPT !.phase = IF @ = "NO_URL" THEN @ ELSE "CONNECTING", !.failures = 0]
    /\ page' = [Woken(page) EXCEPT !.timer = "NONE"]
    /\ reading' = IF page.status \in Final THEN NotReading ELSE NewRead
    /\ UNCHANGED <<errand, viewer, changes, board, dialog, commands, cmdKeys, quota>>

(* The network is back: retryNow, and useOnReturn.                         *)
Online ==
    /\ tab = "VISIBLE" /\ stream.phase = "WAITING" /\ Use("ONLINE")
    /\ stream' = [stream EXCEPT !.phase = "CONNECTING", !.failures = 0]
    /\ ReadNow(Woken(page))
    /\ PageOnly /\ UNCHANGED dialog

-----------------------------------------------------------------------------
(* Commands: useOrderAction, and once in the service.                      *)
CommandsFor(status) ==
    CASE viewer = "COURIER" /\ status = "ACCEPTED" -> {"RECORD_PICKUP", "WITHDRAW"}
      [] viewer = "COURIER" /\ status = "PICKED_UP" -> {"RECORD_DELIVERY"}
      [] viewer = "REQUESTER" /\ status \in {"OPEN", "ACCEPTED"} -> {"CANCEL"}
      [] viewer = "REQUESTER" /\ status = "PICKED_UP" -> {"REPORT_NON_DELIVERY"}
      [] viewer = "REQUESTER" /\ status = "DELIVERED" -> {"CONFIRM_RECEIPT", "REPORT_NON_RECEIPT"}
      [] OTHER -> {}

DialogOnly == UNCHANGED <<errand, viewer, changes, board, stream, tab, page, reading, cmdKeys>>

Ask(action) ==
    /\ tab # "LEFT" /\ dialog = NoDialog /\ action \in CommandsFor(page.status) /\ Use("ASK")
    /\ dialog' = [NoDialog EXCEPT !.action = action, !.version = page.version]
    /\ DialogOnly /\ UNCHANGED commands

CloseDialog ==
    /\ dialog # NoDialog /\ ~dialog.busy /\ Use("CLOSE")
    /\ dialog' = NoDialog
    /\ DialogOnly /\ UNCHANGED commands

(* The same command at the same version goes with the same key.            *)
KeyOf(d) == <<d.action, d.version, 0>>

Confirm ==
    /\ dialog # NoDialog /\ ~dialog.busy /\ Use("CONFIRM")
    /\ dialog' = [dialog EXCEPT !.busy = TRUE, !.tries = @ + 1]
    /\ commands' = commands \cup {[action |-> dialog.action, version |-> dialog.version,
                                   key |-> KeyOf(dialog), awaited |-> TRUE, answer |-> "NONE",
                                   got |-> NotReading]}
    /\ DialogOnly

CommandAnswered(c, answer, row) ==
    commands' = (commands \ {c}) \cup
                (IF c.awaited THEN {[c EXCEPT !.answer = answer,
                                              !.got = [phase |-> "SERVED", version |-> row.version,
                                                       status |-> row.status]]} ELSE {})

(* withCommandKey: a recorded key answers with the errand as it is now; a  *)
(* refusal records nothing.                                                *)
CommandServed(c) ==
    LET actor == IF viewer = "REQUESTER" THEN "REQUESTER" ELSE "ASSIGNED_COURIER"
        rules == {r \in OrderTransitions : /\ r.from = errand.status /\ r.action = c.action
                                           /\ r.actor = actor /\ c.version = errand.version}
    IN  /\ c.answer = "NONE"
        /\ IF c.key \in cmdKeys
           THEN CommandAnswered(c, "DONE", errand) /\ UNCHANGED <<errand, changes, cmdKeys>>
           ELSE IF rules = {}
           THEN CommandAnswered(c, "STALE", errand) /\ UNCHANGED <<errand, changes, cmdKeys>>
           ELSE /\ \E r \in rules : MoveBy(r)
                /\ CommandAnswered(c, "DONE", errand')
                /\ cmdKeys' = cmdKeys \cup {c.key}
        /\ UNCHANGED <<viewer, board, stream, tab, page, reading, dialog, quota>>

(* onDone, or onStale: either way the page reads again.  A courier whose   *)
(* withdrawal went through is taken elsewhere.                             *)
CommandArrives(c) ==
    /\ c.awaited /\ c.answer # "NONE" /\ tab # "LEFT"
    /\ commands' = commands \ {c}
    /\ dialog' = NoDialog
    /\ IF c.answer = "DONE" /\ c.action = "WITHDRAW" /\ ~errand.courier
       THEN /\ tab' = "LEFT" /\ stream' = NoStream
            /\ reading' = NotReading /\ UNCHANGED page
       ELSE /\ ReadNow(Woken(IF c.answer = "DONE" THEN Show(page, c.got) ELSE page))
            /\ UNCHANGED <<tab, stream>>
    /\ UNCHANGED <<errand, viewer, changes, board, cmdKeys, quota>>

(* The command, or its answer, is lost: the dialog stays, to try again.    *)
CommandLost(c) ==
    /\ c.awaited /\ Use("LOSE_COMMAND")
    /\ commands' = (commands \ {c}) \cup
                   (IF c.answer = "NONE" THEN {[c EXCEPT !.awaited = FALSE]} ELSE {})
    /\ dialog' = [dialog EXCEPT !.busy = FALSE]
    /\ DialogOnly

-----------------------------------------------------------------------------
StreamSteps ==
    \/ StreamConnects \/ StreamRefused \/ StreamBreaks \/ LifetimeEnds \/ StreamOver \/ RetryConnect
    \/ FrameArrives \/ BoardInterval
    \/ \E c \in changes : ChangeDropped(c) \/ \E readable \in BOOLEAN : Changed(c, readable)

ReadSteps ==
    \/ ReadServed \/ ReadArrives \/ PollTimer \/ GoesQuiet \/ DeadlinePasses
    \/ Hide \/ Return \/ Online
    \/ \E stops \in BOOLEAN : ReadFails(stops)

CommandSteps ==
    \/ CloseDialog \/ Confirm
    \/ \E action \in OrderActions : Ask(action)
    \/ \E c \in commands : CommandServed(c) \/ CommandArrives(c) \/ CommandLost(c)

PageNext == Moved \/ StreamSteps \/ ReadSteps \/ CommandSteps

(* Reads are answered, timers fire, and a stream is opened, read and ended *)
(* by its lifetime.                                                        *)
PageFairness ==
    /\ WF_pageVars(ReadServed) /\ WF_pageVars(ReadArrives) /\ WF_pageVars(PollTimer)
    /\ WF_pageVars(FrameArrives) /\ WF_pageVars(StreamConnects) /\ WF_pageVars(RetryConnect)
    /\ WF_pageVars(LifetimeEnds) /\ WF_pageVars(StreamOver)

-----------------------------------------------------------------------------
(* The errand on screen never goes back to an earlier version, whatever    *)
(* the order in which reads and command answers arrive.                    *)
ShownForward == [][page'.version >= page.version]_pageVars

(* A command that was applied is never refused when it is sent again after *)
(* its answer was lost, even with the dialog closed and opened in between. *)
AppliedIsDone ==
    \A c \in commands : c.answer = "STALE" =>
        \A k \in cmdKeys : <<k[1], k[2]>> # <<c.action, c.version>>

Paused == page.idle /\ stream.status # "live"

(* A visible page does not stay behind the errand for ever without saying  *)
(* so: it catches up, or shows that updates are paused or that a read      *)
(* failed, even if every nudge is lost.                                    *)
CatchesUp ==
    []<>(page.version = errand.version \/ Paused \/ page.problem \/ tab # "VISIBLE")
=============================================================================
