----------------------------- MODULE MCClients ------------------------------
EXTENDS Clients, TLC

CONSTANTS me, other, nobody, ann, ben, noPerson, v1, v2, v3, blank

Kinds ==
    {"CONNECT", "FRAME", "BAD_FRAME", "DISCONNECT", "BEAT", "STOP", "CHANGE", "LOGOUT", "LOSE",
     "UNAVAILABLE", "TICK"} \cup
    {"ELSEWHERE", "LOAD", "OPEN", "CANCEL", "SAVE", "DELETE", "LOSE_SAVE"} \cup
    {"EDIT", "SUBMIT", "LOSE_POST", "RELOAD", "SUPPLIER_DOWN"} \cup
    {"MOVE", "DROP_CHANGE", "ROW_UNREADABLE", "REFUSE", "BREAK", "READ_FAILS", "QUIET", "HIDE",
     "ONLINE", "ASK", "CLOSE", "CONFIRM", "LOSE_COMMAND"} \cup
    {"ERRAND", "SEND_ELSEWHERE", "UPSTREAM_DOWN", "LOCK_TIMEOUT", "SECOND", "DAY", "SWEEP",
     "DELETE_FAILS", "CHAT_FAILS", "CHAT_REFRESH", "OLDER", "SEND", "RETRY", "LOSE_SEND", "MARK"} \cup
    {"LIST_NEW", "LIST_GONE", "LIST_TOUCH", "LIST_FAILS", "LIST_READ", "LIST_FILTER", "LIST_MORE"} \cup
    {"LOGIN", "MINUTE", "CONSOLE", "PASSWORD", "CLOSE_PROMPT", "REENTRY_EXPIRES"} \cup
    {"DESK_REFRESH", "DESK_READ_FAILS", "DESK_OPEN", "DESK_CANCEL", "DESK_CONFIRM", "DESK_LOSE", "DESK_KEY",
     "DESK_OTHER", "BROKER_DOWN"} \cup
    {"PICK_TYPE", "PICK_MORE", "PICK_FAILS", "PICK_CHANGE"} \cup
    {"HOURS_OPEN", "HOURS_EDIT", "HOURS_ADD", "HOURS_REMOVE", "HOURS_SUBMIT", "HOURS_OTHER", "HOURS_LOSE",
     "HOURS_ELSEWHERE"}

Default == [status |-> "OPEN", viewer |-> "REQUESTER", page |-> "CLOSED", talk |-> 0, read |-> 0,
            list |-> "FEED", target |-> 0, desk |-> "CLOSED", hours |-> <<>>]

Case(what, start, often) ==
    [part |-> what, start |-> start @@ Default, quota |-> often @@ [k \in Kinds |-> 0]]

AsUsual == [talk |-> 0]

(* Open twice on the first day, and over noon on the last. *)
Weekly ==
    <<[day |-> 0, opens |-> 0, closes |-> 1], [day |-> 0, opens |-> 1, closes |-> 2],
      [day |-> 1, opens |-> 1, closes |-> 0]>>

MCCases ==
    {(* Two students' sockets at the instance's limits. *)
     Case("SOCKETS", AsUsual, "CONNECT" :> 3 @@ "FRAME" :> 2 @@ "BAD_FRAME" :> 1 @@ "STOP" :> 1),
     (* One that signs in while the account changes. *)
     Case("SOCKETS", AsUsual, "CONNECT" :> 1 @@ "FRAME" :> 1 @@ "CHANGE" :> 1 @@ "LOSE" :> 1 @@ "TICK" :> 5),
     Case("SOCKETS", AsUsual, "CONNECT" :> 2 @@ "FRAME" :> 2 @@ "CHANGE" :> 1 @@ "UNAVAILABLE" :> 1 @@ "TICK" :> 1),
     Case("SOCKETS", AsUsual, "CONNECT" :> 1 @@ "FRAME" :> 1 @@ "LOGOUT" :> 1 @@ "BEAT" :> 2 @@
                              "DISCONNECT" :> 1 @@ "TICK" :> 6),
     (* Creates that are lost and tried again; edits beside another page's. *)
     Case("SUPPLIERS", AsUsual, "OPEN" :> 2 @@ "CANCEL" :> 1 @@ "SAVE" :> 3 @@ "LOSE_SAVE" :> 1),
     Case("SUPPLIERS", AsUsual, "ELSEWHERE" :> 1 @@ "LOAD" :> 1 @@ "OPEN" :> 1 @@ "SAVE" :> 2 @@
                                "DELETE" :> 1 @@ "LOSE_SAVE" :> 1),
     (* A draft sent, lost, edited and sent again. *)
     Case("DRAFT", AsUsual, "EDIT" :> 2 @@ "SUBMIT" :> 3 @@ "LOSE_POST" :> 2),
     Case("DRAFT", AsUsual, "ELSEWHERE" :> 1 @@ "EDIT" :> 1 @@ "SUBMIT" :> 3 @@ "LOSE_POST" :> 1 @@
                            "RELOAD" :> 1 @@ "SUPPLIER_DOWN" :> 1),
     (* An open errand whose nudges are lost; one whose stream keeps failing; commands. *)
     Case("ERRAND", [page |-> "LIVE"], "MOVE" :> 2 @@ "DROP_CHANGE" :> 1 @@ "HIDE" :> 1),
     Case("ERRAND", [page |-> "LIVE", status |-> "DELIVERED"],
          "MOVE" :> 1 @@ "REFUSE" :> 1 @@ "BREAK" :> 3 @@ "READ_FAILS" :> 1 @@ "ONLINE" :> 1),
     Case("ERRAND", [page |-> "LIVE", status |-> "DELIVERED"],
          "MOVE" :> 1 @@ "BREAK" :> 1 @@ "QUIET" :> 1 @@ "ROW_UNREADABLE" :> 1),
     Case("ERRAND", [page |-> "POLLING", status |-> "ACCEPTED", viewer |-> "COURIER"],
          "MOVE" :> 1 @@ "ASK" :> 2 @@ "CLOSE" :> 1 @@ "CONFIRM" :> 2 @@ "LOSE_COMMAND" :> 1),
     (* A conversation read, written to, and swept. *)
     Case("CHAT", [talk |-> 3], "ERRAND" :> 2 @@ "OLDER" :> 1 @@ "MARK" :> 1 @@ "CHAT_FAILS" :> 1 @@
                                "CHAT_REFRESH" :> 1),
     Case("CHAT", [talk |-> 2, read |-> 2], "ERRAND" :> 2 @@ "OLDER" :> 1 @@ "SEND" :> 1 @@ "CHAT_REFRESH" :> 1),
     Case("CHAT", AsUsual, "SEND" :> 1 @@ "RETRY" :> 1 @@ "LOSE_SEND" :> 1 @@ "MARK" :> 1 @@
                           "SEND_ELSEWHERE" :> 1 @@ "SECOND" :> 1),
     Case("CHAT", AsUsual, "SEND_ELSEWHERE" :> 2 @@ "UPSTREAM_DOWN" :> 1 @@ "LOCK_TIMEOUT" :> 1 @@ "SECOND" :> 1),
     Case("CHAT", [talk |-> 1, read |-> 1], "ERRAND" :> 2 @@ "DAY" :> 2 @@ "SWEEP" :> 1 @@
                                            "UPSTREAM_DOWN" :> 1 @@ "DELETE_FAILS" :> 1),
     (* The three lists. *)
     Case("LIST", AsUsual, "LIST_NEW" :> 1 @@ "LIST_GONE" :> 1 @@ "LIST_READ" :> 1 @@ "LIST_FILTER" :> 2 @@
                           "LIST_MORE" :> 2 @@ "LIST_FAILS" :> 1),
     Case("LIST", [list |-> "HISTORY"], "LIST_TOUCH" :> 1 @@ "LIST_READ" :> 1 @@ "LIST_FILTER" :> 2 @@
                                        "LIST_MORE" :> 2),
     Case("LIST", [list |-> "LEDGER"], "LIST_NEW" :> 2 @@ "LIST_READ" :> 2 @@ "LIST_MORE" :> 2),
     Case("LIST", [list |-> "LEDGER", target |-> 3], "LIST_NEW" :> 2 @@ "LIST_READ" :> 2 @@ "LIST_MORE" :> 2),
     Case("LOGIN", AsUsual, "LOGIN" :> 5 @@ "MINUTE" :> 2),
     Case("CONSOLE", AsUsual, "CONSOLE" :> 3 @@ "PASSWORD" :> 2 @@ "CLOSE_PROMPT" :> 1 @@ "REENTRY_EXPIRES" :> 1),
     (* The console's pages: redrives, a decision, pages of errands. *)
     Case("DESK", [desk |-> "LETTERS"], "DESK_REFRESH" :> 1 @@ "DESK_OPEN" :> 2 @@ "DESK_CONFIRM" :> 2 @@
                                        "DESK_CANCEL" :> 1 @@ "DESK_LOSE" :> 1),
     Case("DESK", [desk |-> "LETTERS"], "DESK_KEY" :> 2 @@ "DESK_OPEN" :> 1 @@ "DESK_CONFIRM" :> 1 @@
                                        "DESK_OTHER" :> 1 @@ "BROKER_DOWN" :> 1),
     Case("DESK", [desk |-> "DISPUTE"], "DESK_OPEN" :> 2 @@ "DESK_CONFIRM" :> 2 @@ "DESK_CANCEL" :> 1 @@
                                        "DESK_LOSE" :> 1 @@ "DESK_OTHER" :> 1),
     Case("DESK", [desk |-> "DISPUTE"], "DESK_OPEN" :> 1 @@ "DESK_CONFIRM" :> 2 @@ "DESK_LOSE" :> 1 @@
                                        "DESK_OTHER" :> 2 @@ "DESK_READ_FAILS" :> 1),
     Case("DESK", [desk |-> "ERRANDS"], "DESK_KEY" :> 3 @@ "DESK_OTHER" :> 2 @@ "DESK_REFRESH" :> 1),
     Case("DESK", [desk |-> "ACCOUNT"], "DESK_OPEN" :> 2 @@ "DESK_CONFIRM" :> 2 @@ "DESK_OTHER" :> 1),
     Case("DESK", [desk |-> "ACCOUNT"], "DESK_OPEN" :> 1 @@ "DESK_CONFIRM" :> 1 @@ "DESK_OTHER" :> 1 @@
                                        "DESK_CANCEL" :> 1 @@ "DESK_LOSE" :> 1 @@ "DESK_READ_FAILS" :> 1),
     (* A pickup point searched for. *)
     Case("PICKUP", AsUsual, "PICK_TYPE" :> 2 @@ "PICK_MORE" :> 3 @@ "PICK_FAILS" :> 1 @@ "PICK_CHANGE" :> 1),
     (* Opening hours: any list of three periods; a form whose periods are changed and refused. *)
     Case("HOURS", AsUsual, "HOURS_ELSEWHERE" :> 1),
     Case("HOURS", [hours |-> Weekly], "HOURS_EDIT" :> 1 @@ "HOURS_REMOVE" :> 1 @@ "HOURS_SUBMIT" :> 2 @@
                                       "HOURS_OTHER" :> 1),
     Case("HOURS", [hours |-> SubSeq(Weekly, 2, 3)],
          "HOURS_EDIT" :> 2 @@ "HOURS_ADD" :> 1 @@ "HOURS_SUBMIT" :> 1 @@ "HOURS_LOSE" :> 1 @@ "HOURS_OPEN" :> 1)}
=============================================================================
