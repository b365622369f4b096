------------------------------ MODULE Clients -------------------------------
(***************************************************************************)
(* What students and administrators have open in their browsers, and the   *)
(* services behind it.  A behaviour follows one of these parts, with the   *)
(* events that Cases allows it; the others stand still.                    *)
(***************************************************************************)
EXTENDS SocketHub, Composer, ErrandPage, ChatPage, PagedLists, SignInLimits, StepUpPrompt, AdminPages,
        SupplierPicker, OpeningHours

CONSTANT Cases      \* a part, how it starts, and how often each kind of event may happen

ASSUME CasesAssumption == \A c \in Cases : c.start.talk \in Nat /\ c.start.read \in Nat

(* How many messages a student may still send is counted.                  *)
ASSUME QuotasAssumption ==
    \A c \in Cases :
        c.part = "CHAT" => c.quota \in [DOMAIN c.quota -> Nat] /\ "SEND" \in DOMAIN c.quota

VARIABLE part

socketVars == <<now, identityVars, hubVars>>
shopVars == <<catalogueVars, composerVars>>
talkVars == <<chatVars, chatPageVars>>

vars == <<part, quota, socketVars, shopVars, pageVars, talkVars, listVars, limitVars, consoleVars, deskVars, pickerVars, hoursVars>>

Init ==
    \E c \in Cases :
        /\ part = c.part /\ quota = c.quota
        /\ IdentityInit /\ HubInit /\ CatalogueInit /\ ComposerInit
        /\ PageInit(c.start.status, c.start.viewer, c.start.page)
        /\ ChatInit(c.start.talk, c.start.read) /\ ChatPageInit
        /\ ListInit(c.start.list, c.start.target)
        /\ LimitsInit /\ ConsoleInit /\ DeskInit(c.start.desk) /\ PickerInit /\ HoursInit(c.start.hours)

SocketsNext ==
    /\ part = "SOCKETS" /\ HubNext
    /\ UNCHANGED <<part, shopVars, pageVars, talkVars, listVars, limitVars, consoleVars, deskVars, pickerVars, hoursVars>>

SuppliersNext ==
    /\ part = "SUPPLIERS" /\ CatalogueNext
    /\ UNCHANGED <<part, socketVars, composerVars, pageVars, talkVars, listVars, limitVars, consoleVars, deskVars, pickerVars, hoursVars>>

(* Suppliers change under a draft.                                         *)
DraftNext ==
    /\ part = "DRAFT"
    /\ \/ ComposerNext /\ UNCHANGED catalogueVars
       \/ ElsewhereChanged(1) /\ UNCHANGED composerVars
    /\ UNCHANGED <<part, socketVars, pageVars, talkVars, listVars, limitVars, consoleVars, deskVars, pickerVars, hoursVars>>

ErrandNext ==
    /\ part = "ERRAND" /\ PageNext
    /\ UNCHANGED <<part, socketVars, shopVars, talkVars, listVars, limitVars, consoleVars, deskVars, pickerVars, hoursVars>>

TalkNext ==
    /\ part = "CHAT" /\ ChatPageNext
    /\ UNCHANGED <<part, socketVars, shopVars, pageVars, listVars, limitVars, consoleVars, deskVars, pickerVars, hoursVars>>

ListNext ==
    /\ part = "LIST" /\ ListsNext
    /\ UNCHANGED <<part, socketVars, shopVars, pageVars, talkVars, limitVars, consoleVars, deskVars, pickerVars, hoursVars>>

LoginNext ==
    /\ part = "LOGIN" /\ LimitsNext
    /\ UNCHANGED <<part, socketVars, shopVars, pageVars, talkVars, listVars, consoleVars, deskVars, pickerVars, hoursVars>>

AdminNext ==
    /\ part = "CONSOLE" /\ ConsoleNext
    /\ UNCHANGED <<part, socketVars, shopVars, pageVars, talkVars, listVars, limitVars, deskVars, pickerVars, hoursVars>>

DeskPagesNext ==
    /\ part = "DESK" /\ DeskNext
    /\ UNCHANGED <<part, socketVars, shopVars, pageVars, talkVars, listVars, limitVars, consoleVars, pickerVars, hoursVars>>

PickupNext ==
    /\ part = "PICKUP" /\ PickerNext
    /\ UNCHANGED <<part, socketVars, shopVars, pageVars, talkVars, listVars, limitVars, consoleVars, deskVars, hoursVars>>

TimesNext ==
    /\ part = "HOURS" /\ HoursNext
    /\ UNCHANGED <<part, socketVars, shopVars, pageVars, talkVars, listVars, limitVars, consoleVars, deskVars, pickerVars>>

Next ==
    \/ SocketsNext \/ SuppliersNext \/ DraftNext \/ ErrandNext
    \/ TalkNext \/ ListNext \/ LoginNext \/ AdminNext \/ DeskPagesNext \/ PickupNext \/ TimesNext

Spec == Init /\ [][Next]_vars

(* Only the errand's page has steps that must be taken.                    *)
FairSpec == Spec /\ PageFairness

-----------------------------------------------------------------------------
(* A socket outlives neither its student's right to it nor its own end,    *)
(* and a cached identity does not outlive the event that changed it.       *)
SocketsFollowAccounts == InvalidationsHold /\ BarredSocketsClose /\ ClosedStays

(* Limits hold with everything under way at once: sockets of a student and *)
(* of the instance, messages of a sender, guesses at a password.           *)
LimitsHold == SocketLimits /\ RateKept /\ GuessesBounded

(* What is sent again after a lost answer is done once, and the page says  *)
(* of it what is so: suppliers, errands and the commands on an errand.     *)
RetriesHarmless == SuppliersOnce /\ ErrandsOnce /\ PostedAsShown /\ AppliedIsDone

(* A channel keeps each message once and in order until its retention      *)
(* ends, and then nothing of it.                                           *)
ChannelsSound == MessagesInOrder /\ SweepComplete

(* A conversation on screen is what its reader may see: nothing counted as *)
(* read that was not shown, no gap, nothing left after a refusal, and no   *)
(* message twice.                                                          *)
ConversationSound == ReadWasShown /\ UnreadExact /\ NothingLeft /\ OutgoingOnce

(* A list read page by page while it changes repeats nothing and passes    *)
(* over nothing that stayed in it.                                         *)
ListsComplete == ListedOnce /\ NothingSkipped /\ PagesComplete /\ PickerAnswers

(* The console says of an administrator's action what is so, and leaves no *)
(* action waiting for a prompt that is gone.                               *)
ConsoleTruthful == NobodyStranded /\ RedrivesShown /\ ActionsShown /\ DecisionsTold

(* Opening hours are judged the same however they are split over periods   *)
(* and days, and a refusal is marked where it belongs.                     *)
HoursKept == HoursSound /\ RefusalsPlaced
=============================================================================
