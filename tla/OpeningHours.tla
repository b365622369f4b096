---------------------------- MODULE OpeningHours ----------------------------
(***************************************************************************)
(* A supplier's opening hours: how the service judges a list of periods    *)
(* (suppliers/validation.ts) and the form that edits it and marks what was *)
(* refused (SupplierForm.tsx).  A week has few days and a day few minutes; *)
(* the last minute of a day stands for 23:59.                              *)
(***************************************************************************)
EXTENDS Quota, Integers, FiniteSets, SequencesExt

CONSTANTS
    WeekDays,           \* DAYS, numbered from 0
    DayLength,          \* MINUTES_PER_DAY
    MaxPeriodsPerDay

VARIABLES
    hoursForm,      \* the form's periods, what it sent and what it marks
    hoursSave,      \* the save under way
    storedHours,    \* the supplier's row
    verdict         \* what the service said of the last list it was sent

hoursVars == <<hoursForm, hoursSave, storedHours, verdict>>

Days == 0 .. WeekDays - 1
Week == WeekDays * DayLength
EndOfDay == DayLength - 1
Untyped == -1
Times == 0 .. EndOfDay
Period == [day : Days, opens : Times, closes : Times]

WellTyped(p) == Untyped \notin {p.opens, p.closes}

-----------------------------------------------------------------------------
(* An empty time reads as midnight.                                        *)
Minutes(time) == IF time = Untyped THEN 0 ELSE time

PeriodEnd(p) ==
    LET close == IF p.closes = EndOfDay THEN DayLength ELSE Minutes(p.closes)
    IN  p.day * DayLength + IF close > Minutes(p.opens) THEN close ELSE close + DayLength

(* Mutant: a late Sunday does not run into Monday.                         *)
MutantSpansOfTheWeek(p) == {<<p.day * DayLength + Minutes(p.opens), PeriodEnd(p)>>}

SpansOfTheWeek(p) ==
    LET start == p.day * DayLength + Minutes(p.opens)
    IN  IF PeriodEnd(p) <= Week THEN {<<start, PeriodEnd(p)>>}
        ELSE {<<start, Week>>, <<0, PeriodEnd(p) - Week>>}

Clash(p, other) ==
    \E s \in SpansOfTheWeek(p), o \in SpansOfTheWeek(other) : s[1] < o[2] /\ o[1] < s[2]

(* What is wrong with entry k beside the earlier ones that were kept.      *)
PeriodProblem(entries, kept, k) ==
    LET p == entries[k] IN
    IF p.opens = p.closes THEN "EMPTY_PERIOD"
    ELSE IF Cardinality({j \in kept : entries[j].day = p.day}) = MaxPeriodsPerDay THEN "TOO_MANY_PERIODS"
    ELSE IF \E j \in kept : Clash(p, entries[j]) THEN "OVERLAPPING_HOURS"
    ELSE "NONE"

(* A refused entry is not held against those after it.                     *)
KeptOf(entries) ==
    LET kept[k \in 0 .. Len(entries)] ==
            IF k = 0 THEN {}
            ELSE IF PeriodProblem(entries, kept[k - 1], k) = "NONE" THEN kept[k - 1] \cup {k} ELSE kept[k - 1]
    IN  kept[Len(entries)]

Refinement(entries) ==
    LET kept == KeptOf(entries) IN
    {[at |-> k, code |-> PeriodProblem(entries, kept \cap (1 .. k - 1), k)] : k \in DOMAIN entries \ kept}

MalformedIn(entries) == {[at |-> k, code |-> "MALFORMED"] : k \in {j \in DOMAIN entries : ~WellTyped(entries[j])}}

(* Whether the list as a whole is looked at after an entry was malformed   *)
(* is the parser's business: goesOn.                                       *)
IssuesOf(entries, goesOn) ==
    IF MalformedIn(entries) # {} /\ ~goesOn THEN MalformedIn(entries)
    ELSE MalformedIn(entries) \cup Refinement(entries)

(* They are stored by day, then opening time.                              *)
StoredOrder(entries) ==
    SetToSortSeq(ToSet(entries), LAMBDA p, q : p.day < q.day \/ (p.day = q.day /\ p.opens < q.opens))

(* The service is sent entries; issues of other fields refuse them too.    *)
JudgeHours(entries, issues) ==
    /\ verdict' = {[entries |-> entries, issues |-> {e \in issues : e.at > 0}]}
    /\ storedHours' = IF issues = {} THEN StoredOrder(entries) ELSE storedHours

-----------------------------------------------------------------------------
(* The form.  A period carries an id, by which the properties know it.     *)
BlankPeriod(id) == [opens |-> Untyped, closes |-> Untyped, id |-> id]

IsFilled(period) == {period.opens, period.closes} # {Untyped}

InitialPeriods(hours) ==
    [d \in Days |->
        LET own == SelectSeq(hours, LAMBDA p : p.day = d)
            id(i) == d * (MaxPeriodsPerDay + 1) + i
        IN  IF own = <<>> THEN <<BlankPeriod(id(1))>>
            ELSE [i \in DOMAIN own |-> [opens |-> own[i].opens, closes |-> own[i].closes, id |-> id(i)]]]

InitialForm(hours) ==
    [open |-> TRUE, hours |-> InitialPeriods(hours), submitted |-> <<>>, issues |-> {}, message |-> "NONE",
     saving |-> FALSE, sentIds |-> <<>>, ids |-> WeekDays * (MaxPeriodsPerDay + 1), crossed |-> FALSE]

HoursInit(hours) ==
    /\ storedHours = hours
    /\ hoursForm = InitialForm(storedHours)
    /\ hoursSave = {} /\ verdict = {}

OpenHours ==
    /\ ~hoursForm.open /\ Use("HOURS_OPEN")
    /\ hoursForm' = InitialForm(storedHours)
    /\ UNCHANGED <<hoursSave, storedHours, verdict>>

SetTime(d, i, time, v) ==
    /\ hoursForm.open /\ i \in DOMAIN hoursForm.hours[d] /\ Use("HOURS_EDIT")
    /\ hoursForm' = [hoursForm EXCEPT !.hours[d][i][time] = v]
    /\ UNCHANGED <<hoursSave, storedHours, verdict>>

AddPeriod(d) ==
    /\ hoursForm.open /\ WellTyped(Last(hoursForm.hours[d])) /\ Len(hoursForm.hours[d]) < MaxPeriodsPerDay
    /\ Use("HOURS_ADD")
    /\ hoursForm' = [hoursForm EXCEPT !.hours[d] = Append(@, BlankPeriod(hoursForm.ids + 1)), !.ids = @ + 1]
    /\ UNCHANGED <<hoursSave, storedHours, verdict>>

(* What was refused was numbered before the period went.                   *)
OtherIssues(issues) == {e \in issues : e.code = "OTHER_FIELD"}

RemovePeriod(d, i) ==
    LET others == OtherIssues(hoursForm.issues)
        cleared == hoursForm.issues # {} /\ others = {}
    IN  /\ hoursForm.open /\ i \in DOMAIN hoursForm.hours[d] /\ Len(hoursForm.hours[d]) > 1
        /\ Use("HOURS_REMOVE")
        /\ hoursForm' = [hoursForm EXCEPT !.issues = others, !.message = IF cleared THEN "NONE" ELSE @,
                                          !.hours[d] = RemoveAt(@, i), !.crossed = @ \/ hoursForm.saving]
        /\ UNCHANGED <<hoursSave, storedHours, verdict>>

FilledPeriods ==
    LET places == UNION {{<<d, i>> : i \in DOMAIN hoursForm.hours[d]} : d \in Days}
    IN  SetToSortSeq({x \in places : IsFilled(hoursForm.hours[x[1]][x[2]])},
                     LAMBDA x, y : x[1] < y[1] \/ (x[1] = y[1] /\ x[2] < y[2]))

SubmitHours ==
    LET at(k) == hoursForm.hours[FilledPeriods[k][1]][FilledPeriods[k][2]]
        entry(k) == [day |-> FilledPeriods[k][1], opens |-> at(k).opens, closes |-> at(k).closes]
    IN  /\ hoursForm.open /\ ~hoursForm.saving /\ Use("HOURS_SUBMIT")
        /\ hoursForm' = [hoursForm EXCEPT
                            !.issues = {}, !.message = "NONE", !.saving = TRUE, !.submitted = FilledPeriods,
                            !.sentIds = [k \in DOMAIN FilledPeriods |-> at(k).id], !.crossed = FALSE]
        /\ hoursSave' = {[entries |-> [k \in DOMAIN FilledPeriods |-> entry(k)], answer |-> "NONE", issues |-> {}]}
        /\ UNCHANGED <<storedHours, verdict>>

HoursServed(s, goesOn, other) ==
    LET issues == IssuesOf(s.entries, goesOn) \cup IF other THEN {[at |-> 0, code |-> "OTHER_FIELD"]} ELSE {}
    IN  /\ s.answer = "NONE"
        /\ IF other THEN Use("HOURS_OTHER") ELSE UNCHANGED quota
        /\ JudgeHours(s.entries, issues)
        /\ hoursSave' = {[s EXCEPT !.answer = IF issues = {} THEN "SAVED" ELSE "REFUSED", !.issues = issues]}
        /\ UNCHANGED hoursForm

(* No answer comes, whether or not the service was reached.                *)
HoursLost(s) ==
    /\ s.answer # "FAILED" /\ Use("HOURS_LOSE")
    /\ hoursSave' = {[s EXCEPT !.answer = "FAILED", !.issues = {}]}
    /\ UNCHANGED <<hoursForm, storedHours, verdict>>

HoursSettled(s) ==
    /\ s.answer # "NONE"
    /\ hoursForm' = [hoursForm EXCEPT !.open = s.answer # "SAVED", !.saving = FALSE, !.issues = s.issues,
                                      !.message = IF s.answer = "SAVED" THEN "NONE" ELSE s.answer]
    /\ hoursSave' = {}
    /\ UNCHANGED <<storedHours, verdict, quota>>

(* A list sent by any other client.                                        *)
HoursElsewhere(entries) ==
    /\ Use("HOURS_ELSEWHERE")
    /\ JudgeHours(entries, IssuesOf(entries, TRUE))
    /\ UNCHANGED <<hoursForm, hoursSave>>

HoursNext ==
    \/ OpenHours \/ SubmitHours
    \/ \E d \in Days, i \in 1 .. MaxPeriodsPerDay :
           \/ RemovePeriod(d, i)
           \/ \E time \in {"opens", "closes"}, v \in Times \cup {Untyped} : SetTime(d, i, time, v)
    \/ \E d \in Days : AddPeriod(d)
    \/ \E s \in hoursSave :
           HoursLost(s) \/ HoursSettled(s) \/ \E goesOn, other \in BOOLEAN : HoursServed(s, goesOn, other)
    \/ quota["HOURS_ELSEWHERE"] > 0 /\ \E n \in 0 .. MaxPeriodsPerDay + 1 : \E entries \in [1 .. n -> Period] : HoursElsewhere(entries)

-----------------------------------------------------------------------------
(* The minutes of the week a period covers, counted one by one.            *)
Covers(p) ==
    LET lasts == IF p.closes = EndOfDay THEN DayLength - p.opens ELSE (p.closes + DayLength - p.opens) % DayLength
    IN  {(p.day * DayLength + p.opens + i) % Week : i \in 0 .. lasts - 1}

(* No period is empty, no two meet, and no day has too many.               *)
Acceptable(hours) ==
    /\ \A k \in DOMAIN hours : hours[k].opens # hours[k].closes
    /\ \A j, k \in DOMAIN hours : j # k => Covers(hours[j]) \cap Covers(hours[k]) = {}
    /\ \A d \in Days : Cardinality({k \in DOMAIN hours : hours[k].day = d}) <= MaxPeriodsPerDay

(* A supplier is never open twice at one minute of the week, over midnight *)
(* and from Sunday into Monday too.  The service refuses a list exactly if *)
(* it is not acceptable; what it did not refuse of it is, and each entry   *)
(* it did refuse cannot stand beside what it kept before it.               *)
HoursSound ==
    /\ Acceptable(storedHours)
    /\ \A v \in verdict : (\A k \in DOMAIN v.entries : WellTyped(v.entries[k])) =>
          LET refused == {e.at : e \in v.issues}
              kept(k) == [j \in (1 .. k) \ refused |-> v.entries[j]]
          IN  /\ (refused = {}) = Acceptable(v.entries)
              /\ Acceptable(kept(Len(v.entries)))
              /\ \A k \in refused : ~Acceptable(kept(k - 1) @@ (k :> v.entries[k]))

(* What the service refused is marked at the period it was sent as, and    *)
(* the form says that the save failed, whatever was typed, added, removed  *)
(* or tried again meanwhile; unless a period was removed while the save    *)
(* was under way.                                                          *)
RefusalsPlaced ==
    hoursForm.open /\ ~hoursForm.crossed =>
        \A e \in hoursForm.issues :
            /\ hoursForm.message = "REFUSED"
            /\ e.at > 0 => LET place == hoursForm.submitted[e.at] IN
                              /\ place[2] \in DOMAIN hoursForm.hours[place[1]]
                              /\ hoursForm.hours[place[1]][place[2]].id = hoursForm.sentIds[e.at]
=============================================================================
