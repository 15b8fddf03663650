----------------------------- MODULE BrowserTabs -----------------------------
(***************************************************************************)
(* Several open tabs of the app.  Each keeps a store (DayBook) of its own, *)
(* writes all of it to localStorage whenever it changes, and takes over    *)
(* what the other tabs write when their storage events arrive              *)
(* (frontend/src/store/wfm.ts, frontend/src/lib/crossTabSync.ts,           *)
(* frontend/src/components/automation-runner.tsx).                         *)
(***************************************************************************)
EXTENDS DayBook, Sequences

CONSTANTS
    Tabs,
    Dates,         \* the days there are, numbers
    FirstDay,      \* the day the tabs are opened
    LongShift,     \* times that are not those of a pattern
    Roster,        \* the roster they are opened with
    OpenSwap,      \* the shift swap there is then
    MaxChanges,    \* bound: changes made by users
    MaxViews,      \* bound: times another day is opened, or a page reloaded
    MaxPending     \* bound: storage events on their way to one tab

Times == {ShiftOf[p] : p \in Patterns}

Shift == Times \cup {LongShift} \cup {Roster[a].shift : a \in DOMAIN Roster}
Person == [shift : Shift, pattern : Patterns \cup {NoPattern}, off : SUBSET Nat]
ShiftSwap == [from : Agents, to : Agents,
              status : {"none", "Pending", "Auto-Approved", "Approved", "Denied"}]

IsPartial(f, A, B) == DOMAIN f \subseteq A /\ f \in [DOMAIN f -> B]

ASSUME TabsAssumption ==
    /\ Dates \subseteq Nat /\ FirstDay \in Dates
    /\ IsPartial(Roster, Agents, Person) /\ OpenSwap \in ShiftSwap
    /\ NoPattern \notin Patterns
    /\ {MaxChanges, MaxViews, MaxPending, KeepPast} \subseteq Nat

VARIABLES
    tabs,     \* the store of each tab
    saved,    \* what localStorage holds
    inbox,    \* storage events that have not reached a tab yet, oldest first
    today,
    turns,    \* history: no change was made while an event was on its way
    spent      \* how much of each bound is spent

tabVars == <<tabs, saved, inbox, today, turns, spent>>

Opened == [date |-> FirstDay, agents |-> Roster, plan |-> NoPlan, days |-> Empty,
           swap |-> OpenSwap]

TabsInit ==
    /\ tabs = [t \in Tabs |-> Opened]
    /\ saved = Opened
    /\ inbox = [t \in Tabs |-> <<>>]
    /\ today = FirstDay
    /\ turns = TRUE
    /\ spent = [edits |-> 0, opened |-> 0, reloads |-> 0]

Quiet == \A t \in Tabs : inbox[t] = <<>>

(* Every change of a store is written to localStorage; the other tabs get  *)
(* an event when that is a change of what it holds.                        *)
Write(t, s, box) ==
    /\ tabs' = [tabs EXCEPT ![t] = s]
    /\ saved' = s
    /\ inbox' = [u \in Tabs |-> IF u # t /\ s # saved THEN Append(box[u], s) ELSE box[u]]
    /\ \A u \in Tabs : Len(inbox'[u]) <= MaxPending

Spend(what) == spent' = [spent EXCEPT ![what] = @ + 1]
MayView == spent.opened + spent.reloads < MaxViews

(* A change a user makes in a tab.                                         *)
Change(t, s) ==
    /\ spent.edits < MaxChanges
    /\ Spend("edits")
    /\ Write(t, s, inbox)
    /\ turns' = (turns /\ Quiet)
    /\ UNCHANGED today

Token == spent.edits + 1
Shown(t) == DOMAIN tabs[t].agents

-----------------------------------------------------------------------------
(* What a user does *)

(* A day as the timeline sends it: all its parts, some of them empty.      *)
Patches ==
    {[shift |-> sh, breaks |-> {Token}, channels |-> {Token}, overtime |-> {},
      activities |-> IF sh = LongShift THEN {Token} ELSE {}] : sh \in {LongShift} \cup Times}

EditDay(t) == \E a \in Shown(t), patch \in Patches :
    Change(t, UpdateAgentDays(tabs[t], Put(Empty, a, patch)))

EditAnyDay(t) == \E a \in Shown(t), patch \in Patches, d \in Dates :
    /\ d >= today
    /\ Change(t, ApplyDayPatches(tabs[t], d, Put(Empty, a, patch)))

AddOnDay(t) == \E a \in Shown(t), sl \in {"overtime", "activities"} :
    Change(t, AddTo(tabs[t], sl, a, Token))

ChangeActivity(t) == \E a \in DOMAIN tabs[t].plan["activities"] :
    \E x \in tabs[t].plan["activities"][a] :
        \/ Change(t, UpdateActivity(tabs[t], a, x, Token))
        \/ Change(t, RemoveActivity(tabs[t], a, x))

PlanChannels(t) == \E a \in Shown(t) :
    \/ \E overtime \in {{}, {Token}} :
           Change(t, SetAgentSchedule(tabs[t], a, {Token}, overtime))
    \/ Change(t, ResetAgentSchedule(tabs[t], a))

PlaceBreaks(t) ==
    \/ Change(t, ApplyBreakOverrides(tabs[t], [a \in Shown(t) |-> {Token}]))
    \/ Change(t, ApplyBreakOverrides(tabs[t], Empty))
    \/ \E a \in Shown(t) : Change(t, ApplyBreakChange(tabs[t], a, Token))

Swap(t) ==
    \/ \E a, b \in Shown(t), autoApprove \in BOOLEAN :
           a # b /\ Change(t, ProposeSwap(tabs[t], a, b, autoApprove))
    \/ \E status \in {"Approved", "Denied"} :
           /\ tabs[t].swap.status = "Pending"
           /\ Change(t, SetSwapStatus(tabs[t], status))

SetRule(t) == \E a \in Shown(t) :
    \/ \E p \in Patterns : Change(t, AssignWorkRule(tabs[t], a, p, {FirstDay + 1}))
    \/ Change(t, AssignWorkRule(tabs[t], a, NoPattern, {}))
    \/ Change(t, SetWeekOff(tabs[t], a, {}))

Staff(t) ==
    \/ \E a \in Agents \ Shown(t), p \in Patterns : Change(t, AddAgent(tabs[t], a, p))
    \/ \E a \in Shown(t) : Change(t, DeleteEmployee(tabs[t], a))

(* switchScheduleDate                                                      *)
Switch(t, d) ==
    /\ d # tabs[t].date
    /\ MayView /\ Spend("opened")
    /\ Write(t, SetScheduleDate(tabs[t], d, today), inbox)
    /\ turns' = (turns /\ Quiet)
    /\ UNCHANGED today

-----------------------------------------------------------------------------
(* Mutant: what was taken over is written back, different or not.          *)
TakeOverAlways(t) ==
    /\ inbox[t] # <<>>
    /\ Write(t, ApplyRemoteState(tabs[t], Head(inbox[t])), [inbox EXCEPT ![t] = Tail(@)])
    /\ UNCHANGED <<today, turns, spent>>

(* A storage event reaches a tab: differences are taken over, which writes *)
(* them back; without any, nothing is written.                             *)
TakeOver(t) ==
    /\ inbox[t] # <<>>
    /\ LET s == ApplyRemoteState(tabs[t], Head(inbox[t]))
           box == [inbox EXCEPT ![t] = Tail(@)]
       IN  IF s = tabs[t] THEN inbox' = box /\ UNCHANGED <<tabs, saved>>
           ELSE Write(t, s, box)
    /\ UNCHANGED <<today, turns, spent>>

(* The page is loaded anew from localStorage and opens today.              *)
Reload(t) ==
    /\ MayView /\ Spend("reloads")
    /\ Write(t, SetScheduleDate(saved, today, today), [inbox EXCEPT ![t] = <<>>])
    /\ turns' = (turns /\ Quiet)
    /\ UNCHANGED today

Midnight ==
    /\ today + 1 \in Dates
    /\ today' = today + 1
    /\ UNCHANGED <<tabs, saved, inbox, turns, spent>>

Changes(t) ==
    \/ EditDay(t) \/ EditAnyDay(t) \/ AddOnDay(t) \/ ChangeActivity(t) \/ PlanChannels(t)
    \/ PlaceBreaks(t) \/ Swap(t) \/ SetRule(t) \/ Staff(t)

TabsNext ==
    \/ \E t \in Tabs : Changes(t) \/ TakeOver(t) \/ Reload(t)
    \/ \E t \in Tabs, d \in Dates : Switch(t, d)
    \/ Midnight

TabsSpec == TabsInit /\ [][TabsNext]_tabVars

(* The browser delivers storage events.                                    *)
FairTabsSpec == TabsSpec /\ \A t \in Tabs : WF_tabVars(TakeOver(t))

-----------------------------------------------------------------------------
(* Properties *)

Contents == SUBSET (Nat \cup {WeekOff})
IsPlan(p) == DOMAIN p = Slices /\ \A sl \in Slices : IsPartial(p[sl], Agents, Contents)

IsStore(s) ==
    /\ s.date \in Dates \ DOMAIN s.days /\ DOMAIN s.days \subseteq Dates
    /\ IsPartial(s.agents, Agents, Person) /\ s.swap \in ShiftSwap
    /\ IsPlan(s.plan)
    /\ \A d \in DOMAIN s.days :
           IsPlan(s.days[d].plan) /\ IsPartial(s.days[d].shifts, Agents, Shift)

(* The types of all variables; the open day is never parked too.           *)
TabsTypeOK ==
    /\ \A t \in Tabs : IsStore(tabs[t]) /\ \A i \in DOMAIN inbox[t] : IsStore(inbox[t][i])
    /\ IsStore(saved)
    /\ today \in Dates /\ turns \in BOOLEAN
    /\ spent \in [{"edits", "opened", "reloads"} -> Nat]

(* Who has the same roster entry, the open day's shift aside.              *)
Stable(s, r, a) ==
    /\ a \in DOMAIN s.agents \cap DOMAIN r.agents
    /\ s.agents[a].pattern # NoPattern
    /\ s.agents[a].pattern = r.agents[a].pattern /\ s.agents[a].off = r.agents[a].off

DayOf(s, d, a) ==
    LET v == ScheduleForDate(s, d)
    IN  [shift |-> v.agents[a].shift,
         plan |-> [sl \in Slices |-> Entry(v.plan[sl], a)]]

Moved(s, r, day) == {d \in Dates :
    /\ d + KeepPast >= day
    /\ \E a \in Agents : Stable(s, r, a) /\ DayOf(s, d, a) # DayOf(r, d, a)}

(* Whatever a user does changes the schedules of one day at most, and      *)
(* opening another day none: not of the days that are parked, not of those *)
(* never opened (wfm.ts:241-283, 1266-1331).                               *)
OneDayAtATime == [][\A t \in Tabs :
    LET s == tabs[t]
        r == tabs'[t]
    IN  spent'.edits + spent'.opened # spent.edits + spent.opened
            => Cardinality(Moved(s, r, today')) <= spent'.edits - spent.edits]_tabVars

(* For whom a store has a shift on that day.                               *)
Listed(s, d) == DOMAIN s.agents \cap DOMAIN DatedSchedules(s)[d].shifts

Agree(s, r) ==
    /\ s.swap = r.swap
    /\ [a \in DOMAIN s.agents |-> [s.agents[a] EXCEPT !.shift = "any"]]
         = [a \in DOMAIN r.agents |-> [r.agents[a] EXCEPT !.shift = "any"]]
    /\ \A d \in DOMAIN DatedSchedules(s) \cap DOMAIN DatedSchedules(r) :
           /\ ScheduleForDate(s, d).plan = ScheduleForDate(r, d).plan
           /\ \A a \in Listed(s, d) \cap Listed(r, d) :
                  ScheduleForDate(s, d).agents[a].shift = ScheduleForDate(r, d).agents[a].shift

(* When no storage event is on its way, the tabs have the same roster and  *)
(* show the same schedule of every day they both keep, whichever is open:  *)
(* the plan, and the shift of everybody for whom both have one             *)
(* (crossTabSync.ts:1-8, 47-92).                                           *)
QuietTabsAgree == Quiet => \A t, u \in Tabs : Agree(tabs[t], tabs[u])

(* As long as the tabs are changed in turns, never while an event is on its*)
(* way, the events come to an end (crossTabSync.ts:61, 80-90).             *)
TurnsSettle == turns ~> (Quiet \/ ~turns)
=============================================================================
