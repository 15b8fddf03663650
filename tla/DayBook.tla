------------------------------- MODULE DayBook -------------------------------
(***************************************************************************)
(* The schedules a browser tab keeps: the open day in the top-level slices *)
(* of the store, the other days parked (frontend/src/store/wfm.ts), and how*)
(* a tab takes over what another tab has saved                             *)
(* (frontend/src/lib/crossTabSync.ts).                                     *)
(*                                                                         *)
(* A store is a record: date, the day that is open; agents, the roster,    *)
(* which holds everybody's shift on the open day; plan, the four plan      *)
(* slices of the open day; days, the parked days; swap, a shift swap.      *)
(***************************************************************************)
EXTENDS Naturals, FiniteSets, Functions

CONSTANTS
    Agents,      \* everybody who may be on the roster
    Patterns,    \* the shift patterns
    NoPattern,   \* the pattern of an agent who has none
    ShiftOf,     \* the times of each pattern
    WeekOff,     \* the activity of a day off
    KeepPast     \* how long a parked day is kept after it has passed

Slices == {"breaks", "channels", "overtime", "activities"}

Empty == [x \in {} |-> x]
NoPlan == [sl \in Slices |-> Empty]

(* Maps with the entries of g, with one entry, without some entries, and   *)
(* without empty ones (the provers know nothing of @@).                    *)
With(f, g) == [a \in DOMAIN f \cup DOMAIN g |-> IF a \in DOMAIN g THEN g[a] ELSE f[a]]
Put(f, a, x) == [b \in DOMAIN f \cup {a} |-> IF b = a THEN x ELSE f[b]]
Without(f, S) == Restrict(f, DOMAIN f \ S)
NonEmpty(f) == Without(f, {a \in DOMAIN f : f[a] = {}})

BaseShiftFor(g) == IF g.pattern # NoPattern THEN ShiftOf[g.pattern] ELSE g.shift

WeekOffActivities(agents, date) ==
    [a \in {b \in DOMAIN agents : date \in agents[b].off} |-> {WeekOff}]

Shifts(agents) == [a \in DOMAIN agents |-> agents[a].shift]

(* The roster with other shifts; default is the shift of who is missing.   *)
OnShifts(agents, shifts, Default(_)) ==
    [a \in DOMAIN agents |->
        [agents[a] EXCEPT !.shift = IF a \in DOMAIN shifts THEN shifts[a]
                                    ELSE Default(agents[a])]]

(* Mutant: a parked day is shown with the pattern's shifts.                *)
ScheduleForDatePattern(s, date) ==
    IF date = s.date THEN [agents |-> s.agents, plan |-> s.plan]
    ELSE [agents |-> OnShifts(s.agents, Empty, BaseShiftFor),
          plan |-> IF date \in DOMAIN s.days THEN s.days[date].plan
                   ELSE [NoPlan EXCEPT !["activities"] = WeekOffActivities(s.agents, date)]]

(* The roster and the plan of any date.                                    *)
ScheduleForDate(s, date) ==
    IF date = s.date THEN [agents |-> s.agents, plan |-> s.plan]
    ELSE IF date \in DOMAIN s.days
    THEN [agents |-> OnShifts(s.agents, s.days[date].shifts, BaseShiftFor),
          plan |-> s.days[date].plan]
    ELSE LET agents == OnShifts(s.agents, Empty, BaseShiftFor)
         IN  [agents |-> agents,
              plan |-> [NoPlan EXCEPT !["activities"] = WeekOffActivities(agents, date)]]

Parked(v) == [shifts |-> Shifts(v.agents), plan |-> v.plan]

(* Mutant: the day that is opened stays parked too.                        *)
SetScheduleDateTwice(s, date, today) ==
    LET kept == Put(s.days, s.date, Parked(s))
        next == ScheduleForDate(s, date)
    IN  IF date = s.date THEN s
        ELSE [s EXCEPT !.date = date, !.agents = next.agents, !.plan = next.plan,
                       !.days = Restrict(kept, {d \in DOMAIN kept : d + KeepPast >= today})]

(* Another day is opened: the open one is parked, days long past are dropped.*)
SetScheduleDate(s, date, today) ==
    LET kept == Put(s.days, s.date, Parked(s))
        next == ScheduleForDate(s, date)
    IN  IF date = s.date THEN s
        ELSE [s EXCEPT !.date = date, !.agents = next.agents, !.plan = next.plan,
                       !.days = Restrict(kept, {d \in DOMAIN kept :
                                                  d # date /\ d + KeepPast >= today})]

(* Whole days of some agents are written; v has a roster and a plan.       *)
DayPatchSlices(v, items) ==
    LET Patched(sl) == With(v.plan[sl], [a \in DOMAIN items |-> items[a][sl]])
    IN  [agents |-> [a \in DOMAIN v.agents |->
                        IF a \in DOMAIN items
                        THEN [v.agents[a] EXCEPT !.shift = items[a].shift] ELSE v.agents[a]],
         plan |-> [sl \in Slices |-> IF sl \in {"overtime", "activities"}
                                     THEN NonEmpty(Patched(sl)) ELSE Patched(sl)]]

UpdateAgentDays(s, items) ==
    LET v == DayPatchSlices(s, items)
    IN  [s EXCEPT !.agents = v.agents, !.plan = v.plan]

(* The same for any date.                                                  *)
ApplyDayPatches(s, date, items) ==
    IF date = s.date THEN UpdateAgentDays(s, items)
    ELSE LET v == DayPatchSlices(ScheduleForDate(s, date), items)
         IN  [s EXCEPT !.days = Put(@, date, Parked(v))]

-----------------------------------------------------------------------------
(* The slices one by one, of the open day *)

Entry(f, a) == IF a \in DOMAIN f THEN f[a] ELSE {}

(* addOvertime and addActivities: one more block, or activity, for a.      *)
AddTo(s, sl, a, x) == [s EXCEPT !.plan[sl] = Put(@, a, Entry(@, a) \cup {x})]

(* updateActivity: who has no activities gets an empty list.               *)
UpdateActivity(s, a, x, y) ==
    [s EXCEPT !.plan["activities"] =
        Put(@, a, {IF z = x THEN y ELSE z : z \in Entry(@, a)})]

RemoveActivity(s, a, x) ==
    [s EXCEPT !.plan["activities"] =
        LET rest == Entry(@, a) \ {x}
        IN  IF rest = {} THEN Without(@, {a}) ELSE Put(@, a, rest)]

SetAgentSchedule(s, a, channels, overtime) ==
    [s EXCEPT !.plan["channels"] = Put(@, a, channels),
              !.plan["overtime"] = IF overtime = {} THEN Without(@, {a})
                                   ELSE Put(@, a, overtime)]

ResetAgentSchedule(s, a) ==
    [s EXCEPT !.plan["channels"] = Without(@, {a}), !.plan["overtime"] = Without(@, {a})]

(* applyBreakOverrides, and resetBreakOverrides with no overrides.         *)
ApplyBreakOverrides(s, overrides) == [s EXCEPT !.plan["breaks"] = overrides]

(* applyException, of an approved break change.                            *)
ApplyBreakChange(s, a, x) ==
    [s EXCEPT !.plan["breaks"] = Put(@, a, Entry(@, a) \cup {x})]

-----------------------------------------------------------------------------
(* The roster *)

SwapShifts(agents, a, b) ==
    IF {a, b} \subseteq DOMAIN agents
    THEN [agents EXCEPT
            ![a].shift = agents[b].shift, ![a].pattern = agents[b].pattern,
            ![b].shift = agents[a].shift, ![b].pattern = agents[a].pattern]
    ELSE agents

ProposeSwap(s, a, b, autoApprove) ==
    IF {a, b} \subseteq DOMAIN s.agents
    THEN [s EXCEPT !.swap = [from |-> a, to |-> b,
                             status |-> IF autoApprove THEN "Auto-Approved" ELSE "Pending"],
                   !.agents = IF autoApprove THEN SwapShifts(@, a, b) ELSE @]
    ELSE s

SetSwapStatus(s, status) ==
    IF s.swap.status = "Pending"
    THEN [s EXCEPT !.swap.status = status,
                   !.agents = IF status = "Approved"
                              THEN SwapShifts(@, s.swap.from, s.swap.to) ELSE @]
    ELSE s

(* assignWorkRule: a pattern of the rule and days off, or neither.         *)
AssignWorkRule(s, a, pattern, off) ==
    [s EXCEPT !.agents[a].pattern = pattern, !.agents[a].off = off]

SetWeekOff(s, a, off) == [s EXCEPT !.agents[a].off = off]

AddAgent(s, a, pattern) ==
    [s EXCEPT !.agents = Put(@, a, [shift |-> ShiftOf[pattern], pattern |-> pattern, off |-> {}])]

DeleteEmployee(s, a) == [s EXCEPT !.agents = Without(@, {a})]

-----------------------------------------------------------------------------
(* What another tab has saved *)

(* Every date a store has a schedule of.                                   *)
DatedSchedules(s) == Put(s.days, s.date, Parked(s))

(* Mutant: only the open day is taken over.                                *)
ApplyRemoteStateOpen(s, remote) ==
    LET theirs == DatedSchedules(remote)
        open == IF s.date \in DOMAIN theirs THEN theirs[s.date] ELSE Parked(s)
        Own(g) == g.shift
    IN  [s EXCEPT !.swap = remote.swap, !.plan = open.plan,
                  !.agents = OnShifts(remote.agents, open.shifts, Own)]

(* Takes over what another tab has saved: the shared fields, the roster,   *)
(* and each day that differs wherever this tab keeps it.                   *)
ApplyRemoteState(s, remote) ==
    LET mine == DatedSchedules(s)
        theirs == DatedSchedules(remote)
        changed == {d \in DOMAIN theirs : d \notin DOMAIN mine \/ theirs[d] # mine[d]}
        open == IF s.date \in changed THEN theirs[s.date] ELSE mine[s.date]
        Own(g) == g.shift
    IN  [s EXCEPT !.swap = remote.swap,
                  !.plan = open.plan,
                  !.agents = OnShifts(remote.agents, open.shifts, Own),
                  !.days = With(@, Restrict(theirs, changed \ {s.date}))]
=============================================================================
