------------------------------ MODULE DayEdits ------------------------------
(***************************************************************************)
(* The days of a few agents under everything the Scheduling page does to   *)
(* them: the drags, keys and menus of components/continuous-schedule.tsx,  *)
(* the dialogs for schedules, activities and overtime, the alignment with  *)
(* work rules (lib/workRuleApply.ts) and the channel planner               *)
(* (lib/channelAutoPlan.ts).  The browser stores what they make of a day;  *)
(* the server refuses a day its validate_day finds invalid.                *)
(***************************************************************************)
EXTENDS DayRules

CONSTANTS
    Teams,      \* the teams whose days are edited: [days, a sequence; defaults,
                \* each agent's default channels; rules, the set of the work
                \* rule each agent is on and the start of its pattern; and,
                \* bounds, the operations it uses, the layers whose blocks it
                \* drags, and the ids and kinds of the blocks of each layer]
    Drags,      \* bound: the distances of a drag
    Deltas,     \* bound: the distances of a move of whole days
    Staggers,   \* bound: the minutes between the waves of a staggered activity
    Rules,      \* bound: the work rules that are checked
    Compliance, \* the work compliance rules
    Needs,      \* bound: the phone heads the planner is asked for
    ChatMin     \* bound: the chat heads it is asked for

(* What the edits write into a layer besides the kinds that are entered.   *)
WrittenKinds(layer) ==
    CASE layer = "channels"   -> {"phone", "chat", "email", DefaultChannel}
      [] layer = "activities" -> {Off}
      [] OTHER                -> {}

Blocks(t, layer) ==
    [id : Nat, kind : t.kinds[layer] \cup WrittenKinds(layer), start : Int, end : Int]

TeamDays(t) ==
    [start : Int, end : Int, noBreak : Nat \X Nat,
     channels : SUBSET Blocks(t, "channels"), breaks : SUBSET Blocks(t, "breaks"),
     activities : SUBSET Blocks(t, "activities"), ot : SUBSET Blocks(t, "ot")]

(* WorkRuleIn: a rule's shift is no shorter than a shift may be, nor are   *)
(* its breaks, and its pattern starts within the day.                      *)
RulesAtStart(t) ==
    {x \in [rule : [length : Nat, zones : Nat \X Nat,
                   breaks : Seq([kind : t.kinds.breaks, minutes : Nat])], start : Nat] :
        /\ x.rule.length >= ShiftMin /\ x.start < DayMinutes
        /\ \A i \in DOMAIN x.rule.breaks : x.rule.breaks[i].minutes >= AuxMin}

ASSUME TeamsAssumption ==
    \A t \in Teams :
       /\ t.ids \in [Layers -> SUBSET Nat]
       /\ t.days \in Seq(TeamDays(t))
       /\ \A a \in DOMAIN t.days :
             /\ ValidDay(t.days[a]) /\ \A b \in t.days[a].breaks : b.end - b.start >= AuxMin
             /\ Len(t.defaults[a]) <= 2
             /\ t.defaults[a] \in Seq(t.kinds.channels \cup WrittenKinds("channels"))
             /\ t.rules[a] \subseteq RulesAtStart(t)
             /\ \A x \in t.rules[a] : t.days[a].noBreak = x.rule.zones
(* BreakStepIn, WorkRuleIn: a break of a rule takes some minutes.          *)
WorkRules ==
    {r \in [length : Nat, zones : Nat \X Nat,
            breaks : Seq([kind : {"break", "lunch"}, minutes : Nat \ {0}])] : r.length >= ShiftMin}

ASSUME EditsAssumption ==
    /\ Drags \subseteq Int /\ Deltas \subseteq Int /\ Staggers \subseteq Nat
    /\ Needs \subseteq Seq(Nat) /\ ChatMin \in Nat /\ ShiftMin >= 2 * ChannelMin
    /\ Rules \subseteq WorkRules

VARIABLES
    team,  \* the team at work
    stored \* the stored day of each agent

editVars == <<team, stored>>

Staff == DOMAIN team.days
Ids == team.ids
Uses(operation) == operation \in team.uses

Times == 0 .. DayMinutes
Seg(layer) == [id : Ids[layer], kind : team.kinds[layer], start : Times, end : Times]
Patterns(a) == {WorkRulePattern(x.rule, x.start) : x \in team.rules[a]}

(* EditOp: all blocks can be resized, breaks and activities can be moved.  *)
Ops ==
    [layer : {"shift"}, id : {0}, drag : {"start", "end"}]
    \cup (UNION {[layer : {l}, id : Ids[l], drag : {"start", "end"}] : l \in Layers})
    \cup (UNION {[layer : {l}, id : Ids[l], drag : {"move"}] : l \in {"breaks", "activities"}})

(* A block that became shorter than its minimum length.                    *)
HasShort(day) ==
    \/ \E c \in day.channels : c.end - c.start < ChannelMin
    \/ \E o \in day.ot : o.end - o.start < OtMin
    \/ \E x \in day.breaks \cup day.activities : x.end - x.start < AuxMin

(* The types of all variables.                                             *)
EditsTypeOK == team \in Teams /\ stored \in [Staff -> TeamDays(team)]

-----------------------------------------------------------------------------
(* commitDays: the new days of some agents, in one step of the store.      *)
CommitDays(results) ==
    /\ stored' = [a \in Staff |-> IF a \in DOMAIN results THEN results[a] ELSE stored[a]]
    /\ UNCHANGED team

(* A drag of an edge or a block, or an arrow key: main's edit, and the same*)
(* edit by the same distance on the selected agents that have the block.   *)
Drag(main, K, op, delta) ==
    /\ HasBlock(stored[main], op)
    /\ LET value(a, o) == EditValue(stored[a], o) + delta
           eq(a) == EquivalentOps(stored[main], op, stored[a])
           followers == {a \in K \ {main} : eq(a) # {}}
           follow(a) == LET o == CHOOSE x \in eq(a) : TRUE
                        IN  ApplyEdit(stored[a], o, value(a, o))
       IN  CommitDays([a \in followers \cup {main} |->
              IF a = main THEN ApplyEdit(stored[main], op, value(main, op)) ELSE follow(a)])

(* moveSelected and resizeSelected.                                        *)
Move(K, delta) == CommitDays([a \in K |-> MoveDay(stored[a], delta)])

Resize(K, edge, delta) ==
    CommitDays([a \in K |->
       ApplyEdit(stored[a], [layer |-> "shift", id |-> 0, drag |-> edge], stored[a][edge] + delta)])

(* markFromMenu, and the dialog that adds activities, where they may be    *)
(* staggered: the agents they fit, one after the other, under one id.      *)
MarkAux(K, layer, x, full, later) ==
    LET from(a) == IF full THEN stored[a].start ELSE x.start + later[a]
        to(a)   == IF full THEN stored[a].end ELSE x.end + later[a]
    IN  /\ \A a \in K : \A y \in stored[a][layer] : y.id # x.id
        /\ CommitDays([a \in {b \in K : CanMark(stored[b], layer, from(b), to(b))} |->
              Mark(stored[a], layer, [x EXCEPT !.start = from(a), !.end = to(a)])])

(* staggeredWindow: how much later each agent's activity begins; the first *)
(* wave does not wait.                                                     *)
Staggered(K) == {later \in [K -> {0} \cup Staggers] : \E a \in K : later[a] = 0}

(* removeFromMenu.                                                         *)
UnmarkAt(K, at) == CommitDays([a \in K |-> Unmark(stored[a], at)])

(* EditActivityDialog: an activity is changed to times that fit the others,*)
(* or removed.                                                             *)
EditActivity(a, x) ==
    LET rest == [stored[a] EXCEPT !.activities = {y \in @ : y.id # x.id}]
    IN  /\ rest # stored[a]
        /\ \/ CanMark(rest, "activities", x.start, x.end)
              /\ CommitDays([b \in {a} |-> Mark(rest, "activities", x)])
           \/ CommitDays([b \in {a} |-> rest])

(* AddOvertimeDialog: after or before the shift, or at chosen times, for   *)
(* the agents it fits.                                                     *)
AddOvertime(K, timing, x) ==
    LET length == x.end - x.start
        from(a) == IF timing = "custom" THEN x.start ELSE OvertimeFrom(stored[a], timing, length)
    IN  /\ \A a \in K : \A y \in stored[a].ot : y.id # x.id
        /\ CommitDays([a \in {b \in K : CanAddOvertime(stored[b], from(b), from(b) + length)} |->
              WithOvertime(stored[a], [x EXCEPT !.start = from(a), !.end = from(a) + length])])

(* AgentScheduleEditor: channels and overtime as they were entered, once   *)
(* they are valid, or back to the defaults.  Bound: one block is entered   *)
(* or removed between saves.                                               *)
SaveSchedule(a, layer, S) ==
    LET day == [stored[a] EXCEPT ![layer] = S]
    IN  /\ ValidPlan(day, day.channels, day.ot)
        /\ CommitDays([b \in {a} |-> day])

ResetSchedule(a) ==
    CommitDays([b \in {a} |->
       [stored[b] EXCEPT !.channels = DefaultChannels(stored[b], team.defaults[b]), !.ot = {}]])

(* applyWorkRules, on a date that is or is not a week off.                 *)
AlignWithRules(K, off) ==
    CommitDays([a \in K |-> ApplyWorkRule(stored[a], Patterns(a), off)])

(* planChannels and the publishing of its drafts.                          *)
PlanChannels(need) == CommitDays(PlanChannelDay(stored, need, 0, ChatMin))

-----------------------------------------------------------------------------
EditsInit ==
    /\ team \in Teams
    /\ stored = team.days

Entered(a, layer) ==
    LET others(i) == {y \in stored[a][layer] : y.id # i}
    IN  {others(x.id) \cup {x} : x \in Seg(layer)} \cup {others(i) : i \in Ids[layer]}

(* Bound: days are not edited further once the server would refuse one.    *)
EditsNext ==
    /\ \A a \in Staff : ValidDay(stored[a])
    /\ \/ \E K \in (SUBSET Staff) \ {{}} :
             \/ \E main \in K, op \in Ops, delta \in Drags : op.layer \in team.drags /\ Drag(main, K, op, delta)
             \/ \E edge \in {"start", "end"}, delta \in Deltas :
                   Uses("move") /\ (Move(K, delta) \/ Resize(K, edge, delta))
             \/ \E full \in BOOLEAN, x \in Seg("breaks") :
                   Uses("mark") /\ MarkAux(K, "breaks", x, full, [a \in K |-> 0])
             \/ \E full \in BOOLEAN, later \in Staggered(K), x \in Seg("activities") :
                   Uses("mark") /\ MarkAux(K, "activities", x, full, later)
             \/ \E at \in Times : Uses("mark") /\ UnmarkAt(K, at)
             \/ \E x \in Seg("ot"), timing \in {"after", "before", "custom"} :
                   Uses("overtime") /\ AddOvertime(K, timing, x)
             \/ \E off \in BOOLEAN : Uses("align") /\ AlignWithRules(K, off)
       \/ \E a \in Staff :
             \/ \E x \in Seg("activities") : Uses("mark") /\ EditActivity(a, x)
             \/ \E layer \in {"channels", "ot"} : \E S \in Entered(a, layer) :
                   Uses("schedule") /\ SaveSchedule(a, layer, S)
             \/ Uses("schedule") /\ ResetSchedule(a)
       \/ \E need \in Needs : Uses("plan") /\ PlanChannels(need)

EditsSpec == EditsInit /\ [][EditsNext]_editVars

-----------------------------------------------------------------------------
(* Properties *)

(* A week off that was laid over another activity.                         *)
OffOverActivity(day) == IsWeekOff(day) /\ Overlapping(day.activities)

(* A pattern that would run past midnight ends there; its breaks stay where*)
(* they are and may reach beyond it, or into the zone before it, and what  *)
(* is left of it may be too short for a shift.                             *)
CutAtMidnight(p) ==
    \/ p.end - p.start < ShiftMin
    \/ \E b \in p.breaks : p.start + b.end > p.end - p.noBreak[2]

(* Whatever the Scheduling page does to a valid day makes a day the server *)
(* accepts ("Every rule the UI enforces", dayplan.py:151), with three      *)
(* exceptions the code has: a drag next to a block that was cut below its  *)
(* minimum length, a week off laid over other activities (workRules.ts:398)*)
(* and a rule's pattern that is cut off at midnight (:179).                *)
EditsLandValid ==
    [][\A a \in Staff :
          ~HasShort(stored[a]) => \/ ValidDay(stored'[a])
                                  \/ OffOverActivity(stored'[a])
                                  \/ \E p \in Patterns(a) : CutAtMidnight(p)]_editVars

(* "A break stays out of the work rule's no-break zones (one already inside*)
(* can only move out, not further in)" (channels.ts:230), whichever edge of*)
(* the break or of the shift is moved, and whatever rule is applied.       *)
NoFurtherIn ==
    [][\A a \in Staff : \A b \in stored'[a].breaks : (\A p \in Patterns(a) : ~CutAtMidnight(p)) =>
          LET was == {x \in stored[a].breaks : x.id = b.id}
              from(x, day) == x.start - day.start
              to(x, day)   == day.end - x.end
          IN  /\ from(b, stored'[a]) < NoBreak(stored[a])[1]
                    => \E x \in was : from(x, stored[a]) <= from(b, stored'[a])
              /\ to(b, stored'[a]) < NoBreak(stored[a])[2]
                    => \E x \in was : to(x, stored[a]) <= to(b, stored'[a])]_editVars

(* Overtime adds up: whatever it merges with, overtime that is added makes *)
(* the day's overtime longer by its own minutes, none of them counted twice*)
(* (withOvertimeAdded).                                                    *)
OvertimeAddsUp ==
    \A a \in Staff : \A x \in [id : {0}, kind : team.kinds.ot, start : Times, end : Times] :
       /\ ValidDay(stored[a]) /\ CanAddOvertime(stored[a], x.start, x.end)
       /\ \A y \in stored[a].ot : y.id # x.id
       => LET ot == WithOvertime(stored[a], x).ot
          IN  /\ ~Overlapping(ot)
              /\ \A m \in Times : (\E o \in ot : Covers(o, m))
                                      <=> Covers(x, m) \/ \E o \in stored[a].ot : Covers(o, m)

(* The timeline's base segments cover every minute of the shift once       *)
(* (dayTimeline), and the stretches of work are the runs of minutes at     *)
(* work, a shift running straight into overtime being one (workStretches). *)
MinutesAddUp ==
    \A a \in Staff : ValidDay(stored[a]) =>
       LET day == stored[a]
           at(m) == /\ Covers(day, m) \/ \E o \in day.ot : Covers(o, m)
                    /\ ~\E b \in day.breaks : Covers(b, m)
                    /\ ~\E x \in day.activities : x.kind \in NotWorking /\ Covers(x, m)
       IN  /\ \A m \in day.start .. day.end - 1 :
                 Cardinality({b \in BaseSegments(day) : b[2][1] <= m /\ m < b[2][2]}) = 1
           /\ WorkStretches(day) =
                 {x \in Times \X Times :
                     /\ x[1] < x[2] /\ ~at(x[1] - 1) /\ ~at(x[2])
                     /\ \A m \in x[1] .. x[2] - 1 : at(m)}

(* A rule without issues keeps its word: from any start that does not run  *)
(* past midnight it makes of a day as the team began it, with no           *)
(* activities and overtime, a valid one without issues - "Equal stretches, *)
(* except that the first and last are at least the no-break zones"         *)
(* (workRules.ts:139).                                                     *)
RulesKeepTheirWord ==
    Uses("align") /\ stored = team.days =>
       \A r \in {x \in Rules : CheckWorkRule(x, Compliance) = {}} :
       \A s \in 0 .. DayMinutes - r.length :
       \A a \in {x \in Staff : stored[x].activities \cup stored[x].ot = {}} :
          LET zoned == [stored[a] EXCEPT !.noBreak = r.zones]
              day   == ApplyWorkRule(zoned, {WorkRulePattern(r, s)}, FALSE)
          IN  ValidDay(day) /\ CheckWorkDay(day, Compliance) = {}

(* The planner serves the phones first and exactly: in every interval as   *)
(* many agents are on the phone, overtime included, as are needed, or all  *)
(* that are free; and nobody is on email while chat is short.  What it     *)
(* plans leaves no minute of a shift unassigned.                           *)
PhonesFirst ==
    \A need \in Needs : Uses("plan") /\ (\A a \in Staff : ValidDay(stored[a])) =>
       LET after == PlanChannelDay(stored, need, 0, ChatMin)
           free(t) == {a \in Staff : AvailableAt(after[a], t)}
           heads(k, t) == OtOn(after, k, t) +
               Cardinality({a \in free(t) : ChannelAt(after[a].channels, t) = {k}})
       IN  /\ \A i \in DOMAIN need :
                 LET t == (i - 1) * Interval
                     most == OtOn(stored, "phone", t) + Cardinality(free(t))
                 IN  /\ heads("phone", t) = Max({OtOn(stored, "phone", t), Min({need[i], most})})
                     /\ heads("chat", t) < ChatMin => heads("email", t) = OtOn(stored, "email", t)
           /\ \A a \in Staff : after[a] # stored[a] =>
                 \A m \in after[a].start .. after[a].end - 1 : ChannelAt(after[a].channels, m) # {}
=============================================================================
