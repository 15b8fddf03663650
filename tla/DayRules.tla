------------------------------ MODULE DayRules ------------------------------
(***************************************************************************)
(* What the browser writes into a day besides the edits of the timeline:   *)
(* a work rule's shift, breaks and week off (lib/domain/workRules.ts) and  *)
(* the planner's channels (lib/domain/channelPlanner.ts); and the checks   *)
(* of a day against the work compliance rules.                             *)
(*                                                                         *)
(* A rule is [length, breaks, zones]: the minutes of the shift, a sequence *)
(* of breaks [kind, minutes], and the no-break zones.  A pattern is a rule *)
(* at a start: [start, end, breaks, noBreak].                              *)
(***************************************************************************)
EXTENDS DayOps, SequencesExt

CONSTANTS
    Grid,            \* the minutes breaks are placed on: 5
    Interval,        \* the minutes of a planning interval: 30
    DefaultChannel,  \* "phone"
    Off              \* the activity of a week off

ASSUME GridAssumption == Grid \in Nat \ {0} /\ Interval \in Nat \ {0}

WeekOffId == 0

(* The running sum of a sequence of numbers.                               *)
Running(base, steps) ==
    LET sum[i \in 0 .. Len(steps)] == IF i = 0 THEN base ELSE sum[i - 1] + steps[i]
    IN  sum

Minutes(rule) ==
    Running(0, [i \in DOMAIN rule.breaks |-> rule.breaks[i].minutes])[Len(rule.breaks)]

-----------------------------------------------------------------------------
(* placeBreaks *)

(* Mutant: the zones are not looked at.                                    *)
WidenedNever(rule, fix) == {}

(* The stretch of work between breaks when the stretches in fix, the first *)
(* or the last, are as long as their no-break zones.                       *)
Chunk(rule, fix) ==
    LET zone(z) == IF z \in fix THEN rule.zones[z] ELSE 0
        work  == rule.length - Minutes(rule) - (zone(1) + zone(2))
        count == Len(rule.breaks) + 1 - Cardinality(fix)
    IN  (Max({0, work}) \div (Max({1, count}) * Grid)) * Grid

(* Zones longer than the stretches they limit.                             *)
Widened(rule, fix) == fix \cup {z \in {1, 2} : rule.zones[z] > Chunk(rule, fix)}

(* Each break's offset from the start of the shift: equal stretches, except*)
(* that the first and last are at least the no-break zones.                *)
PlaceBreaks(rule) ==
    LET fix   == Widened(rule, Widened(rule, {}))
        chunk == Chunk(rule, fix)
        first == IF 1 \in Widened(rule, fix) THEN rule.zones[1] ELSE chunk
        next  == Running(first, [i \in DOMAIN rule.breaks |-> rule.breaks[i].minutes + chunk])
    IN  IF rule.length <= Minutes(rule) THEN {}
        ELSE {[id |-> i, kind |-> rule.breaks[i].kind, start |-> next[i - 1],
               end |-> next[i - 1] + rule.breaks[i].minutes] : i \in DOMAIN rule.breaks}

(* workRulePattern: the pattern an agent on the rule works from a start.   *)
WorkRulePattern(rule, start) ==
    [start |-> start, end |-> Min({DayMinutes, start + rule.length}),
     breaks |-> PlaceBreaks(rule), noBreak |-> rule.zones]

-----------------------------------------------------------------------------
(* applyWorkRuleToDay *)

(* fitChannels: blocks are cut to a new shift and stretched over it, each  *)
(* from the end of the one before.                                         *)
FitChannels(channels, s, e) ==
    LET kept == {c \in {[c EXCEPT !.start = Max({s, @}), !.end = Min({e, @})] : c \in channels} :
                    c.end > c.start}
        ends(c) == {x.end : x \in {y \in kept : y.end <= c.start}}
        last(c) == \A x \in kept : x.end <= c.end
        first == {c \in channels : \A x \in channels : c.start <= x.start}
    IN  IF kept = {}
        THEN {[id |-> 1, start |-> s, end |-> e,
               kind |-> IF first = {} THEN DefaultChannel ELSE (CHOOSE c \in first : TRUE).kind]}
        ELSE {[c EXCEPT !.start = Max({s} \cup ends(c)), !.end = IF last(c) THEN e ELSE @] : c \in kept}

(* applyWorkRuleToDay: shift and breaks of the agent's pattern, if any, a  *)
(* week off over the whole shift, activities kept inside the shift, and no *)
(* overtime that overlaps it.                                              *)
ApplyWorkRule(day, patterns, off) ==
    LET p == CHOOSE x \in patterns : TRUE
        s == IF patterns = {} THEN day.start ELSE p.start
        e == IF patterns = {} THEN day.end ELSE p.end
        inside == {x \in {[y EXCEPT !.start = Max({s, @}), !.end = Min({e, @})] :
                             y \in {z \in day.activities : z.id # WeekOffId}} : x.end > x.start}
    IN  [day EXCEPT
           !.start = s, !.end = e,
           !.breaks = IF patterns = {} THEN @ ELSE Shifted(p.breaks, s),
           !.channels = IF day.start = s /\ day.end = e THEN @ ELSE FitChannels(@, s, e),
           !.ot = {o \in @ : o.end <= s \/ o.start >= e},
           !.activities = inside
               \cup {x \in {[id |-> WeekOffId, kind |-> Off, start |-> s, end |-> e]} : off}]

(* defaultChannelSegments: one channel all day, or two that change at      *)
(* mid-shift on the channel grid, which is ChannelMin.                     *)
DefaultChannels(day, kinds) ==
    LET mid == day.start + ((day.end - day.start + ChannelMin) \div (2 * ChannelMin)) * ChannelMin
        from(i) == IF i = 1 THEN day.start ELSE mid
        to(i)   == IF i = Len(kinds) THEN day.end ELSE mid
    IN  {[id |-> i, kind |-> kinds[i], start |-> from(i), end |-> to(i)] : i \in DOMAIN kinds}

-----------------------------------------------------------------------------
(* Checks of a day.  A rule of the compliance record that is switched off  *)
(* is {}, another the singleton of its minutes.                            *)

NotWorking == {"loa", "absence", "vto", "pto", "leave", Off}

IsWeekOff(day) == \E x \in day.activities : x.kind = Off

(* workPieces: the shift and overtime without breaks and time off.         *)
WorkPieces(day) ==
    FoldSet(CutOut, {<<day.start, day.end>>} \cup {<<o.start, o.end>> : o \in day.ot},
            day.breaks \cup {x \in day.activities : x.kind \in NotWorking})

WorkedMinutes(day) == FoldSet(LAMBDA p, n : n + p[2] - p[1], 0, WorkPieces(day))

(* Mutant: overtime and the shift it touches are two stretches.            *)
WorkStretchesApart(day) == WorkPieces(day)

(* workStretches: pieces that touch are one stretch.                       *)
WorkStretches(day) ==
    LET pieces == WorkPieces(day)
        starts == {p[1] : p \in pieces} \ {p[2] : p \in pieces}
        ends   == {p[2] : p \in pieces} \ {p[1] : p \in pieces}
    IN  {<<s, Min({e \in ends : e > s})>> : s \in starts}

(* checkWorkDay: the kinds of issues a day has.                            *)
CheckWorkDay(day, c) ==
    LET stretches == WorkStretches(day)
        inShift == {b \in day.breaks : b.start < day.end /\ b.end > day.start}
        length  == Max({x[2] : x \in stretches}) - Min({x[1] : x \in stretches})
        issues  ==
            {"breakInNoBreakZone" : b \in {b \in inShift :
                 b.start < day.start + NoBreak(day)[1] \/ b.end > day.end - NoBreak(day)[2]}}
            \cup {"breakRequired" : h \in {h \in c.breakAfter : length >= h /\ inShift = {}}}
            \cup {"maxContinuousWork" : h \in {h \in c.maxContinuous :
                     \E x \in stretches : x[2] - x[1] > h}}
            \cup {"lunchRequired" : h \in {h \in c.lunchAfter : WorkedMinutes(day) > h
                     /\ ~\E b \in inShift : b.kind = "lunch" /\ b.end - b.start >= c.minLunch}}
    IN  IF IsWeekOff(day) THEN {"otOnWeekOff" : o \in day.ot}
        ELSE IF stretches = {} THEN {} ELSE issues

BareDay(start, end, breaks) ==
    [start |-> start, end |-> end, breaks |-> breaks, channels |-> {}, activities |-> {}, ot |-> {}]

(* checkWorkRule: a rule's own issues, on a sample day without zones.      *)
CheckWorkRule(rule, c) ==
    IF rule.breaks # <<>> /\ Minutes(rule) + rule.zones[1] + rule.zones[2] > rule.length
    THEN {"breakInNoBreakZone"}
    ELSE IF Minutes(rule) >= rule.length THEN {"breakRequired"}
    ELSE CheckWorkDay(BareDay(0, rule.length, PlaceBreaks(rule)), c)

-----------------------------------------------------------------------------
(* planChannelDay.  Agents are numbered; days is their sequence of days,   *)
(* need the phone heads each interval asks for, from the minute first on.  *)

Covers(x, t) == x.start <= t /\ t < x.end

AvailableAt(day, t) ==
    /\ Covers(day, t)
    /\ ~\E x \in day.breaks \cup day.activities : Covers(x, t)

(* The channel of a minute, as one of a singleton, or {}.                  *)
ChannelAt(segs, t) == {c.kind : c \in {x \in segs : Covers(x, t)}}

OtOn(days, channel, t) ==
    FoldSet(LAMBDA a, n : n + Cardinality({o \in days[a].ot : o.kind = channel /\ Covers(o, t)}),
            0, DOMAIN days)

(* The n agents of a pool who suit a channel best: those on it before, then*)
(* those whose day has it, then by key.                                    *)
Suited(days, last, pool, channel, n, t) ==
    LET rank(a) == (IF last[a] = {channel} THEN 0 ELSE 2)
                   + (IF ChannelAt(days[a].channels, t) = {channel} THEN 0 ELSE 1)
        before(a, b) == rank(a) < rank(b) \/ (rank(a) = rank(b) /\ a < b)
    IN  {a \in pool : Cardinality({b \in pool : before(b, a)}) < n}

(* Mutant: overtime does not count towards what is needed.                 *)
PickedRegardless(days, last, need, chatMin, t) ==
    LET free  == {a \in DOMAIN days : AvailableAt(days[a], t)}
        phone == Suited(days, last, free, "phone", need, t)
        chat  == Suited(days, last, free \ phone, "chat", chatMin, t)
    IN  [a \in DOMAIN days |-> IF a \in phone THEN {"phone"} ELSE IF a \in chat THEN {"chat"}
                               ELSE IF a \in free THEN {"email"} ELSE {}]

(* One interval: phone first, then chat, and email for the rest.           *)
Picked(days, last, need, chatMin, t) ==
    LET free  == {a \in DOMAIN days : AvailableAt(days[a], t)}
        phone == Suited(days, last, free, "phone", need - OtOn(days, "phone", t), t)
        chat  == Suited(days, last, free \ phone, "chat", chatMin - OtOn(days, "chat", t), t)
    IN  [a \in DOMAIN days |-> IF a \in phone THEN {"phone"} ELSE IF a \in chat THEN {"chat"}
                               ELSE IF a \in free THEN {"email"} ELSE {}]

(* The channels picked in each interval; last is an agent's latest pick.   *)
Picks(days, need, first, chatMin) ==
    LET step[i \in 0 .. Len(need)] ==
            IF i = 0 THEN [picks |-> <<>>, last |-> [a \in DOMAIN days |-> {}]]
            ELSE LET p == Picked(days, step[i - 1].last, need[i], chatMin, first + (i - 1) * Interval)
                 IN  [picks |-> Append(step[i - 1].picks, p),
                      last  |-> [a \in DOMAIN days |-> IF p[a] = {} THEN step[i - 1].last[a] ELSE p[a]]]
    IN  step[Len(need)].picks

(* One agent's channels: the shift cut where the channel of the interval   *)
(* changes; intervals without a pick keep the nearest choice before them.  *)
PlannedChannels(day, mine, first) ==
    LET n == Len(mine)
        picked == {i \in 1 .. n : mine[i] # {}}
        upTo(i) == {j \in picked : j <= i}
        filled(i) == mine[IF upTo(i) = {} THEN Min(picked) ELSE Max(upTo(i))]
        channel(t) == filled(Max({1, Min({n, (t - first + Interval) \div Interval})}))
        cuts == {day.start} \cup {t \in {first + (i - 1) * Interval : i \in 1 .. n} :
                                     day.start < t /\ t < day.end}
        bounds == {t \in cuts : t = day.start \/ channel(t) # channel(Max({x \in cuts : x < t}))}
        after == {[id |-> Cardinality({x \in bounds : x <= t}), kind |-> CHOOSE k \in channel(t) : TRUE,
                   start |-> t, end |-> Min({day.end} \cup {x \in bounds : x > t})] : t \in bounds}
        same == \A t \in 0 .. DayMinutes - 1 : ChannelAt(after, t) = ChannelAt(day.channels, t)
    IN  IF picked = {} \/ same THEN day.channels ELSE after

(* The days with the planned channels.                                     *)
PlanChannelDay(days, need, first, chatMin) ==
    LET picks == Picks(days, need, first, chatMin)
    IN  [a \in DOMAIN days |->
            [days[a] EXCEPT !.channels =
                PlannedChannels(days[a], [i \in 1 .. Len(need) |-> picks[i][a]], first)]]
=============================================================================
