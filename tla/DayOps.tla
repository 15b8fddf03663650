------------------------------- MODULE DayOps -------------------------------
(***************************************************************************)
(* One agent's day and the edits of the timeline: frontend/src/lib/domain/ *)
(* channels.ts, which backend/app/modules/scheduling/dayplan.py ports.     *)
(*                                                                         *)
(* A day is a shift with four layers of blocks: channels, breaks and       *)
(* activities inside the shift, overtime (ot) outside it.  The block lists *)
(* are sets here (the code sorts them by start), and a block's kind is its *)
(* channel, break type or activity.  In the browser a day also has the     *)
(* no-break zones of its work rule; the server's days have none.  The      *)
(* lengths are constants so that small days have the proportions of a real *)
(* one.                                                                    *)
(***************************************************************************)
EXTENDS Integers, FiniteSetsExt

CONSTANTS DayMinutes,                         \* DAY_MINUTES
          AuxMin, ChannelMin, OtMin, ShiftMin \* MIN_LEN

ASSUME LengthsAssumption ==
    /\ AuxMin \in Nat \ {0} /\ ChannelMin \in Nat \ {0} /\ OtMin \in Nat \ {0}
    /\ ShiftMin \in Nat \ {0} /\ DayMinutes \in Nat /\ ShiftMin <= DayMinutes

Inner == {"channels", "breaks", "activities"}
Layers == Inner \cup {"ot"}

Clamp(v, lo, hi) == Min({hi, Max({lo, v})})

Shifted(S, d) == {[x EXCEPT !.start = @ + d, !.end = @ + d] : x \in S}

Clashing(S, from, to) == {x \in S : from < x.end /\ to > x.start}

(* noBreak ?? [0, 0]: the minutes without breaks at either end of a shift. *)
NoBreak(day) == IF "noBreak" \in DOMAIN day THEN day.noBreak ELSE <<0, 0>>

-----------------------------------------------------------------------------
(* What is a valid day: the server's validate_day, and validateAgentPlan   *)
(* before the schedule dialog saves channels and overtime.                 *)

Apart(S) ==
    \A x, y \in S : x # y => x.id # y.id /\ (x.end <= y.start \/ y.end <= x.start)

Inside(x, day) == day.start <= x.start /\ x.end <= day.end
Outside(x, day) == x.end <= day.start \/ day.end <= x.start

ValidDay(day) ==
    /\ 0 <= day.start /\ day.end <= DayMinutes /\ day.end - day.start >= ShiftMin
    /\ \A l \in Layers :
          /\ Apart(day[l])
          /\ \A x \in day[l] :
                /\ x.start < x.end /\ 0 <= x.start /\ x.end <= DayMinutes
                /\ IF l \in Inner THEN Inside(x, day) ELSE Outside(x, day)

Overlapping(S) == \E x, y \in S : x # y /\ x.start < y.end /\ y.start < x.end

ValidPlan(day, channels, ot) ==
    /\ \A c \in channels : c.start < c.end /\ Inside(c, day)
    /\ \A o \in ot : o.start < o.end /\ 0 <= o.start /\ o.end <= DayMinutes /\ Outside(o, day)
    /\ ~Overlapping(channels) /\ ~Overlapping(ot)

-----------------------------------------------------------------------------
(* Moves and resizes.  An edit op addresses the shift or a block by layer  *)
(* and id, and drags it ("move") or one of its edges ("start", "end").     *)

Block(day, op) == CHOOSE x \in day[op.layer] : x.id = op.id
HasBlock(day, op) == IF op.layer = "shift" THEN TRUE ELSE op.id \in {x.id : x \in day[op.layer]}
Others(day, op) == {x \in day[op.layer] : x.id # op.id}

(* editValue: where the dragged edge is now.                               *)
EditValue(day, op) ==
    LET me == IF op.layer = "shift" THEN day ELSE Block(day, op)
    IN  IF op.drag = "end" THEN me.end ELSE me.start

EndsUpTo(S, t) == {x.end : x \in {y \in S : y.end <= t}}
StartsFrom(S, t) == {x.start : x \in {y \in S : y.start >= t}}

(* Mutant: a shift edge may bring a break into its no-break zone.          *)
ShiftBoundsZoneless(day, edge) ==
    LET blocks == day.breaks \cup day.activities
    IN  IF edge = "start"
        THEN <<Max({0} \cup EndsUpTo(day.ot, day.start)),
               Min({day.end - ShiftMin} \cup {x.start : x \in blocks})>>
        ELSE <<Max({day.start + ShiftMin} \cup {x.end : x \in blocks}),
               Min({DayMinutes} \cup StartsFrom(day.ot, day.end))>>

(* Mutant: overtime next to the shift is forgotten.                        *)
ShiftBoundsFree(day, edge) ==
    LET blocks == day.breaks \cup day.activities
    IN  IF edge = "start"
        THEN <<0, Min({day.end - ShiftMin} \cup {x.start : x \in blocks})>>
        ELSE <<Max({day.start + ShiftMin} \cup {x.end : x \in blocks}), DayMinutes>>

(* Breaks and activities stay inside the shift and overtime outside it, and*)
(* no edge brings a break into a no-break zone.                            *)
ShiftBounds(day, edge) ==
    LET blocks == day.breaks \cup day.activities
        first  == Min({day.end} \cup {x.start : x \in blocks}
                                \cup {b.start - NoBreak(day)[1] : b \in day.breaks})
        last   == Max({day.start} \cup {x.end : x \in blocks}
                                  \cup {b.end + NoBreak(day)[2] : b \in day.breaks})
    IN  IF edge = "start"
        THEN <<Max({0} \cup EndsUpTo(day.ot, day.start)),
               Min({Max({day.start, first}), day.end - ShiftMin})>>
        ELSE <<Max({Min({day.end, last}), day.start + ShiftMin}),
               Min({DayMinutes} \cup StartsFrom(day.ot, day.end))>>

(* The room a block has between the neighbours of its layer and the ends   *)
(* of its stretch of the day, keeping a minimum length.                    *)
Room(me, others, first, last, minimum, drag) ==
    LET previous == Max({first} \cup EndsUpTo(others, me.start))
        next     == Min({last} \cup StartsFrom(others, me.end))
    IN  CASE drag = "move"  -> <<previous, next - (me.end - me.start)>>
          [] drag = "start" -> <<previous, me.end - minimum>>
          [] drag = "end"   -> <<me.start + minimum, next>>

(* The channel block that shares the dragged edge moves with it.           *)
Adjacent(day, op) ==
    LET me == Block(day, op)
    IN  {c \in Others(day, op) : IF op.drag = "start" THEN c.end = me.start
                                                      ELSE c.start = me.end}

ChannelBounds(day, op) ==
    LET me == Block(day, op)
        free == Room(me, Others(day, op), day.start, day.end, ChannelMin, op.drag)
    IN  IF Adjacent(day, op) = {} THEN free
        ELSE LET adj == CHOOSE c \in Adjacent(day, op) : TRUE
             IN  IF op.drag = "start" THEN <<adj.start + ChannelMin, free[2]>>
                                      ELSE <<free[1], adj.end - ChannelMin>>

OtBounds(day, op) ==
    LET me == Block(day, op)
        before == me.end <= day.start
    IN  Room(me, Others(day, op), IF before THEN 0 ELSE day.end,
             IF before THEN day.start ELSE DayMinutes, OtMin, op.drag)

(* A break stays out of the no-break zones; one already inside can only    *)
(* move out.                                                               *)
BreakBounds(day, op) ==
    LET me == Block(day, op)
    IN  Room(me, Others(day, op), Min({day.start + NoBreak(day)[1], me.start}),
             Max({day.end - NoBreak(day)[2], me.end}), AuxMin, op.drag)

(* editBounds.                                                             *)
EditBounds(day, op) ==
    CASE op.layer = "shift"    -> ShiftBounds(day, op.drag)
      [] op.layer = "channels" -> ChannelBounds(day, op)
      [] op.layer = "ot"       -> OtBounds(day, op)
      [] op.layer = "breaks"   -> BreakBounds(day, op)
      [] op.layer = "activities" ->
            Room(Block(day, op), Others(day, op), day.start, day.end, AuxMin, op.drag)

(* A channel block under a shift whose edge moved from old to v: blocks at *)
(* the edge follow it, the rest is cut off.                                *)
Cut(c, edge, old, shift) ==
    [c EXCEPT !.start = IF edge = "start" /\ @ = old THEN shift.start ELSE Max({@, shift.start}),
              !.end   = IF edge = "end" /\ @ = old THEN shift.end ELSE Min({@, shift.end})]

ResizeShift(day, edge, v) ==
    LET shift == [start |-> IF edge = "start" THEN v ELSE day.start,
                  end   |-> IF edge = "end" THEN v ELSE day.end]
        cut   == {Cut(c, edge, day[edge], shift) : c \in day.channels}
    IN  [day EXCEPT !.start = shift.start, !.end = shift.end,
                    !.channels = {c \in cut : c.end > c.start}]

(* A drag of one block, and of the channel block next to it.               *)
Dragged(x, drag, v) ==
    CASE drag = "move"  -> [x EXCEPT !.start = v, !.end = v + (x.end - x.start)]
      [] drag = "start" -> [x EXCEPT !.start = v]
      [] drag = "end"   -> [x EXCEPT !.end = v]

MoveBlock(day, op, v) ==
    LET adjacent == IF op.layer = "channels" THEN Adjacent(day, op) ELSE {}
        follow(c) == IF op.drag = "start" THEN [c EXCEPT !.end = v] ELSE [c EXCEPT !.start = v]
    IN  [day EXCEPT ![op.layer] = (Others(day, op) \ adjacent)
            \cup {follow(c) : c \in adjacent} \cup {Dragged(Block(day, op), op.drag, v)}]

(* applyEdit.                                                              *)
ApplyEdit(day, op, value) ==
    LET bounds == EditBounds(day, op)
        v == Clamp(value, bounds[1], bounds[2])
    IN  IF op.layer = "shift" THEN ResizeShift(day, op.drag, v) ELSE MoveBlock(day, op, v)

(* equivalentOp: the same edit on another agent's day - a shift edge, the  *)
(* break with the same id, the activity of the same kind and start.        *)
EquivalentOps(source, op, target) ==
    CASE op.layer = "shift"  -> {op}
      [] op.layer = "breaks" -> {o \in {op} : HasBlock(target, o)}
      [] op.layer = "activities" ->
            {[op EXCEPT !.id = x.id] : x \in
                {y \in target.activities : LET me == Block(source, op)
                                           IN  y.kind = me.kind /\ y.start = me.start}}
      [] OTHER -> {}

-----------------------------------------------------------------------------
(* Whole days, marks and overtime *)

(* How far a day can move before something leaves the calendar day.        *)
MoveDelta(day, delta) ==
    Clamp(delta, -Min({day.start} \cup {o.start : o \in day.ot}),
          DayMinutes - Max({day.end} \cup {o.end : o \in day.ot}))

(* moveDay.                                                                *)
MoveDay(day, delta) ==
    LET d == MoveDelta(day, delta)
    IN  [day EXCEPT !.start = @ + d, !.end = @ + d,
                    !.channels = Shifted(@, d), !.breaks = Shifted(@, d),
                    !.activities = Shifted(@, d), !.ot = Shifted(@, d)]

(* markAux and proposeActivity: whether a break or an activity fits, and   *)
(* the day with it.                                                        *)
CanMark(day, layer, from, to) ==
    /\ to - from >= AuxMin
    /\ day.start <= from /\ to <= day.end
    /\ layer = "breaks" => /\ from >= day.start + NoBreak(day)[1]
                           /\ to <= day.end - NoBreak(day)[2]
    /\ Clashing(day[layer], from, to) = {}

(* Mutant: every mark is an activity.                                      *)
MarkActivity(day, layer, x) == [day EXCEPT !.activities = @ \cup {x}]

Mark(day, layer, x) == [day EXCEPT ![layer] = @ \cup {x}]

(* unmarkActivitiesAt.                                                     *)
Unmark(day, at) == [day EXCEPT !.activities = {x \in @ : ~(x.start <= at /\ at < x.end)}]

(* proposeOvertime: where overtime of a length lands after or before the   *)
(* shift, and whether it may.                                              *)
OvertimeFrom(day, timing, length) ==
    IF timing = "after"
    THEN Max({day.end} \cup {o.end : o \in {x \in day.ot : x.start >= day.end}})
    ELSE Min({day.start} \cup {o.start : o \in {x \in day.ot : x.end <= day.start}}) - length

CanAddOvertime(day, from, to) ==
    /\ to - from >= OtMin
    /\ 0 <= from /\ to <= DayMinutes
    /\ ~(from < day.end /\ to > day.start)
    /\ Clashing(day.ot, from, to) = {}

(* Mutant: the block that is added replaces the one it touches.            *)
MergedReplacing(merged, o) ==
    [id |-> o.id, kind |-> merged.kind, start |-> merged.start, end |-> merged.end]

Merged(merged, o) ==
    [id |-> o.id, kind |-> merged.kind,
     start |-> Min({o.start, merged.start}), end |-> Max({o.end, merged.end})]

Touches(m, o) == o.kind = m.kind /\ (o.end = m.start \/ o.start = m.end)

(* One more block of the day: it is merged, or it stays as it is.          *)
Absorb(state, o) ==
    IF Touches(state.merged, o) THEN [state EXCEPT !.merged = Merged(@, o)]
                                ELSE [state EXCEPT !.rest = @ \cup {o}]

InOrder(S) ==
    CHOOSE f \in [1 .. Cardinality(S) -> S] :
        \A i, j \in 1 .. Cardinality(S) : i < j => f[i].start < f[j].start

(* withOvertimeAdded: it merges with overtime of its channel it touches,   *)
(* block by block in the order of the day.                                 *)
WithOvertime(day, x) ==
    LET state[i \in 0 .. Cardinality(day.ot)] ==
            IF i = 0 THEN [merged |-> x, rest |-> {}]
            ELSE Absorb(state[i - 1], InOrder(day.ot)[i])
        final == state[Cardinality(day.ot)]
    IN  [day EXCEPT !.ot = final.rest \cup {final.merged}]

-----------------------------------------------------------------------------
(* dayTimeline: the base segments a day is drawn and counted as.           *)

(* One cut out of disjoint pieces, and all cuts out of an interval.        *)
CutOut(c, pieces) ==
    LET hit == {p \in pieces : c.start < p[2] /\ p[1] < c.end}
    IN  (pieces \ hit) \cup {<<p[1], c.start>> : p \in {q \in hit : q[1] < c.start}}
                       \cup {<<c.end, p[2]>> : p \in {q \in hit : c.end < q[2]}}

Subtract(from, to, cuts) == FoldSet(CutOut, {<<from, to>>}, cuts)

(* The base layer inside the shift, tagged with the block it comes from.   *)
BaseSegments(day) ==
    LET cuts == {b \in day.breaks : b.end > day.start /\ b.start < day.end}
    IN  {<<b, <<b.start, b.end>>>> : b \in cuts}
        \cup (UNION {{<<c, p>> : p \in Subtract(Max({day.start, c.start}), Min({day.end, c.end}), cuts)}
                        : c \in day.channels})
        \cup {<<day, p>> : p \in Subtract(day.start, day.end, cuts \cup day.channels)}
=============================================================================
