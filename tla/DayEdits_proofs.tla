-------------------------- MODULE DayEdits_proofs --------------------------
(***************************************************************************)
(* Proofs about DayEdits, what the Scheduling page does to days, and the   *)
(* operators of DayRules it calls: types, validity, breaks and zones,      *)
(* overtime, the minutes of a timeline, work rules and the planner, for    *)
(* teams of any size with any days.  The numbers and the overtime are      *)
(* those of SlotOffers_proofs.                                             *)
(***************************************************************************)
EXTENDS SlotOffers_proofs, DayEdits

-----------------------------------------------------------------------------
(* Least and greatest times *)

LEMMA LeastTime ==
    ASSUME NEW lo \in Int, NEW S \in SUBSET Int, S # {}, \A n \in S : lo <= n
    PROVE  Min(S) \in S /\ \A n \in S : Min(S) <= n
<1> DEFINE T == {n - lo : n \in S}
<1>1. T \in SUBSET Nat /\ T # {}
  <2>1. \A n \in S : n \in Int /\ n - lo \in Nat
    OBVIOUS
  <2> QED
    BY <2>1
<1>2. PICK m \in S : Min(T) = m - lo
  BY <1>1, MinOfNats
<1>3. \A n \in S : m <= n
  <2> TAKE n \in S
  <2>1. m - lo <= n - lo
    BY <1>1, <1>2, MinOfNats
  <2> QED
    BY <2>1
<1> QED
  BY <1>3 DEF Min

LEMMA GreatestTime ==
    ASSUME NEW hi \in Int, NEW S \in SUBSET Int, S # {}, \A n \in S : n <= hi
    PROVE  Max(S) \in S /\ \A n \in S : n <= Max(S)
<1> DEFINE T == {hi - n : n \in S}
<1>1. T \in SUBSET Nat /\ T # {}
  <2>1. \A n \in S : n \in Int /\ hi - n \in Nat
    OBVIOUS
  <2> QED
    BY <2>1
<1>2. PICK m \in S : Min(T) = hi - m
  BY <1>1, MinOfNats
<1>3. \A n \in S : m >= n
  <2> TAKE n \in S
  <2>1. hi - m <= hi - n
    BY <1>1, <1>2, MinOfNats
  <2> QED
    BY <2>1
<1> QED
  BY <1>3 DEF Max

LEMMA Clamped ==
    ASSUME NEW v \in Int, NEW lo \in Int, NEW hi \in Int
    PROVE  Clamp(v, lo, hi) \in Int /\ Clamp(v, lo, hi) <= hi /\ (lo <= hi => lo <= Clamp(v, lo, hi))
<1>1. Max({lo, v}) = IF lo >= v THEN lo ELSE v
  BY MaxOfTwo
<1>2. Clamp(v, lo, hi) = IF hi <= Max({lo, v}) THEN hi ELSE Max({lo, v})
  BY <1>1, MinOfTwo DEF Clamp
<1> QED
  BY <1>1, <1>2

-----------------------------------------------------------------------------
(* A layer of a day that is valid from s to e *)

Fit(l, S, s, e) ==
    /\ Apart(S)
    /\ \A x \in S : /\ x.start < x.end /\ 0 <= x.start /\ x.end <= DayMinutes
                    /\ IF l \in Inner THEN s <= x.start /\ x.end <= e
                                      ELSE x.end <= s \/ e <= x.start

Frame(s, e) == 0 <= s /\ e <= DayMinutes /\ e - s >= ShiftMin

LEMMA ValidLayers ==
    ASSUME NEW day
    PROVE  ValidDay(day) <=>
              /\ Frame(day.start, day.end)
              /\ Fit("channels", day.channels, day.start, day.end)
              /\ Fit("breaks", day.breaks, day.start, day.end)
              /\ Fit("activities", day.activities, day.start, day.end)
              /\ Fit("ot", day.ot, day.start, day.end)
<1>1. Layers = {"channels", "breaks", "activities", "ot"}
  BY DEF Layers, Inner
<1>2. ValidDay(day) <=> Frame(day.start, day.end)
                          /\ \A l \in Layers : Fit(l, day[l], day.start, day.end)
  BY DEF ValidDay, Frame, Fit, Inside, Outside
<1> QED
  BY <1>1, <1>2

LEMMA FitFewer ==
    ASSUME NEW l, NEW S, NEW s, NEW e, Fit(l, S, s, e), NEW R \in SUBSET S
    PROVE  Fit(l, R, s, e)
BY DEF Fit, Apart

LEMMA FitOneMore ==
    ASSUME NEW l, NEW S, NEW s, NEW e, Fit(l, S, s, e), NEW x,
           x.start < x.end, 0 <= x.start, x.end <= DayMinutes,
           IF l \in Inner THEN s <= x.start /\ x.end <= e ELSE x.end <= s \/ e <= x.start,
           \A y \in S : y.id # x.id /\ (y.end <= x.start \/ x.end <= y.start)
    PROVE  Fit(l, S \cup {x}, s, e)
BY DEF Fit, Apart

(* What a team's days and their blocks are made of.                        *)
LEMMA TeamDay ==
    ASSUME NEW t, NEW day \in TeamDays(t)
    PROVE  /\ day.start \in Int /\ day.end \in Int /\ day.noBreak \in Nat \X Nat
           /\ NoBreak(day) = day.noBreak
           /\ \A l \in Layers : day[l] \in SUBSET Blocks(t, l)
           /\ \A l \in Layers : \A S \in SUBSET Blocks(t, l) :
                 [day EXCEPT ![l] = S] \in TeamDays(t)
<1>1. DOMAIN day = {"start", "end", "noBreak", "channels", "breaks", "activities", "ot"}
  BY DEF TeamDays
<1>2. Layers = {"channels", "breaks", "activities", "ot"}
  BY DEF Layers, Inner
<1> QED
  BY <1>1, <1>2 DEF TeamDays, NoBreak

LEMMA TeamBlock ==
    ASSUME NEW t, NEW l, NEW x \in Blocks(t, l)
    PROVE  /\ x.id \in Nat /\ x.start \in Int /\ x.end \in Int
           /\ \A v \in Int, w \in Int : [x EXCEPT !.start = v, !.end = w] \in Blocks(t, l)
           /\ \A v \in Int : [x EXCEPT !.start = v] \in Blocks(t, l)
           /\ \A v \in Int : [x EXCEPT !.end = v] \in Blocks(t, l)
BY DEF Blocks

(* The minimum lengths are numbers.                                        *)
LEMMA Lengths ==
    /\ DayMinutes \in Nat /\ AuxMin \in Nat /\ ChannelMin \in Nat /\ OtMin \in Nat /\ ShiftMin \in Nat
    /\ AuxMin > 0 /\ ChannelMin > 0 /\ OtMin > 0 /\ ShiftMin > 0
BY LengthsAssumption

-----------------------------------------------------------------------------
(* The room a block is dragged in *)

LEMMA RoomBefore ==
    ASSUME NEW R, \A y \in R : y.start \in Int /\ y.end \in Int, NEW from, NEW first, from \in Int, first \in Int, first <= from
    PROVE  /\ Max({first} \cup EndsUpTo(R, from)) \in Int
           /\ first <= Max({first} \cup EndsUpTo(R, from))
           /\ Max({first} \cup EndsUpTo(R, from)) <= from
           /\ \A y \in R : y.end <= from => y.end <= Max({first} \cup EndsUpTo(R, from))
<1> DEFINE S == {first} \cup EndsUpTo(R, from)
<1>1. S \in SUBSET Int /\ S # {} /\ \A n \in S : n <= from
  BY DEF EndsUpTo
<1>2. Max(S) \in S /\ \A n \in S : n <= Max(S)
  <2> HIDE DEF S
  <2> QED
    BY <1>1, GreatestTime
<1>3. \A y \in R : y.end <= from => y.end \in S
  BY DEF EndsUpTo
<1> QED
  BY <1>1, <1>2, <1>3

LEMMA RoomAfter ==
    ASSUME NEW R, \A y \in R : y.start \in Int /\ y.end \in Int, NEW to, NEW last, to \in Int, last \in Int, to <= last
    PROVE  /\ Min({last} \cup StartsFrom(R, to)) \in Int
           /\ Min({last} \cup StartsFrom(R, to)) <= last
           /\ to <= Min({last} \cup StartsFrom(R, to))
           /\ \A y \in R : to <= y.start => Min({last} \cup StartsFrom(R, to)) <= y.start
<1> DEFINE S == {last} \cup StartsFrom(R, to)
<1>1. S \in SUBSET Int /\ S # {} /\ \A n \in S : to <= n
  BY DEF StartsFrom
<1>2. Min(S) \in S /\ \A n \in S : Min(S) <= n
  <2> HIDE DEF S
  <2> QED
    BY <1>1, LeastTime
<1>3. \A y \in R : to <= y.start => y.start \in S
  BY DEF StartsFrom
<1> QED
  BY <1>1, <1>2, <1>3

(* A block among its neighbours, between the ends of its stretch.          *)
Among(me, R, first, last) ==
    /\ me.start < me.end /\ first <= me.start /\ me.end <= last
    /\ \A y \in R : y.id # me.id /\ (y.end <= me.start \/ me.end <= y.start)

HasSpace(t, l, me, R, first, last, minimum, drag) ==
    /\ R \in SUBSET Blocks(t, l) /\ me \in Blocks(t, l) /\ first \in Int /\ last \in Int
    /\ Among(me, R, first, last)
    /\ minimum \in Nat /\ minimum > 0 /\ drag \in {"move", "start", "end"}

StaysInRoom(t, l, me, R, first, last, minimum, room, x) ==
    /\ room[1] \in Int /\ room[2] \in Int
    /\ x \in Blocks(t, l) /\ x.id = me.id
    /\ me.end - me.start >= minimum => Among(x, R, first, last) /\ x.end - x.start >= minimum

LEMMA DraggedInRoom ==
    ASSUME NEW t, NEW l, NEW me, NEW R, NEW first, NEW last, NEW minimum, NEW drag,
           HasSpace(t, l, me, R, first, last, minimum, drag), NEW value, value \in Int
    PROVE  LET room == Room(me, R, first, last, minimum, drag)
           IN  StaysInRoom(t, l, me, R, first, last, minimum, room,
                           Dragged(me, drag, Clamp(value, room[1], room[2])))
<1> DEFINE room == Room(me, R, first, last, minimum, drag)
           x == Dragged(me, drag, Clamp(value, room[1], room[2]))
           previous == Max({first} \cup EndsUpTo(R, me.start))
           next == Min({last} \cup StartsFrom(R, me.end))
           v == Clamp(value, room[1], room[2])
<1> SUFFICES StaysInRoom(t, l, me, R, first, last, minimum, room, x)
  OBVIOUS
<1> HIDE DEF room, x
<1> USE DEF HasSpace, StaysInRoom
<1>0. /\ me.start \in Int /\ me.end \in Int /\ me.start < me.end /\ first <= me.start /\ me.end <= last
      /\ \A y \in R : y.start \in Int /\ y.end \in Int
  BY TeamBlock DEF Among
<1>1. /\ previous \in Int /\ first <= previous /\ previous <= me.start
      /\ \A y \in R : y.end <= me.start => y.end <= previous
  <2> HIDE DEF previous
  <2> QED
    BY <1>0, RoomBefore DEF previous
<1>2. /\ next \in Int /\ next <= last /\ me.end <= next
      /\ \A y \in R : me.end <= y.start => next <= y.start
  <2> HIDE DEF next
  <2> QED
    BY <1>0, RoomAfter DEF next
<1>3. /\ drag = "move" => room[1] = previous /\ room[2] = next - (me.end - me.start)
      /\ drag = "start" => room[1] = previous /\ room[2] = me.end - minimum
      /\ drag = "end" => room[1] = me.start + minimum /\ room[2] = next
  BY DEF Room, room
<1> HIDE DEF previous, next
<1>4. room[1] \in Int /\ room[2] \in Int
  BY <1>0, <1>1, <1>2, <1>3
<1>5. v \in Int /\ v <= room[2] /\ (room[1] <= room[2] => room[1] <= v)
  BY <1>4, Clamped
<1> HIDE DEF v
<1>6. CASE drag = "move"
  <2>1. x = [me EXCEPT !.start = v, !.end = v + (me.end - me.start)]
    BY <1>6 DEF Dragged, v, x
  <2> DEFINE w == v + (me.end - me.start)
  <2>a. w \in Int /\ x = [me EXCEPT !.start = v, !.end = w]
    BY <1>0, <1>5, <2>1
  <2> HIDE DEF w
  <2>b. x \in Blocks(t, l) /\ x.id = me.id /\ x.start = v /\ x.end = w
    BY <1>5, <2>a DEF Blocks
  <2>2. x \in Blocks(t, l) /\ x.id = me.id /\ x.start = v /\ x.end = v + (me.end - me.start)
    BY <2>b DEF w
  <2>3. first <= v /\ v + (me.end - me.start) <= last /\ previous <= v /\ v + (me.end - me.start) <= next
    BY <1>0, <1>1, <1>2, <1>3, <1>5, <1>6
  <2>4. \A y \in R : y.end <= v \/ v + (me.end - me.start) <= y.start
    BY <1>0, <1>1, <1>2, <1>5, <2>3 DEF Among
  <2> QED
    BY <1>0, <1>4, <1>5, <2>2, <2>3, <2>4 DEF Among
<1>7. CASE drag = "start"
  <2>1. x = [me EXCEPT !.start = v]
    BY <1>7 DEF Dragged, v, x
  <2>2. x \in Blocks(t, l) /\ x.id = me.id /\ x.start = v /\ x.end = me.end
    BY <1>0, <1>5, <2>1 DEF Blocks
  <2>3. me.end - me.start >= minimum => previous <= v /\ v <= me.end - minimum
    BY <1>0, <1>1, <1>3, <1>5, <1>7
  <2>4. me.end - me.start >= minimum => \A y \in R : y.end <= v \/ me.end <= y.start
    BY <1>0, <1>1, <1>2, <1>5, <2>3 DEF Among
  <2> QED
    BY <1>0, <1>1, <1>4, <1>5, <2>2, <2>3, <2>4 DEF Among
<1>8. CASE drag = "end"
  <2>1. x = [me EXCEPT !.end = v]
    BY <1>8 DEF Dragged, v, x
  <2>2. x \in Blocks(t, l) /\ x.id = me.id /\ x.start = me.start /\ x.end = v
    BY <1>0, <1>5, <2>1 DEF Blocks
  <2>3. me.end - me.start >= minimum => v <= next /\ v >= me.start + minimum
    BY <1>0, <1>2, <1>3, <1>5, <1>8
  <2>4. me.end - me.start >= minimum => \A y \in R : y.end <= me.start \/ v <= y.start
    BY <1>0, <1>1, <1>2, <1>5, <2>3 DEF Among
  <2> QED
    BY <1>0, <1>2, <1>4, <1>5, <2>2, <2>3, <2>4 DEF Among
<1> QED
  BY <1>6, <1>7, <1>8

(* A day in which one layer is exchanged.                                  *)
OnlyLayer(t, day, l, d) ==
    /\ d \in TeamDays(t) /\ d.noBreak = day.noBreak
    /\ d.start = day.start /\ d.end = day.end
    /\ \A k \in Layers \ {l} : d[k] = day[k]

LEMMA LayerExchanged ==
    ASSUME NEW t, NEW day \in TeamDays(t), NEW l \in Layers, NEW S \in SUBSET Blocks(t, l)
    PROVE  /\ OnlyLayer(t, day, l, [day EXCEPT ![l] = S])
           /\ [day EXCEPT ![l] = S][l] = S
           /\ ValidDay(day) /\ Fit(l, S, day.start, day.end) => ValidDay([day EXCEPT ![l] = S])
<1> DEFINE d == [day EXCEPT ![l] = S]
<1>1. Layers = {"channels", "breaks", "activities", "ot"}
  BY DEF Layers, Inner
<1>2. DOMAIN day = {"start", "end", "noBreak", "channels", "breaks", "activities", "ot"}
  BY DEF TeamDays
<1>3. d \in TeamDays(t)
  BY TeamDay
<1>4. d.start = day.start /\ d.end = day.end /\ d.noBreak = day.noBreak
  BY <1>1, <1>2
<1>5. \A k \in Layers : d[k] = IF k = l THEN S ELSE day[k]
  BY <1>1, <1>2
<1> HIDE DEF d
<1>6. ASSUME ValidDay(day), Fit(l, S, day.start, day.end) PROVE ValidDay(d)
  <2>1. /\ Frame(d.start, d.end)
        /\ \A k \in Layers : Fit(k, d[k], d.start, d.end)
    BY <1>1, <1>4, <1>5, <1>6, ValidLayers
  <2> QED
    BY <1>1, <2>1, ValidLayers
<1>7. OnlyLayer(t, day, l, d) /\ d[l] = S
  BY <1>3, <1>4, <1>5 DEF OnlyLayer
<1> QED
  BY <1>6, <1>7 DEF d

(* A layer in which one block is exchanged.                                *)
LEMMA BlockExchanged ==
    ASSUME NEW l, NEW S, NEW s, NEW e, Fit(l, S, s, e), NEW me \in S, NEW x, x.id = me.id,
           NEW first \in Int, NEW last \in Int, Among(x, {y \in S : y.id # me.id}, first, last),
           0 <= first, last <= DayMinutes, s \in Int, e \in Int,
           IF l \in Inner THEN s <= first /\ last <= e ELSE last <= s \/ e <= first,
           x.start \in Int, x.end \in Int
    PROVE  Fit(l, {y \in S : y.id # me.id} \cup {x}, s, e)
<1> DEFINE R == {y \in S : y.id # me.id}
<1>1. Fit(l, R, s, e)
  BY FitFewer
<1>2. DayMinutes \in Int
  BY Lengths
<1>3. x.start < x.end /\ first <= x.start /\ x.end <= last
  BY DEF Among
<1>4. \A y \in R : y.id # x.id /\ (y.end <= x.start \/ x.end <= y.start)
  BY DEF Among
<1>5. 0 <= x.start /\ x.end <= DayMinutes
  BY <1>2, <1>3
<1>6. IF l \in Inner THEN s <= x.start /\ x.end <= e ELSE x.end <= s \/ e <= x.start
  BY <1>3
<1> HIDE DEF R
<1>7. Fit(l, R \cup {x}, s, e)
  BY <1>1, <1>3, <1>4, <1>5, <1>6, FitOneMore
<1> QED
  BY <1>7 DEF R

-----------------------------------------------------------------------------
(* A block is dragged *)

EditOps == [layer : Layers, id : Nat, drag : {"move", "start", "end"}]

LEMMA TheBlock ==
    ASSUME NEW day, NEW op \in EditOps, HasBlock(day, op)
    PROVE  /\ Block(day, op) \in day[op.layer] /\ Block(day, op).id = op.id
           /\ Others(day, op) = {y \in day[op.layer] : y.id # Block(day, op).id}
<1>1. op.layer # "shift"
  BY DEF EditOps, Layers, Inner
<1>2. \E x \in day[op.layer] : x.id = op.id
  BY <1>1 DEF HasBlock
<1>3. Block(day, op) \in day[op.layer] /\ Block(day, op).id = op.id
  BY <1>2 DEF Block
<1> QED
  BY <1>3 DEF Others

RoomFor(day, op, first, last, minimum) ==
    Room(Block(day, op), Others(day, op), first, last, minimum, op.drag)

(* Where a drag leaves the block, if it may go from first to last.         *)
DraggedBlock(day, op, room, value) ==
    Dragged(Block(day, op), op.drag, Clamp(value, room[1], room[2]))

DraggedLayer(day, op, room, value) ==
    Others(day, op) \cup {DraggedBlock(day, op, room, value)}

LEMMA DraggedFits ==
    ASSUME NEW t, NEW day \in TeamDays(t), ValidDay(day), NEW op \in EditOps, HasBlock(day, op),
           NEW value, NEW first, NEW last, NEW minimum,
           value \in Int, first \in Int, last \in Int, minimum \in Nat, minimum > 0,
           0 <= first, last <= DayMinutes, first <= Block(day, op).start, Block(day, op).end <= last,
           IF op.layer \in Inner THEN day.start <= first /\ last <= day.end
                                 ELSE last <= day.start \/ day.end <= first,
           NEW room, room = RoomFor(day, op, first, last, minimum),
           NEW x, x = DraggedBlock(day, op, room, value)
    PROVE  /\ room[1] \in Int /\ room[2] \in Int
           /\ x.id = op.id /\ DraggedLayer(day, op, room, value) \in SUBSET Blocks(t, op.layer)
           /\ Block(day, op).end - Block(day, op).start >= minimum =>
                 /\ first <= x.start /\ x.end <= last /\ x.end - x.start >= minimum
                 /\ Fit(op.layer, DraggedLayer(day, op, room, value), day.start, day.end)
<1> DEFINE me == Block(day, op)
           R == Others(day, op)
           l == op.layer
           S == DraggedLayer(day, op, room, value)
<1>1. l \in Layers /\ op.drag \in {"move", "start", "end"}
  BY DEF EditOps
<1>2. me \in day[l] /\ me.id = op.id /\ R = {y \in day[l] : y.id # me.id}
  BY TheBlock
<1>3. day[l] \in SUBSET Blocks(t, l) /\ day.start \in Int /\ day.end \in Int
  BY <1>1, TeamDay
<1>4. Fit(l, day[l], day.start, day.end)
  <2>1. Layers = {"channels", "breaks", "activities", "ot"}
    BY DEF Layers, Inner
  <2> QED
    BY <1>1, <2>1, ValidLayers
<1>5. me \in Blocks(t, l) /\ R \in SUBSET Blocks(t, l)
  BY <1>2, <1>3
<1>6. Among(me, R, first, last)
  BY <1>2, <1>4 DEF Fit, Apart, Among
<1>7. room = Room(me, R, first, last, minimum, op.drag)
      /\ x = Dragged(me, op.drag, Clamp(value, room[1], room[2]))
  BY DEF RoomFor, DraggedBlock
<1>0. S = R \cup {x}
  BY DEF DraggedLayer
<1> HIDE DEF me, R, l, S
<1>8. /\ room[1] \in Int /\ room[2] \in Int
      /\ x \in Blocks(t, l) /\ x.id = me.id
      /\ me.end - me.start >= minimum => Among(x, R, first, last) /\ x.end - x.start >= minimum
  <2>1. HasSpace(t, l, me, R, first, last, minimum, op.drag)
    BY <1>1, <1>5, <1>6 DEF HasSpace
  <2>2. StaysInRoom(t, l, me, R, first, last, minimum, room, x)
    BY <1>7, <2>1, DraggedInRoom
  <2> QED
    BY <2>2 DEF StaysInRoom
<1>9. x.start \in Int /\ x.end \in Int
  BY <1>8, TeamBlock
<1>10. me.end - me.start >= minimum => Fit(l, R \cup {x}, day.start, day.end)
  <2> SUFFICES ASSUME me.end - me.start >= minimum PROVE Fit(l, R \cup {x}, day.start, day.end)
    OBVIOUS
  <2>1. Among(x, {y \in day[l] : y.id # me.id}, first, last)
    BY <1>2, <1>8
  <2>2. IF l \in Inner THEN day.start <= first /\ last <= day.end
                       ELSE last <= day.start \/ day.end <= first
    BY DEF l
  <2> QED
    BY <1>2, <1>3, <1>4, <1>8, <1>9, <2>1, <2>2, BlockExchanged
<1>11. me.end - me.start >= minimum => first <= x.start /\ x.end <= last /\ x.end - x.start >= minimum
  BY <1>8 DEF Among
<1> QED
  BY <1>0, <1>2, <1>5, <1>8, <1>10, <1>11 DEF me, l, S

(* No channel block shares the edge: nothing but the block changes.        *)
LEMMA DraggedAlone ==
    ASSUME NEW day, NEW op \in EditOps, op.layer = "channels" => Adjacent(day, op) = {}, NEW v
    PROVE  MoveBlock(day, op, v) =
              [day EXCEPT ![op.layer] = Others(day, op) \cup {Dragged(Block(day, op), op.drag, v)}]
BY DEF MoveBlock

LEMMA AppliedToBlock ==
    ASSUME NEW day, NEW op \in EditOps, NEW value, NEW room, EditBounds(day, op) = room,
           op.layer = "channels" => Adjacent(day, op) = {}
    PROVE  ApplyEdit(day, op, value) = [day EXCEPT ![op.layer] = DraggedLayer(day, op, room, value)]
<1> DEFINE v == Clamp(value, room[1], room[2])
<1>1. op.layer # "shift"
  BY DEF EditOps, Layers, Inner
<1>2. ApplyEdit(day, op, value) = MoveBlock(day, op, v)
  BY <1>1 DEF ApplyEdit
<1>3. DraggedLayer(day, op, room, value) = Others(day, op) \cup {Dragged(Block(day, op), op.drag, v)}
  BY DEF DraggedLayer, DraggedBlock
<1> HIDE DEF v
<1> QED
  BY <1>2, <1>3, DraggedAlone

(* Blocks of a valid day.                                                  *)
LEMMA BlockInDay ==
    ASSUME NEW t, NEW day \in TeamDays(t), ValidDay(day), NEW op \in EditOps, HasBlock(day, op)
    PROVE  /\ day.start \in Int /\ day.end \in Int
           /\ 0 <= day.start /\ day.end <= DayMinutes /\ day.start < day.end
           /\ Block(day, op) \in Blocks(t, op.layer)
           /\ Block(day, op).start \in Int /\ Block(day, op).end \in Int
           /\ Block(day, op).start < Block(day, op).end
           /\ 0 <= Block(day, op).start /\ Block(day, op).end <= DayMinutes
           /\ IF op.layer \in Inner
              THEN day.start <= Block(day, op).start /\ Block(day, op).end <= day.end
              ELSE Block(day, op).end <= day.start \/ day.end <= Block(day, op).start
<1> DEFINE me == Block(day, op)
<1>1. op.layer \in Layers /\ Layers = {"channels", "breaks", "activities", "ot"}
  BY DEF EditOps, Layers, Inner
<1>2. me \in day[op.layer]
  BY TheBlock
<1>3. Fit(op.layer, day[op.layer], day.start, day.end) /\ Frame(day.start, day.end)
  BY <1>1, ValidLayers
<1>4. day.start \in Int /\ day.end \in Int /\ me \in Blocks(t, op.layer)
  BY <1>1, <1>2, TeamDay
<1>5. me.start \in Int /\ me.end \in Int
  BY <1>4, TeamBlock
<1> HIDE DEF me
<1>6. 0 <= day.start /\ day.end <= DayMinutes /\ day.start < day.end
  BY <1>3, <1>4, Lengths DEF Frame
<1>7. /\ me.start < me.end /\ 0 <= me.start /\ me.end <= DayMinutes
      /\ IF op.layer \in Inner THEN day.start <= me.start /\ me.end <= day.end
                               ELSE me.end <= day.start \/ day.end <= me.start
  BY <1>2, <1>3 DEF Fit
<1> QED
  BY <1>4, <1>5, <1>6, <1>7 DEF me

LEMMA OtDragged ==
    ASSUME NEW t, NEW day \in TeamDays(t), ValidDay(day), NEW op \in EditOps, HasBlock(day, op),
           op.layer = "ot", NEW value \in Int
    PROVE  /\ OnlyLayer(t, day, "ot", ApplyEdit(day, op, value))
           /\ Block(day, op).end - Block(day, op).start >= OtMin => ValidDay(ApplyEdit(day, op, value))
<1> DEFINE me == Block(day, op)
           before == me.end <= day.start
           first == IF before THEN 0 ELSE day.end
           last == IF before THEN day.start ELSE DayMinutes
           room == RoomFor(day, op, first, last, OtMin)
           S == DraggedLayer(day, op, room, value)
           d == ApplyEdit(day, op, value)
<1>1. "ot" \in Layers /\ "ot" \notin Inner
  BY DEF Layers, Inner
<1>2. EditBounds(day, op) = room
  BY DEF EditBounds, OtBounds, RoomFor
<1>3. /\ first \in Int /\ last \in Int /\ 0 <= first /\ last <= DayMinutes
      /\ first <= me.start /\ me.end <= last /\ (last <= day.start \/ day.end <= first)
  BY <1>1, BlockInDay, Lengths
<1> HIDE DEF first, last, before
<1>4. /\ S \in SUBSET Blocks(t, "ot")
      /\ me.end - me.start >= OtMin => Fit("ot", S, day.start, day.end)
  <2>1. S \in SUBSET Blocks(t, op.layer)
    BY <1>1, <1>3, Lengths, DraggedFits
  <2>2. me.end - me.start >= OtMin => Fit(op.layer, S, day.start, day.end)
    BY <1>1, <1>3, Lengths, DraggedFits
  <2> QED
    BY <2>1, <2>2
<1> HIDE DEF room
<1>5. d = [day EXCEPT !["ot"] = S]
  BY <1>2, AppliedToBlock
<1> HIDE DEF S
<1>6. OnlyLayer(t, day, "ot", [day EXCEPT !["ot"] = S])
  BY <1>1, <1>4, LayerExchanged
<1>7. Fit("ot", S, day.start, day.end) => ValidDay([day EXCEPT !["ot"] = S])
  BY <1>1, <1>4, LayerExchanged
<1> QED
  BY <1>4, <1>5, <1>6, <1>7

LEMMA ActivityDragged ==
    ASSUME NEW t, NEW day \in TeamDays(t), ValidDay(day), NEW op \in EditOps, HasBlock(day, op),
           op.layer = "activities", NEW value \in Int
    PROVE  /\ OnlyLayer(t, day, "activities", ApplyEdit(day, op, value))
           /\ Block(day, op).end - Block(day, op).start >= AuxMin => ValidDay(ApplyEdit(day, op, value))
<1> DEFINE me == Block(day, op)
           room == RoomFor(day, op, day.start, day.end, AuxMin)
           S == DraggedLayer(day, op, room, value)
           d == ApplyEdit(day, op, value)
<1>1. "activities" \in Layers /\ "activities" \in Inner
  BY DEF Layers, Inner
<1>2. EditBounds(day, op) = room
  BY DEF EditBounds, RoomFor
<1>3. /\ day.start \in Int /\ day.end \in Int /\ 0 <= day.start /\ day.end <= DayMinutes
      /\ day.start <= me.start /\ me.end <= day.end
  BY <1>1, BlockInDay
<1>4. /\ S \in SUBSET Blocks(t, "activities")
      /\ me.end - me.start >= AuxMin => Fit("activities", S, day.start, day.end)
  <2>1. S \in SUBSET Blocks(t, op.layer)
    BY <1>1, <1>3, Lengths, DraggedFits
  <2>2. me.end - me.start >= AuxMin => Fit(op.layer, S, day.start, day.end)
    BY <1>1, <1>3, Lengths, DraggedFits
  <2> QED
    BY <2>1, <2>2
<1> HIDE DEF room
<1>5. d = [day EXCEPT !["activities"] = S]
  BY <1>2, AppliedToBlock
<1> HIDE DEF S
<1>6. OnlyLayer(t, day, "activities", [day EXCEPT !["activities"] = S])
  BY <1>1, <1>4, LayerExchanged
<1>7. Fit("activities", S, day.start, day.end) => ValidDay([day EXCEPT !["activities"] = S])
  BY <1>1, <1>4, LayerExchanged
<1> QED
  BY <1>4, <1>5, <1>6, <1>7

-----------------------------------------------------------------------------
(* What an edit makes of a valid day                                       *)

LongBreaks(day) == \A b \in day.breaks : b.end - b.start >= AuxMin

(* A break that is in a zone was at least as far in it.                    *)
Outward(day, d) ==
    \A b \in d.breaks :
       LET was == {x \in day.breaks : x.id = b.id}
       IN  /\ b.start - d.start < day.noBreak[1]
                => \E x \in was : x.start - day.start <= b.start - d.start
           /\ d.end - b.end < day.noBreak[2]
                => \E x \in was : day.end - x.end <= d.end - b.end

Ready(t, day) == day \in TeamDays(t) /\ ValidDay(day) /\ LongBreaks(day)

Edited(t, day, d) ==
    /\ d \in TeamDays(t) /\ d.noBreak = day.noBreak /\ LongBreaks(d)
    /\ ~HasShort(day) => ValidDay(d)
    /\ Outward(day, d)

LEMMA BreaksKept ==
    ASSUME NEW t, NEW day \in TeamDays(t), NEW d, d.start = day.start, d.end = day.end,
           \A b \in d.breaks : b \in day.breaks
    PROVE  Outward(day, d)
<1>1. day.start \in Int /\ day.end \in Int /\ \A b \in day.breaks : b.start \in Int /\ b.end \in Int
  <2>1. "breaks" \in Layers
    BY DEF Layers, Inner
  <2>2. day.breaks \in SUBSET Blocks(t, "breaks")
    BY <2>1, TeamDay
  <2> QED
    BY <2>2, TeamDay, TeamBlock
<1>2. ASSUME NEW b \in d.breaks
      PROVE  \E x \in {x \in day.breaks : x.id = b.id} :
                x.start - day.start <= b.start - d.start /\ day.end - x.end <= d.end - b.end
  BY <1>1
<1> QED
  BY <1>2 DEF Outward

LEMMA OtherLayerEdited ==
    ASSUME NEW t, NEW day, Ready(t, day), NEW l \in {"channels", "activities", "ot"},
           NEW d, OnlyLayer(t, day, l, d), ~HasShort(day) => ValidDay(d)
    PROVE  Edited(t, day, d)
<1>1. d.breaks = day.breaks
  BY DEF OnlyLayer, Layers, Inner
<1>2. d \in TeamDays(t) /\ d.noBreak = day.noBreak /\ d.start = day.start /\ d.end = day.end
  BY DEF OnlyLayer
<1>3. Outward(day, d)
  BY <1>1, <1>2, BreaksKept DEF Ready
<1> QED
  BY <1>1, <1>2, <1>3 DEF Edited, LongBreaks, Ready

LEMMA OtEdited ==
    ASSUME NEW t, NEW day, Ready(t, day), NEW op \in EditOps, HasBlock(day, op),
           op.layer = "ot", NEW value \in Int
    PROVE  Edited(t, day, ApplyEdit(day, op, value))
<1>1. Block(day, op) \in day.ot
  BY TheBlock
<1>2. ~HasShort(day) => Block(day, op).end - Block(day, op).start >= OtMin
  <2>1. Block(day, op).start \in Int /\ Block(day, op).end \in Int
    BY BlockInDay DEF Ready
  <2> QED
    BY <1>1, <2>1, Lengths DEF HasShort
<1>3. /\ OnlyLayer(t, day, "ot", ApplyEdit(day, op, value))
      /\ ~HasShort(day) => ValidDay(ApplyEdit(day, op, value))
  BY <1>2, OtDragged DEF Ready
<1> QED
  BY <1>3, OtherLayerEdited

LEMMA ActivityEdited ==
    ASSUME NEW t, NEW day, Ready(t, day), NEW op \in EditOps, HasBlock(day, op),
           op.layer = "activities", NEW value \in Int
    PROVE  Edited(t, day, ApplyEdit(day, op, value))
<1>1. Block(day, op) \in day.activities
  BY TheBlock
<1>2. ~HasShort(day) => Block(day, op).end - Block(day, op).start >= AuxMin
  <2>1. Block(day, op).start \in Int /\ Block(day, op).end \in Int
    BY BlockInDay DEF Ready
  <2> QED
    BY <1>1, <2>1, Lengths DEF HasShort
<1>3. /\ OnlyLayer(t, day, "activities", ApplyEdit(day, op, value))
      /\ ~HasShort(day) => ValidDay(ApplyEdit(day, op, value))
  BY <1>2, ActivityDragged DEF Ready
<1> QED
  BY <1>3, OtherLayerEdited

LEMMA BreakEdited ==
    ASSUME NEW t, NEW day, Ready(t, day), NEW op \in EditOps, HasBlock(day, op),
           op.layer = "breaks", NEW value \in Int
    PROVE  Edited(t, day, ApplyEdit(day, op, value))
<1> DEFINE me == Block(day, op)
           nb == day.noBreak
           first == Min({day.start + nb[1], me.start})
           last == Max({day.end - nb[2], me.end})
           room == RoomFor(day, op, first, last, AuxMin)
           x == DraggedBlock(day, op, room, value)
           S == DraggedLayer(day, op, room, value)
           d == ApplyEdit(day, op, value)
<1>1. "breaks" \in Layers /\ "breaks" \in Inner
  BY DEF Layers, Inner
<1>2. day \in TeamDays(t) /\ ValidDay(day) /\ LongBreaks(day) /\ NoBreak(day) = nb
      /\ nb[1] \in Nat /\ nb[2] \in Nat
  BY TeamDay DEF Ready
<1>3. EditBounds(day, op) = room
  BY <1>2 DEF EditBounds, BreakBounds, RoomFor
<1>4. /\ day.start \in Int /\ day.end \in Int /\ 0 <= day.start /\ day.end <= DayMinutes
      /\ day.start <= me.start /\ me.end <= day.end /\ me.start \in Int /\ me.end \in Int
  BY <1>1, <1>2, BlockInDay
<1> HIDE DEF me, nb
<1>5. /\ first = IF day.start + nb[1] <= me.start THEN day.start + nb[1] ELSE me.start
      /\ last = IF day.end - nb[2] >= me.end THEN day.end - nb[2] ELSE me.end
  BY <1>2, <1>4, MinOfTwo, MaxOfTwo
<1> HIDE DEF first, last
<1>6. /\ first \in Int /\ last \in Int /\ 0 <= first /\ last <= DayMinutes
      /\ first <= me.start /\ me.end <= last /\ day.start <= first /\ last <= day.end
  BY <1>2, <1>4, <1>5, Lengths
<1>7. me \in day.breaks /\ me.id = op.id /\ me.end - me.start >= AuxMin
      /\ Others(day, op) \subseteq day.breaks
  BY <1>2, TheBlock DEF LongBreaks, me
<1>8. /\ S \in SUBSET Blocks(t, "breaks") /\ x.id = op.id
      /\ first <= x.start /\ x.end <= last /\ x.end - x.start >= AuxMin
      /\ Fit("breaks", S, day.start, day.end)
  <2>1. x.id = op.id /\ S \in SUBSET Blocks(t, op.layer)
    BY <1>1, <1>2, <1>6, Lengths, DraggedFits DEF me
  <2>2. /\ first <= x.start /\ x.end <= last /\ x.end - x.start >= AuxMin
        /\ Fit(op.layer, S, day.start, day.end)
    BY <1>1, <1>2, <1>6, <1>7, Lengths, DraggedFits DEF me
  <2> QED
    BY <2>1, <2>2
<1>9. S = Others(day, op) \cup {x}
  BY DEF DraggedLayer
<1> HIDE DEF room
<1>10. d = [day EXCEPT !["breaks"] = S]
  BY <1>3, AppliedToBlock
<1> HIDE DEF S, x
<1>11. /\ OnlyLayer(t, day, "breaks", [day EXCEPT !["breaks"] = S])
       /\ [day EXCEPT !["breaks"] = S]["breaks"] = S
  BY <1>1, <1>2, <1>8, LayerExchanged
<1>12. ValidDay([day EXCEPT !["breaks"] = S])
  BY <1>1, <1>2, <1>8, LayerExchanged
<1> HIDE DEF d
<1>13. d \in TeamDays(t) /\ d.noBreak = nb /\ d.breaks = S /\ d.start = day.start /\ d.end = day.end
  BY <1>10, <1>11 DEF OnlyLayer, nb
<1>14. LongBreaks(d)
  BY <1>2, <1>7, <1>8, <1>9, <1>13 DEF LongBreaks
<1>15. x.start \in Int /\ x.end \in Int /\ \A b \in day.breaks : b.start \in Int /\ b.end \in Int
  <2>1. x \in Blocks(t, "breaks") /\ day.breaks \in SUBSET Blocks(t, "breaks")
    BY <1>1, <1>2, <1>8, <1>9, TeamDay
  <2> QED
    BY <2>1, TeamBlock
<1>16. Outward(day, d)
  <2> SUFFICES ASSUME NEW b \in S
               PROVE  LET was == {y \in day.breaks : y.id = b.id}
                      IN  /\ b.start - day.start < nb[1]
                              => \E y \in was : y.start - day.start <= b.start - day.start
                          /\ day.end - b.end < nb[2]
                              => \E y \in was : day.end - y.end <= day.end - b.end
    BY <1>13 DEF Outward, nb
  <2>1. CASE b \in day.breaks
    BY <1>4, <1>15, <2>1
  <2>2. CASE b = x
    <3>1. x.start - day.start < nb[1] => me.start - day.start <= x.start - day.start
      BY <1>2, <1>4, <1>5, <1>6, <1>8, <1>15
    <3>2. day.end - x.end < nb[2] => day.end - me.end <= day.end - x.end
      BY <1>2, <1>4, <1>5, <1>6, <1>8, <1>15
    <3> QED
      BY <1>7, <1>8, <2>2, <3>1, <3>2
  <2> QED
    BY <1>7, <1>9, <2>1, <2>2
<1> QED
  BY <1>10, <1>12, <1>13, <1>14, <1>16 DEF Edited, d, nb

(* Two channel blocks that share an edge, with the edge elsewhere between. *)
LEMMA SharedEdge ==
    ASSUME NEW t, NEW S, S \in SUBSET Blocks(t, "channels"), NEW s, NEW e, s \in Int, e \in Int,
           Fit("channels", S, s, e), NEW a, a \in S, NEW b, b \in S, a.end = b.start, NEW v, v \in Int, a.start < v, v < b.end
    PROVE  Fit("channels", {y \in S : y.id # a.id /\ y.id # b.id}
                           \cup {[a EXCEPT !.end = v], [b EXCEPT !.start = v]}, s, e)
<1> DEFINE R == {y \in S : y.id # a.id /\ y.id # b.id}
           a1 == [a EXCEPT !.end = v]
           b1 == [b EXCEPT !.start = v]
<1>1. \A y \in S : y.id \in Nat /\ y.start \in Int /\ y.end \in Int /\ y.start < y.end
  BY TeamBlock DEF Fit
<1>2. /\ a1.id = a.id /\ a1.start = a.start /\ a1.end = v
      /\ b1.id = b.id /\ b1.start = v /\ b1.end = b.end
  BY DEF Blocks
<1>3. a # b /\ a.id # b.id
  BY <1>1 DEF Fit, Apart
<1>4. \A y \in R : y.end <= a.start \/ b.end <= y.start
  <2> TAKE y \in R
  <2>1. y.end <= a.start \/ a.end <= y.start
    BY DEF Fit, Apart
  <2>2. y.end <= b.start \/ b.end <= y.start
    BY DEF Fit, Apart
  <2> QED
    BY <1>1, <2>1, <2>2
<1>5. 0 <= a.start /\ b.end <= DayMinutes /\ s <= a.start /\ b.end <= e /\ "channels" \in Inner
  BY DEF Fit, Inner
<1>6. Fit("channels", R, s, e)
  BY FitFewer
<1>7. 0 <= v /\ v <= DayMinutes /\ s <= v /\ v <= e
  BY <1>1, <1>5, Lengths
<1> HIDE DEF a1, b1
<1>8. \A y \in R : y.id # a1.id /\ (y.end <= a1.start \/ a1.end <= y.start)
  BY <1>1, <1>2, <1>4
<1>9. \A y \in R \cup {a1} : y.id # b1.id /\ (y.end <= b1.start \/ b1.end <= y.start)
  <2>1. \A y \in R : y.id # b1.id /\ (y.end <= b1.start \/ b1.end <= y.start)
    BY <1>1, <1>2, <1>4
  <2> QED
    BY <1>2, <1>3, <2>1
<1> HIDE DEF R
<1>10. Fit("channels", R \cup {a1}, s, e)
  BY <1>2, <1>5, <1>6, <1>7, <1>8, FitOneMore
<1>11. Fit("channels", (R \cup {a1}) \cup {b1}, s, e)
  BY <1>2, <1>5, <1>7, <1>9, <1>10, FitOneMore
<1>12. (R \cup {a1}) \cup {b1} = R \cup {a1, b1}
  OBVIOUS
<1> QED
  BY <1>11, <1>12 DEF R, a1, b1

LEMMA ChannelAlone ==
    ASSUME NEW t, NEW day \in TeamDays(t), ValidDay(day), NEW op \in EditOps, HasBlock(day, op),
           op.layer = "channels", NEW value \in Int, Adjacent(day, op) = {}
    PROVE  /\ OnlyLayer(t, day, "channels", ApplyEdit(day, op, value))
           /\ Block(day, op).end - Block(day, op).start >= ChannelMin
                => ValidDay(ApplyEdit(day, op, value))
<1> DEFINE me == Block(day, op)
           room == RoomFor(day, op, day.start, day.end, ChannelMin)
           S == DraggedLayer(day, op, room, value)
           d == ApplyEdit(day, op, value)
<1>1. "channels" \in Layers /\ "channels" \in Inner
  BY DEF Layers, Inner
<1>2. EditBounds(day, op) = room
  BY DEF EditBounds, ChannelBounds, RoomFor
<1>3. /\ day.start \in Int /\ day.end \in Int /\ 0 <= day.start /\ day.end <= DayMinutes
      /\ day.start <= me.start /\ me.end <= day.end
  BY <1>1, BlockInDay
<1>4. /\ S \in SUBSET Blocks(t, "channels")
      /\ me.end - me.start >= ChannelMin => Fit("channels", S, day.start, day.end)
  <2>1. S \in SUBSET Blocks(t, op.layer)
    BY <1>1, <1>3, Lengths, DraggedFits
  <2>2. me.end - me.start >= ChannelMin => Fit(op.layer, S, day.start, day.end)
    BY <1>1, <1>3, Lengths, DraggedFits
  <2> QED
    BY <2>1, <2>2
<1> HIDE DEF room
<1>5. d = [day EXCEPT !["channels"] = S]
  BY <1>2, AppliedToBlock
<1> HIDE DEF S
<1>6. OnlyLayer(t, day, "channels", [day EXCEPT !["channels"] = S])
  BY <1>1, <1>4, LayerExchanged
<1>7. Fit("channels", S, day.start, day.end) => ValidDay([day EXCEPT !["channels"] = S])
  BY <1>1, <1>4, LayerExchanged
<1> QED
  BY <1>4, <1>5, <1>6, <1>7

LEMMA ChannelShared ==
    ASSUME NEW t, NEW day \in TeamDays(t), ValidDay(day), NEW op \in EditOps, HasBlock(day, op),
           op.layer = "channels", op.drag \in {"start", "end"}, NEW value \in Int,
           NEW adj \in Adjacent(day, op)
    PROVE  /\ OnlyLayer(t, day, "channels", ApplyEdit(day, op, value))
           /\ /\ Block(day, op).end - Block(day, op).start >= ChannelMin
              /\ adj.end - adj.start >= ChannelMin
              => ValidDay(ApplyEdit(day, op, value))
<1> DEFINE me == Block(day, op)
           S == day.channels
           d == ApplyEdit(day, op, value)
           before == IF op.drag = "start" THEN adj ELSE me
           after == IF op.drag = "start" THEN me ELSE adj
           lo == before.start + ChannelMin
           hi == after.end - ChannelMin
           v == Clamp(value, lo, hi)
           N == {y \in S : y.id # before.id /\ y.id # after.id}
                   \cup {[before EXCEPT !.end = v], [after EXCEPT !.start = v]}
<1>1. "channels" \in Layers /\ "channels" \in Inner
  BY DEF Layers, Inner
<1>2. S \in SUBSET Blocks(t, "channels") /\ day.start \in Int /\ day.end \in Int
  BY <1>1, TeamDay
<1>3. me \in S /\ me.id = op.id /\ Others(day, op) = {y \in S : y.id # me.id}
  BY TheBlock
<1>4. Fit("channels", S, day.start, day.end)
  BY ValidLayers
<1> HIDE DEF me
<1>5. /\ adj \in S /\ adj.id # me.id
      /\ IF op.drag = "start" THEN adj.end = me.start ELSE adj.start = me.end
  BY <1>3 DEF Adjacent, me
<1>6. \A y \in S : y.id \in Nat /\ y.start \in Int /\ y.end \in Int /\ y.start < y.end
  BY <1>2, <1>4, TeamBlock DEF Fit
<1>7. Adjacent(day, op) = {adj}
  <2>1. ASSUME NEW c \in Adjacent(day, op) PROVE c = adj
    <3>1. /\ c \in S /\ c.id # me.id
          /\ IF op.drag = "start" THEN c.end = me.start ELSE c.start = me.end
      BY <1>3 DEF Adjacent, me
    <3>2. c = adj \/ c.end <= adj.start \/ adj.end <= c.start
      BY <1>4, <1>5, <3>1 DEF Fit, Apart
    <3> QED
      BY <1>3, <1>5, <1>6, <3>1, <3>2
  <2> QED
    BY <2>1
<1>8. before \in S /\ after \in S /\ before.end = after.start /\ ChannelMin \in Int
  BY <1>3, <1>5, Lengths
<1>9. lo \in Int /\ hi \in Int
  BY <1>6, <1>8
<1>10. v \in Int /\ v <= hi /\ (lo <= hi => lo <= v)
  <2> HIDE DEF lo, hi
  <2> QED
    BY <1>9, Clamped
<1> HIDE DEF v
<1>11. EditBounds(day, op) = <<lo, hi>>
  BY <1>7 DEF EditBounds, ChannelBounds, Room, me
<1>12. d = MoveBlock(day, op, v)
  BY <1>11 DEF ApplyEdit, v
<1>13. MoveBlock(day, op, v) = [day EXCEPT !["channels"] = N]
  <2> DEFINE R == Others(day, op) \ {adj}
             follow(c) == IF op.drag = "start" THEN [c EXCEPT !.end = v] ELSE [c EXCEPT !.start = v]
  <2>1. MoveBlock(day, op, v) =
           [day EXCEPT !["channels"] = R \cup {follow(adj)} \cup {Dragged(me, op.drag, v)}]
    <3>1. {follow(c) : c \in Adjacent(day, op)} = {follow(adj)}
      BY <1>7
    <3> QED
      BY <1>7, <3>1 DEF MoveBlock, me
  <2>2. R = {y \in S : y.id # before.id /\ y.id # after.id}
    BY <1>3, <1>4, <1>5 DEF Fit, Apart
  <2>3. {follow(adj), Dragged(me, op.drag, v)} = {[before EXCEPT !.end = v], [after EXCEPT !.start = v]}
    BY DEF Dragged
  <2>4. R \cup {follow(adj)} \cup {Dragged(me, op.drag, v)} = R \cup {follow(adj), Dragged(me, op.drag, v)}
    OBVIOUS
  <2> QED
    BY <2>1, <2>2, <2>3, <2>4
<1>14. N \in SUBSET Blocks(t, "channels")
  <2>1. before \in Blocks(t, "channels") /\ after \in Blocks(t, "channels")
    BY <1>2, <1>8
  <2> HIDE DEF before, after
  <2>2. /\ [before EXCEPT !.end = v] \in Blocks(t, "channels")
        /\ [after EXCEPT !.start = v] \in Blocks(t, "channels")
    BY <1>10, <2>1, TeamBlock
  <2> QED
    BY <1>2, <2>2
<1>15. ASSUME me.end - me.start >= ChannelMin, adj.end - adj.start >= ChannelMin
       PROVE  Fit("channels", N, day.start, day.end)
  <2>1. lo <= after.start /\ before.end <= hi
    BY <1>3, <1>5, <1>6, <1>8, <1>15
  <2>2. before.start < v /\ v < after.end
    BY <1>6, <1>8, <1>9, <1>10, <2>1, Lengths
  <2> HIDE DEF before, after
  <2> QED
    BY <1>2, <1>4, <1>8, <1>10, <2>2, SharedEdge
<1> HIDE DEF N
<1>16. OnlyLayer(t, day, "channels", [day EXCEPT !["channels"] = N])
  BY <1>1, <1>14, LayerExchanged
<1>17. Fit("channels", N, day.start, day.end) => ValidDay([day EXCEPT !["channels"] = N])
  BY <1>1, <1>14, LayerExchanged
<1> QED
  BY <1>12, <1>13, <1>15, <1>16, <1>17 DEF me

LEMMA ChannelEdited ==
    ASSUME NEW t, NEW day, Ready(t, day), NEW op \in EditOps, HasBlock(day, op),
           op.layer = "channels", op.drag \in {"start", "end"}, NEW value \in Int
    PROVE  Edited(t, day, ApplyEdit(day, op, value))
<1>1. Block(day, op) \in day.channels /\ Others(day, op) \subseteq day.channels
  BY TheBlock
<1>2. ~HasShort(day) => \A c \in day.channels : c.end - c.start >= ChannelMin
  <2>1. \A c \in day.channels : c.start \in Int /\ c.end \in Int
    <3>1. day.channels \in SUBSET Blocks(t, "channels")
      BY TeamDay DEF Ready, Layers, Inner
    <3> QED
      BY <3>1, TeamBlock
  <2> QED
    BY <2>1, Lengths DEF HasShort
<1>3. /\ OnlyLayer(t, day, "channels", ApplyEdit(day, op, value))
      /\ ~HasShort(day) => ValidDay(ApplyEdit(day, op, value))
  <2>1. CASE Adjacent(day, op) = {}
    BY <1>1, <1>2, <2>1, ChannelAlone DEF Ready
  <2>2. CASE Adjacent(day, op) # {}
    <3>1. PICK adj \in Adjacent(day, op) : TRUE
      BY <2>2
    <3>2. adj \in day.channels
      BY <1>1 DEF Adjacent
    <3> QED
      BY <1>1, <1>2, <3>2, ChannelShared DEF Ready
  <2> QED
    BY <2>1, <2>2
<1> QED
  BY <1>3, OtherLayerEdited

-----------------------------------------------------------------------------
(* The shift is resized *)

(* The layers of a valid day, with their numbers.                          *)
LEMMA DayNumbers ==
    ASSUME NEW t, NEW day, day \in TeamDays(t), ValidDay(day)
    PROVE  /\ day.start \in Int /\ day.end \in Int /\ 0 <= day.start /\ day.end <= DayMinutes
           /\ day.end - day.start >= ShiftMin /\ day.start < day.end
           /\ day.noBreak[1] \in Nat /\ day.noBreak[2] \in Nat /\ NoBreak(day) = day.noBreak
           /\ \A l \in Layers : \A x \in day[l] :
                 x \in Blocks(t, l) /\ x.id \in Nat /\ x.start \in Int /\ x.end \in Int
           /\ \A x \in day.channels \cup day.breaks \cup day.activities \cup day.ot :
                 /\ x.id \in Nat /\ x.start \in Int /\ x.end \in Int
                 /\ 0 <= x.start /\ x.start < x.end /\ x.end <= DayMinutes
           /\ \A x \in day.channels \cup day.breaks \cup day.activities :
                 day.start <= x.start /\ x.end <= day.end
           /\ \A o \in day.ot : o.end <= day.start \/ day.end <= o.start
<1>1. Layers = {"channels", "breaks", "activities", "ot"} /\ "ot" \notin Inner
      /\ Inner = {"channels", "breaks", "activities"}
  BY DEF Layers, Inner
<1>2. /\ day.start \in Int /\ day.end \in Int
      /\ day.noBreak[1] \in Nat /\ day.noBreak[2] \in Nat /\ NoBreak(day) = day.noBreak
      /\ \A l \in Layers : day[l] \in SUBSET Blocks(t, l)
  BY TeamDay
<1>3. \A l \in Layers : \A x \in day[l] :
         x \in Blocks(t, l) /\ x.id \in Nat /\ x.start \in Int /\ x.end \in Int
  BY <1>2, TeamBlock
<1>4. Frame(day.start, day.end) /\ \A l \in Layers : Fit(l, day[l], day.start, day.end)
  BY <1>1, ValidLayers
<1>5. \A l \in Layers : \A x \in day[l] :
         /\ 0 <= x.start /\ x.start < x.end /\ x.end <= DayMinutes
         /\ IF l \in Inner THEN day.start <= x.start /\ x.end <= day.end
                           ELSE x.end <= day.start \/ day.end <= x.start
  BY <1>4 DEF Fit
<1>6. 0 <= day.start /\ day.end <= DayMinutes /\ day.end - day.start >= ShiftMin /\ day.start < day.end
  BY <1>2, <1>4, Lengths DEF Frame
<1> QED
  BY <1>1, <1>2, <1>3, <1>5, <1>6

LEMMA StartLimits ==
    ASSUME NEW t, NEW day, Ready(t, day), NEW limits, limits = ShiftBounds(day, "start")
    PROVE  /\ limits[1] \in Int /\ limits[2] \in Int /\ 0 <= limits[1] /\ limits[1] <= limits[2]
           /\ limits[2] <= day.end - ShiftMin
           /\ \A o \in day.ot : o.end <= limits[1] \/ day.end <= o.start
           /\ \A x \in day.breaks \cup day.activities : limits[2] <= x.start
           /\ \A b \in day.breaks : limits[2] <= day.start \/ limits[2] <= b.start - day.noBreak[1]
<1> DEFINE blocks == day.breaks \cup day.activities
           F == {day.end} \cup {x.start : x \in blocks} \cup {b.start - NoBreak(day)[1] : b \in day.breaks}
           lo == Max({0} \cup EndsUpTo(day.ot, day.start))
           later == Max({day.start, Min(F)})
           hi == Min({later, day.end - ShiftMin})
<1>1. limits[1] = lo /\ limits[2] = hi
  BY DEF ShiftBounds
<1>2. /\ day.start \in Int /\ day.end \in Int /\ 0 <= day.start /\ day.end - day.start >= ShiftMin
      /\ day.start < day.end /\ day.noBreak[1] \in Nat /\ NoBreak(day) = day.noBreak
      /\ \A x \in day.breaks \cup day.activities \cup day.ot : x.start \in Int /\ x.end \in Int
      /\ \A x \in blocks : day.start <= x.start
      /\ \A o \in day.ot : o.end <= day.start \/ day.end <= o.start
  BY DayNumbers DEF Ready
<1>3. ShiftMin \in Nat
  BY Lengths
<1>4. /\ lo \in Int /\ 0 <= lo /\ lo <= day.start
      /\ \A o \in day.ot : o.end <= day.start => o.end <= lo
  <2>1. (\A y \in day.ot : y.start \in Int /\ y.end \in Int) /\ 0 <= day.start
    BY <1>2
  <2> DEFINE midnight == 0
  <2>2. day.start \in Int /\ midnight \in Int /\ midnight = 0 /\ midnight <= day.start
    BY <1>2
  <2>3. lo = Max({midnight} \cup EndsUpTo(day.ot, day.start))
    OBVIOUS
  <2> HIDE DEF lo, midnight
  <2> QED
    BY <2>1, <2>2, <2>3, RoomBefore
<1>5. Min(F) \in Int /\ \A n \in F : Min(F) <= n
  <2>1. F \in SUBSET Int /\ F # {} /\ \A n \in F : day.start - day.noBreak[1] <= n
    BY <1>2
  <2>2. day.start - day.noBreak[1] \in Int
    BY <1>2
  <2> HIDE DEF F
  <2> QED
    BY <2>1, <2>2, LeastTime
<1>6. (\A x \in blocks : Min(F) <= x.start) /\ \A b \in day.breaks : Min(F) <= b.start - day.noBreak[1]
  <2>1. (\A x \in blocks : x.start \in F) /\ \A b \in day.breaks : b.start - day.noBreak[1] \in F
    BY <1>2
  <2> QED
    BY <1>5, <2>1
<1> HIDE DEF lo, F
<1>7. later = IF day.start >= Min(F) THEN day.start ELSE Min(F)
  BY <1>2, <1>5, MaxOfTwo
<1>8. later \in Int /\ day.start <= later
  BY <1>2, <1>5, <1>7
<1> HIDE DEF later
<1>9. hi = IF later <= day.end - ShiftMin THEN later ELSE day.end - ShiftMin
  BY <1>2, <1>3, <1>8, MinOfTwo
<1> HIDE DEF hi
<1>10. hi \in Int /\ hi <= later /\ hi <= day.end - ShiftMin /\ lo <= hi
  BY <1>2, <1>3, <1>4, <1>8, <1>9
<1>11. \A x \in blocks : hi <= x.start
  BY <1>2, <1>5, <1>6, <1>7, <1>10
<1>12. \A b \in day.breaks : hi <= day.start \/ hi <= b.start - day.noBreak[1]
  BY <1>2, <1>5, <1>6, <1>7, <1>10
<1>13. \A o \in day.ot : o.end <= lo \/ day.end <= o.start
  BY <1>2, <1>4
<1> QED
  BY <1>1, <1>4, <1>10, <1>11, <1>12, <1>13

LEMMA EndLimits ==
    ASSUME NEW t, NEW day, Ready(t, day), NEW limits, limits = ShiftBounds(day, "end")
    PROVE  /\ limits[1] \in Int /\ limits[2] \in Int /\ limits[2] <= DayMinutes
           /\ limits[1] <= limits[2] /\ day.start + ShiftMin <= limits[1]
           /\ \A o \in day.ot : o.end <= day.start \/ limits[2] <= o.start
           /\ \A x \in day.breaks \cup day.activities : x.end <= limits[1]
           /\ \A b \in day.breaks : day.end <= limits[1] \/ b.end + day.noBreak[2] <= limits[1]
<1> DEFINE blocks == day.breaks \cup day.activities
           F == {day.start} \cup {x.end : x \in blocks} \cup {b.end + NoBreak(day)[2] : b \in day.breaks}
           hi == Min({DayMinutes} \cup StartsFrom(day.ot, day.end))
           earlier == Min({day.end, Max(F)})
           lo == Max({earlier, day.start + ShiftMin})
<1>1. limits[1] = lo /\ limits[2] = hi
  BY DEF ShiftBounds
<1>2. /\ day.start \in Int /\ day.end \in Int /\ day.end <= DayMinutes /\ day.end - day.start >= ShiftMin
      /\ day.start < day.end /\ day.noBreak[2] \in Nat /\ NoBreak(day) = day.noBreak
      /\ \A x \in day.breaks \cup day.activities \cup day.ot : x.start \in Int /\ x.end \in Int
      /\ \A x \in blocks : x.end <= day.end
      /\ \A o \in day.ot : o.end <= day.start \/ day.end <= o.start
  BY DayNumbers DEF Ready
<1>3. ShiftMin \in Nat /\ DayMinutes \in Nat
  BY Lengths
<1>4. /\ hi \in Int /\ hi <= DayMinutes /\ day.end <= hi
      /\ \A o \in day.ot : day.end <= o.start => hi <= o.start
  <2>1. (\A y \in day.ot : y.start \in Int /\ y.end \in Int) /\ day.end <= DayMinutes
    BY <1>2
  <2>2. day.end \in Int /\ DayMinutes \in Int
    BY <1>2, <1>3
  <2> HIDE DEF hi
  <2> QED
    BY <2>1, <2>2, RoomAfter DEF hi
<1>5. Max(F) \in Int /\ \A n \in F : n <= Max(F)
  <2>1. F \in SUBSET Int /\ F # {} /\ \A n \in F : n <= day.end + day.noBreak[2]
    BY <1>2
  <2>2. day.end + day.noBreak[2] \in Int
    BY <1>2
  <2> HIDE DEF F
  <2> QED
    BY <2>1, <2>2, GreatestTime
<1>6. (\A x \in blocks : x.end <= Max(F)) /\ \A b \in day.breaks : b.end + day.noBreak[2] <= Max(F)
  <2>1. (\A x \in blocks : x.end \in F) /\ \A b \in day.breaks : b.end + day.noBreak[2] \in F
    BY <1>2
  <2> QED
    BY <1>5, <2>1
<1> HIDE DEF hi, F
<1>7. earlier = IF day.end <= Max(F) THEN day.end ELSE Max(F)
  BY <1>2, <1>5, MinOfTwo
<1>8. earlier \in Int /\ earlier <= day.end
  BY <1>2, <1>5, <1>7
<1> HIDE DEF earlier
<1>9. lo = IF earlier >= day.start + ShiftMin THEN earlier ELSE day.start + ShiftMin
  BY <1>2, <1>3, <1>8, MaxOfTwo
<1> HIDE DEF lo
<1>10. lo \in Int /\ earlier <= lo /\ day.start + ShiftMin <= lo /\ lo <= hi
  BY <1>2, <1>3, <1>4, <1>8, <1>9
<1>11. \A x \in blocks : x.end <= lo
  BY <1>2, <1>5, <1>6, <1>7, <1>8, <1>10
<1>12. \A b \in day.breaks : day.end <= lo \/ b.end + day.noBreak[2] <= lo
  BY <1>2, <1>5, <1>6, <1>7, <1>8, <1>10
<1>13. \A o \in day.ot : o.end <= day.start \/ hi <= o.start
  BY <1>2, <1>4
<1> QED
  BY <1>1, <1>4, <1>10, <1>11, <1>12, <1>13

(* The channels under a shift with another start or end.                   *)
LEMMA StartCut ==
    ASSUME NEW t, NEW c, c \in Blocks(t, "channels"), NEW s, NEW e, NEW v, s \in Int, e \in Int, v \in Int,
           c.end <= e
    PROVE  LET d == Cut(c, "start", s, [start |-> v, end |-> e])
           IN  /\ d \in Blocks(t, "channels") /\ d.id = c.id /\ d.end = c.end
               /\ d.start = IF c.start = s THEN v ELSE IF c.start >= v THEN c.start ELSE v
<1> DEFINE d == Cut(c, "start", s, [start |-> v, end |-> e])
           from == IF c.start = s THEN v ELSE IF c.start >= v THEN c.start ELSE v
<1>1. c.start \in Int /\ c.end \in Int
  BY TeamBlock
<1>2. Max({c.start, v}) = (IF c.start >= v THEN c.start ELSE v) /\ Min({c.end, e}) = c.end
  BY <1>1, MinOfTwo, MaxOfTwo
<1>3. d = [c EXCEPT !.start = from, !.end = c.end]
  BY <1>2 DEF Cut
<1>4. from \in Int
  BY <1>1
<1> HIDE DEF d, from
<1>5. d \in Blocks(t, "channels") /\ d.id = c.id /\ d.end = c.end /\ d.start = from
  BY <1>1, <1>3, <1>4 DEF Blocks
<1> QED
  BY <1>5 DEF d, from

LEMMA EndCut ==
    ASSUME NEW t, NEW c, c \in Blocks(t, "channels"), NEW s, NEW e, NEW v, s \in Int, e \in Int, v \in Int,
           s <= c.start
    PROVE  LET d == Cut(c, "end", e, [start |-> s, end |-> v])
           IN  /\ d \in Blocks(t, "channels") /\ d.id = c.id /\ d.start = c.start
               /\ d.end = IF c.end = e THEN v ELSE IF c.end <= v THEN c.end ELSE v
<1> DEFINE d == Cut(c, "end", e, [start |-> s, end |-> v])
           to == IF c.end = e THEN v ELSE IF c.end <= v THEN c.end ELSE v
<1>1. c.start \in Int /\ c.end \in Int
  BY TeamBlock
<1>2. Min({c.end, v}) = (IF c.end <= v THEN c.end ELSE v) /\ Max({c.start, s}) = c.start
  BY <1>1, MinOfTwo, MaxOfTwo
<1>3. d = [c EXCEPT !.start = c.start, !.end = to]
  BY <1>2 DEF Cut
<1>4. to \in Int
  BY <1>1
<1> HIDE DEF d, to
<1>5. d \in Blocks(t, "channels") /\ d.id = c.id /\ d.start = c.start /\ d.end = to
  BY <1>1, <1>3, <1>4 DEF Blocks
<1> QED
  BY <1>5 DEF d, to

LayerOf(t, l, S) == S \in SUBSET Blocks(t, l)

CutChannels(S, edge, old, s, e) ==
    {d \in {Cut(c, edge, old, [start |-> s, end |-> e]) : c \in S} : d.end > d.start}

LEMMA StartCutFits ==
    ASSUME NEW t, NEW S, LayerOf(t, "channels", S), NEW s, NEW e, NEW v,
           s \in Int, e \in Int, v \in Int, Fit("channels", S, s, e), 0 <= v
    PROVE  LET N == CutChannels(S, "start", s, v, e)
           IN  LayerOf(t, "channels", N) /\ Fit("channels", N, v, e)
<1> DEFINE cut(c) == Cut(c, "start", s, [start |-> v, end |-> e])
           N == {d \in {cut(c) : c \in S} : d.end > d.start}
<1>1. "channels" \in Inner
  BY DEF Inner
<1>2. \A c \in S : /\ c.id \in Nat /\ c.start \in Int /\ c.end \in Int /\ s <= c.start /\ c.end <= e
                   /\ c.start < c.end /\ c.end <= DayMinutes
  BY <1>1, TeamBlock DEF Fit, LayerOf
<1>3. \A c \in S : /\ cut(c) \in Blocks(t, "channels") /\ cut(c).id = c.id /\ cut(c).end = c.end
                   /\ cut(c).start = IF c.start = s THEN v ELSE IF c.start >= v THEN c.start ELSE v
  BY <1>2, StartCut DEF LayerOf
<1> HIDE DEF cut
<1>4. \A d \in N : \E c \in S : d = cut(c) /\ d.start < d.end
  <2> TAKE d \in N
  <2>1. PICK c \in S : d = cut(c)
    OBVIOUS
  <2>2. d.start \in Int /\ d.end \in Int
    BY <1>3, <2>1, TeamBlock
  <2> QED
    BY <2>1, <2>2
<1> HIDE DEF N
<1>5. N \in SUBSET Blocks(t, "channels")
  BY <1>3, <1>4
<1>6. \A d \in N : d.start < d.end /\ 0 <= d.start /\ d.end <= DayMinutes /\ v <= d.start /\ d.end <= e
  <2> TAKE d \in N
  <2>1. PICK c \in S : d = cut(c) /\ d.start < d.end
    BY <1>4
  <2> QED
    BY <1>2, <1>3, <2>1
<1>7. Apart(N)
  <2> SUFFICES ASSUME NEW d1 \in N, NEW d2 \in N, d1 # d2
               PROVE  d1.id # d2.id /\ (d1.end <= d2.start \/ d2.end <= d1.start)
    BY DEF Apart
  <2>1. PICK c1 \in S : d1 = cut(c1) /\ d1.start < d1.end
    BY <1>4
  <2>2. PICK c2 \in S : d2 = cut(c2) /\ d2.start < d2.end
    BY <1>4
  <2>3. c1.id # c2.id /\ (c1.end <= c2.start \/ c2.end <= c1.start)
    BY <2>1, <2>2 DEF Fit, Apart
  <2>4. d1.id # d2.id
    BY <1>3, <2>1, <2>2, <2>3
  <2>5. /\ c1.start \in Int /\ c1.end \in Int /\ s <= c1.start /\ c1.end <= e /\ c1.start < c1.end
        /\ c2.start \in Int /\ c2.end \in Int /\ s <= c2.start /\ c2.end <= e /\ c2.start < c2.end
    BY <1>2
  <2>6. /\ d1.end = c1.end /\ d1.start = IF c1.start = s THEN v ELSE IF c1.start >= v THEN c1.start ELSE v
        /\ d2.end = c2.end /\ d2.start = IF c2.start = s THEN v ELSE IF c2.start >= v THEN c2.start ELSE v
    BY <1>3, <2>1, <2>2
  <2> QED
    BY <2>3, <2>4, <2>5, <2>6
<1>8. Fit("channels", N, v, e)
  BY <1>1, <1>6, <1>7 DEF Fit
<1> QED
  BY <1>5, <1>8 DEF N, cut, CutChannels, LayerOf

LEMMA EndCutFits ==
    ASSUME NEW t, NEW S, LayerOf(t, "channels", S), NEW s, NEW e, NEW v,
           s \in Int, e \in Int, v \in Int, Fit("channels", S, s, e), v <= DayMinutes
    PROVE  LET N == CutChannels(S, "end", e, s, v)
           IN  LayerOf(t, "channels", N) /\ Fit("channels", N, s, v)
<1> DEFINE cut(c) == Cut(c, "end", e, [start |-> s, end |-> v])
           N == {d \in {cut(c) : c \in S} : d.end > d.start}
<1>1. "channels" \in Inner
  BY DEF Inner
<1>2. \A c \in S : /\ c.id \in Nat /\ c.start \in Int /\ c.end \in Int /\ s <= c.start /\ c.end <= e
                   /\ c.start < c.end /\ 0 <= c.start
  BY <1>1, TeamBlock DEF Fit, LayerOf
<1>3. \A c \in S : /\ cut(c) \in Blocks(t, "channels") /\ cut(c).id = c.id /\ cut(c).start = c.start
                   /\ cut(c).end = IF c.end = e THEN v ELSE IF c.end <= v THEN c.end ELSE v
  BY <1>2, EndCut DEF LayerOf
<1> HIDE DEF cut
<1>4. \A d \in N : \E c \in S : d = cut(c) /\ d.start < d.end
  <2> TAKE d \in N
  <2>1. PICK c \in S : d = cut(c)
    OBVIOUS
  <2>2. d.start \in Int /\ d.end \in Int
    BY <1>3, <2>1, TeamBlock
  <2> QED
    BY <2>1, <2>2
<1> HIDE DEF N
<1>5. N \in SUBSET Blocks(t, "channels")
  BY <1>3, <1>4
<1>6. \A d \in N : d.start < d.end /\ 0 <= d.start /\ d.end <= DayMinutes /\ s <= d.start /\ d.end <= v
  <2> TAKE d \in N
  <2>1. PICK c \in S : d = cut(c) /\ d.start < d.end
    BY <1>4
  <2>2. DayMinutes \in Int
    BY Lengths
  <2> QED
    BY <1>2, <1>3, <2>1, <2>2
<1>7. Apart(N)
  <2> SUFFICES ASSUME NEW d1 \in N, NEW d2 \in N, d1 # d2
               PROVE  d1.id # d2.id /\ (d1.end <= d2.start \/ d2.end <= d1.start)
    BY DEF Apart
  <2>1. PICK c1 \in S : d1 = cut(c1) /\ d1.start < d1.end
    BY <1>4
  <2>2. PICK c2 \in S : d2 = cut(c2) /\ d2.start < d2.end
    BY <1>4
  <2>3. c1.id # c2.id /\ (c1.end <= c2.start \/ c2.end <= c1.start)
    BY <2>1, <2>2 DEF Fit, Apart
  <2>4. d1.id # d2.id
    BY <1>3, <2>1, <2>2, <2>3
  <2>5. /\ c1.start \in Int /\ c1.end \in Int /\ s <= c1.start /\ c1.end <= e /\ c1.start < c1.end
        /\ c2.start \in Int /\ c2.end \in Int /\ s <= c2.start /\ c2.end <= e /\ c2.start < c2.end
    BY <1>2
  <2>6. /\ d1.start = c1.start /\ d1.end = IF c1.end = e THEN v ELSE IF c1.end <= v THEN c1.end ELSE v
        /\ d2.start = c2.start /\ d2.end = IF c2.end = e THEN v ELSE IF c2.end <= v THEN c2.end ELSE v
    BY <1>3, <2>1, <2>2
  <2> QED
    BY <2>3, <2>4, <2>5, <2>6
<1>8. Fit("channels", N, s, v)
  BY <1>1, <1>6, <1>7 DEF Fit
<1> QED
  BY <1>5, <1>8 DEF N, cut, CutChannels, LayerOf

(* A valid day with another shift, and its channels with it.               *)
Around(day, s, e) ==
    /\ \A x \in day.breaks \cup day.activities : s <= x.start /\ x.end <= e
    /\ \A o \in day.ot : o.end <= s \/ e <= o.start

Reshifted(day, s, e, N) == [day EXCEPT !.start = s, !.end = e, !.channels = N]

LEMMA OtherShift ==
    ASSUME NEW t, NEW day, Ready(t, day), NEW s, NEW e, s \in Int, e \in Int, Frame(s, e),
           NEW N, LayerOf(t, "channels", N), Fit("channels", N, s, e), Around(day, s, e)
    PROVE  LET d == Reshifted(day, s, e, N)
           IN
           /\ d \in TeamDays(t) /\ d.noBreak = day.noBreak /\ ValidDay(d) /\ LongBreaks(d)
           /\ d.start = s /\ d.end = e /\ d.breaks = day.breaks
<1> DEFINE d == Reshifted(day, s, e, N)
<1>1. /\ d \in TeamDays(t) /\ d.noBreak = day.noBreak
      /\ d.start = s /\ d.end = e /\ d.channels = N /\ d.breaks = day.breaks
      /\ d.activities = day.activities /\ d.ot = day.ot
  BY DEF Ready, TeamDays, LayerOf, Reshifted
<1>2. /\ Fit("breaks", day.breaks, day.start, day.end)
      /\ Fit("activities", day.activities, day.start, day.end)
      /\ Fit("ot", day.ot, day.start, day.end)
  BY ValidLayers DEF Ready
<1>3. Fit("breaks", day.breaks, s, e) /\ Fit("activities", day.activities, s, e) /\ Fit("ot", day.ot, s, e)
  BY <1>2 DEF Fit, Inner, Around
<1>4. ValidDay(d)
  BY <1>1, <1>3, ValidLayers
<1>5. LongBreaks(d)
  BY <1>1 DEF Ready, LongBreaks
<1> QED
  BY <1>1, <1>4, <1>5

LEMMA StartEdited ==
    ASSUME NEW t, NEW day, Ready(t, day), NEW value \in Int, NEW op, op.layer = "shift", op.drag = "start"
    PROVE  Edited(t, day, ApplyEdit(day, op, value))
<1> DEFINE limits == ShiftBounds(day, "start")
           v == Clamp(value, limits[1], limits[2])
           N == CutChannels(day.channels, "start", day.start, v, day.end)
           d == ApplyEdit(day, op, value)
<1>1. /\ day.start \in Int /\ day.end \in Int /\ 0 <= day.start /\ day.end <= DayMinutes
      /\ day.noBreak[1] \in Nat /\ day.noBreak[2] \in Nat /\ ShiftMin \in Nat
      /\ \A x \in day.breaks \cup day.activities \cup day.ot : x.start \in Int /\ x.end \in Int
      /\ \A x \in day.breaks \cup day.activities : day.start <= x.start /\ x.end <= day.end
  BY DayNumbers, Lengths DEF Ready
<1>2. /\ limits[1] \in Int /\ limits[2] \in Int /\ 0 <= limits[1] /\ limits[1] <= limits[2]
      /\ limits[2] <= day.end - ShiftMin
      /\ \A o \in day.ot : o.end <= limits[1] \/ day.end <= o.start
      /\ \A x \in day.breaks \cup day.activities : limits[2] <= x.start
      /\ \A b \in day.breaks : limits[2] <= day.start \/ limits[2] <= b.start - day.noBreak[1]
  BY StartLimits
<1>3. d = Reshifted(day, v, day.end, N)
  BY DEF Reshifted, ApplyEdit, EditBounds, ResizeShift, CutChannels
<1> HIDE DEF limits
<1>4. v \in Int /\ limits[1] <= v /\ v <= limits[2]
  BY <1>2, Clamped
<1> HIDE DEF v
<1>5. 0 <= v /\ day.end - v >= ShiftMin /\ Frame(v, day.end)
  BY <1>1, <1>2, <1>4 DEF Frame
<1>6. LayerOf(t, "channels", N) /\ Fit("channels", N, v, day.end)
  <2>1. LayerOf(t, "channels", day.channels) /\ Fit("channels", day.channels, day.start, day.end)
    BY TeamDay, ValidLayers DEF Ready, Layers, Inner, LayerOf
  <2> QED
    BY <1>1, <1>4, <1>5, <2>1, StartCutFits
<1> HIDE DEF N
<1>7. \A x \in day.breaks \cup day.activities : v <= x.start /\ x.end <= day.end
  BY <1>1, <1>2, <1>4
<1>8. \A o \in day.ot : o.end <= v \/ day.end <= o.start
  BY <1>1, <1>2, <1>4
<1> HIDE DEF d
<1>9. Around(day, v, day.end)
  BY <1>7, <1>8 DEF Around
<1>10. /\ d \in TeamDays(t) /\ d.noBreak = day.noBreak /\ ValidDay(d) /\ LongBreaks(d)
      /\ d.start = v /\ d.end = day.end /\ d.breaks = day.breaks
  BY <1>1, <1>3, <1>4, <1>5, <1>6, <1>9, OtherShift
<1>11. Outward(day, d)
  <2>1. ASSUME NEW b \in day.breaks, b.start - v < day.noBreak[1]
        PROVE  b.start - day.start <= b.start - v
    BY <1>1, <1>2, <1>4, <2>1
  <2>2. \A b \in day.breaks : day.end - b.end <= day.end - b.end
    BY <1>1
  <2> QED
    BY <1>10, <2>1, <2>2 DEF Outward
<1> QED
  BY <1>10, <1>11 DEF Edited, d

LEMMA EndEdited ==
    ASSUME NEW t, NEW day, Ready(t, day), NEW value \in Int, NEW op, op.layer = "shift", op.drag = "end"
    PROVE  Edited(t, day, ApplyEdit(day, op, value))
<1> DEFINE limits == ShiftBounds(day, "end")
           v == Clamp(value, limits[1], limits[2])
           N == CutChannels(day.channels, "end", day.end, day.start, v)
           d == ApplyEdit(day, op, value)
<1>1. /\ day.start \in Int /\ day.end \in Int /\ 0 <= day.start /\ day.end <= DayMinutes
      /\ day.noBreak[1] \in Nat /\ day.noBreak[2] \in Nat /\ ShiftMin \in Nat /\ DayMinutes \in Nat
      /\ \A x \in day.breaks \cup day.activities \cup day.ot : x.start \in Int /\ x.end \in Int
      /\ \A x \in day.breaks \cup day.activities : day.start <= x.start /\ x.end <= day.end
  BY DayNumbers, Lengths DEF Ready
<1>2. /\ limits[1] \in Int /\ limits[2] \in Int /\ limits[2] <= DayMinutes
      /\ limits[1] <= limits[2] /\ day.start + ShiftMin <= limits[1]
      /\ \A o \in day.ot : o.end <= day.start \/ limits[2] <= o.start
      /\ \A x \in day.breaks \cup day.activities : x.end <= limits[1]
      /\ \A b \in day.breaks : day.end <= limits[1] \/ b.end + day.noBreak[2] <= limits[1]
  BY EndLimits
<1>3. d = Reshifted(day, day.start, v, N)
  BY DEF Reshifted, ApplyEdit, EditBounds, ResizeShift, CutChannels
<1> HIDE DEF limits
<1>4. v \in Int /\ limits[1] <= v /\ v <= limits[2]
  BY <1>2, Clamped
<1> HIDE DEF v
<1>5. v <= DayMinutes /\ v - day.start >= ShiftMin /\ Frame(day.start, v)
  BY <1>1, <1>2, <1>4 DEF Frame
<1>6. LayerOf(t, "channels", N) /\ Fit("channels", N, day.start, v)
  <2>1. LayerOf(t, "channels", day.channels) /\ Fit("channels", day.channels, day.start, day.end)
    BY TeamDay, ValidLayers DEF Ready, Layers, Inner, LayerOf
  <2> QED
    BY <1>1, <1>4, <1>5, <2>1, EndCutFits
<1> HIDE DEF N
<1>7. \A x \in day.breaks \cup day.activities : day.start <= x.start /\ x.end <= v
  BY <1>1, <1>2, <1>4
<1>8. \A o \in day.ot : o.end <= day.start \/ v <= o.start
  BY <1>1, <1>2, <1>4
<1> HIDE DEF d
<1>9. Around(day, day.start, v)
  BY <1>7, <1>8 DEF Around
<1>10. /\ d \in TeamDays(t) /\ d.noBreak = day.noBreak /\ ValidDay(d) /\ LongBreaks(d)
      /\ d.start = day.start /\ d.end = v /\ d.breaks = day.breaks
  BY <1>1, <1>3, <1>4, <1>5, <1>6, <1>9, OtherShift
<1>11. Outward(day, d)
  <2>1. ASSUME NEW b \in day.breaks, v - b.end < day.noBreak[2]
        PROVE  day.end - b.end <= v - b.end
    BY <1>1, <1>2, <1>4, <2>1
  <2>2. \A b \in day.breaks : b.start - day.start <= b.start - day.start
    BY <1>1
  <2> QED
    BY <1>10, <2>1, <2>2 DEF Outward
<1> QED
  BY <1>10, <1>11 DEF Edited, d

-----------------------------------------------------------------------------
(* Any edit of the timeline, and the moves of whole days                   *)

LEMMA OpKinds ==
    ASSUME NEW op \in Ops, team \in Teams
    PROVE  \/ op.layer = "shift" /\ op.drag \in {"start", "end"}
           \/ /\ op \in EditOps
              /\ op.layer \in {"channels", "ot"} => op.drag \in {"start", "end"}
<1>1. \A l \in Layers : Ids[l] \in SUBSET Nat
  BY TeamsAssumption DEF Ids
<1>2. Layers = {"channels", "breaks", "activities", "ot"}
  BY DEF Layers, Inner
<1>3. CASE op \in [layer : {"shift"}, id : {0}, drag : {"start", "end"}]
  BY <1>3
<1>4. CASE op \in UNION {[layer : {l}, id : Ids[l], drag : {"start", "end"}] : l \in Layers}
  <2>1. PICK l \in Layers : op \in [layer : {l}, id : Ids[l], drag : {"start", "end"}]
    BY <1>4
  <2> QED
    BY <1>1, <2>1 DEF EditOps
<1>5. CASE op \in UNION {[layer : {l}, id : Ids[l], drag : {"move"}] : l \in {"breaks", "activities"}}
  <2>1. PICK l \in {"breaks", "activities"} : op \in [layer : {l}, id : Ids[l], drag : {"move"}]
    BY <1>5
  <2> QED
    BY <1>1, <1>2, <2>1 DEF EditOps
<1> QED
  BY <1>3, <1>4, <1>5 DEF Ops

AnOp(op) ==
    \/ op.layer = "shift" /\ op.drag \in {"start", "end"}
    \/ /\ op \in EditOps
       /\ op.layer \in {"channels", "ot"} => op.drag \in {"start", "end"}

LEMMA EditApplied ==
    ASSUME NEW t, NEW day, Ready(t, day), NEW op, AnOp(op), HasBlock(day, op), NEW value, value \in Int
    PROVE  Edited(t, day, ApplyEdit(day, op, value))
<1>1. CASE op.layer = "shift" /\ op.drag \in {"start", "end"}
  BY <1>1, StartEdited, EndEdited
<1>2. CASE op \in EditOps /\ (op.layer \in {"channels", "ot"} => op.drag \in {"start", "end"})
  <2>1. op.layer \in {"channels", "breaks", "activities", "ot"}
    BY <1>2 DEF EditOps, Layers, Inner
  <2>2. CASE op.layer = "channels"
    BY <1>2, <2>2, ChannelEdited
  <2>3. CASE op.layer = "breaks"
    BY <1>2, <2>3, BreakEdited
  <2>4. CASE op.layer = "activities"
    BY <1>2, <2>4, ActivityEdited
  <2>5. CASE op.layer = "ot"
    BY <1>2, <2>5, OtEdited
  <2> QED
    BY <2>1, <2>2, <2>3, <2>4, <2>5
<1> QED
  BY <1>1, <1>2 DEF AnOp

(* The edge that is dragged has a place, and the edit has the block.       *)
LEMMA EditedValue ==
    ASSUME NEW t, NEW day, Ready(t, day), NEW op, AnOp(op), HasBlock(day, op)
    PROVE  EditValue(day, op) \in Int
<1>1. CASE op.layer = "shift" /\ op.drag \in {"start", "end"}
  BY <1>1, DayNumbers DEF EditValue, Ready
<1>2. CASE op \in EditOps
  <2>1. op.layer # "shift"
    BY <1>2 DEF EditOps, Layers, Inner
  <2> QED
    BY <1>2, <2>1, BlockInDay DEF EditValue, Ready
<1> QED
  BY <1>1, <1>2 DEF AnOp

LEMMA SameEdit ==
    ASSUME NEW t, NEW day, Ready(t, day), NEW op, AnOp(op), NEW source, NEW o \in EquivalentOps(source, op, day)
    PROVE  AnOp(o) /\ HasBlock(day, o)
<1>1. CASE op.layer = "shift"
  BY <1>1 DEF EquivalentOps, HasBlock
<1>2. CASE op.layer = "breaks"
  BY <1>2 DEF EquivalentOps
<1>3. CASE op.layer = "activities"
  <2>1. PICK x \in day.activities : o = [op EXCEPT !.id = x.id]
    BY <1>3 DEF EquivalentOps
  <2>2. op \in EditOps /\ x.id \in Nat
    BY <1>3, DayNumbers DEF AnOp, Ready
  <2>3. o \in EditOps /\ o.layer = "activities" /\ o.id = x.id
    BY <1>3, <2>1, <2>2 DEF EditOps
  <2> QED
    BY <2>3 DEF AnOp, HasBlock
<1>4. CASE op.layer \notin {"shift", "breaks", "activities"}
  BY <1>4 DEF EquivalentOps
<1> QED
  BY <1>1, <1>2, <1>3, <1>4

LEMMA MovedFar ==
    ASSUME NEW t, NEW day, Ready(t, day), NEW delta, delta \in Int
    PROVE  LET m == MoveDelta(day, delta)
           IN  /\ m \in Int /\ 0 <= day.start + m /\ day.end + m <= DayMinutes
               /\ \A o \in day.ot : 0 <= o.start + m /\ o.end + m <= DayMinutes
<1> DEFINE F == {day.start} \cup {o.start : o \in day.ot}
           L == {day.end} \cup {o.end : o \in day.ot}
           m == MoveDelta(day, delta)
<1>1. /\ day.start \in Int /\ day.end \in Int /\ 0 <= day.start /\ day.end <= DayMinutes
      /\ \A o \in day.ot : o.start \in Int /\ o.end \in Int /\ 0 <= o.start /\ o.end <= DayMinutes
      /\ DayMinutes \in Int
  BY DayNumbers, Lengths DEF Ready
<1>2. Min(F) \in F /\ \A n \in F : Min(F) <= n
  <2> DEFINE midnight == 0
  <2>1. F \in SUBSET Int /\ F # {} /\ midnight \in Int /\ \A n \in F : midnight <= n
    BY <1>1
  <2> HIDE DEF F, midnight
  <2> QED
    BY <2>1, LeastTime
<1>3. Max(L) \in L /\ \A n \in L : n <= Max(L)
  <2>1. L \in SUBSET Int /\ L # {} /\ \A n \in L : n <= DayMinutes
    BY <1>1
  <2> HIDE DEF L
  <2> QED
    BY <1>1, <2>1, GreatestTime
<1>4. Min(F) \in Int /\ 0 <= Min(F) /\ Max(L) \in Int /\ Max(L) <= DayMinutes
  BY <1>1, <1>2, <1>3
<1>5. m = Clamp(delta, -Min(F), DayMinutes - Max(L))
  BY DEF MoveDelta
<1>6. m \in Int /\ -Min(F) <= m /\ m <= DayMinutes - Max(L)
  <2>1. -Min(F) \in Int /\ DayMinutes - Max(L) \in Int /\ -Min(F) <= DayMinutes - Max(L)
    BY <1>1, <1>4
  <2> QED
    BY <1>5, <2>1, Clamped
<1>7. /\ Min(F) <= day.start /\ day.end <= Max(L)
      /\ \A o \in day.ot : Min(F) <= o.start /\ o.end <= Max(L)
  BY <1>2, <1>3
<1> HIDE DEF m, F, L
<1>8. m \in Int /\ 0 <= day.start + m /\ day.end + m <= DayMinutes
  BY <1>1, <1>4, <1>6, <1>7
<1>9. \A o \in day.ot : 0 <= o.start + m /\ o.end + m <= DayMinutes
  BY <1>1, <1>4, <1>6, <1>7
<1> QED
  BY <1>8, <1>9 DEF m

LEMMA ShiftedBlocks ==
    ASSUME NEW t, NEW l, NEW S, LayerOf(t, l, S), NEW m, m \in Int
    PROVE  /\ LayerOf(t, l, Shifted(S, m))
           /\ \A y \in Shifted(S, m) :
                 \E x \in S : y.id = x.id /\ y.start = x.start + m /\ y.end = x.end + m
<1> DEFINE by(x) == [x EXCEPT !.start = @ + m, !.end = @ + m]
<1>1. Shifted(S, m) = {by(x) : x \in S}
  BY DEF Shifted
<1>2. ASSUME NEW x \in S
      PROVE  by(x) \in Blocks(t, l) /\ by(x).id = x.id /\ by(x).start = x.start + m /\ by(x).end = x.end + m
  <2> DEFINE v == x.start + m
             w == x.end + m
  <2>0. x \in Blocks(t, l)
    BY DEF LayerOf
  <2>1. v \in Int /\ w \in Int /\ by(x) = [x EXCEPT !.start = v, !.end = w] /\ x \in Blocks(t, l)
    <3>1. x.start \in Int /\ x.end \in Int
      BY <2>0, TeamBlock
    <3>2. by(x) = [x EXCEPT !.start = x.start + m, !.end = x.end + m]
      OBVIOUS
    <3> QED
      BY <2>0, <3>1, <3>2
  <2> HIDE DEF v, w, by
  <2>2. by(x) \in Blocks(t, l) /\ by(x).id = x.id /\ by(x).start = v /\ by(x).end = w
    BY <2>1 DEF Blocks
  <2> QED
    BY <2>2 DEF v, w
<1> HIDE DEF by
<1> QED
  BY <1>1, <1>2 DEF LayerOf

LEMMA ShiftedFits ==
    ASSUME NEW t, NEW l \in Layers, NEW S, LayerOf(t, l, S), NEW m, m \in Int,
           NEW s, NEW e, s \in Int, e \in Int, Fit(l, S, s, e),
           \A x \in S : 0 <= x.start + m /\ x.end + m <= DayMinutes
    PROVE  Fit(l, Shifted(S, m), s + m, e + m)
<1>1. \A x \in S : x.id \in Nat /\ x.start \in Int /\ x.end \in Int
  BY TeamBlock DEF LayerOf
<1>2. \A y \in Shifted(S, m) :
         \E x \in S : y.id = x.id /\ y.start = x.start + m /\ y.end = x.end + m
  BY ShiftedBlocks
<1>3. Apart(Shifted(S, m))
  <2> SUFFICES ASSUME NEW y1 \in Shifted(S, m), NEW y2 \in Shifted(S, m), y1 # y2
               PROVE  y1.id # y2.id /\ (y1.end <= y2.start \/ y2.end <= y1.start)
    BY DEF Apart
  <2>1. PICK x1 \in S : y1 = [x1 EXCEPT !.start = @ + m, !.end = @ + m]
    BY DEF Shifted
  <2>2. PICK x2 \in S : y2 = [x2 EXCEPT !.start = @ + m, !.end = @ + m]
    BY DEF Shifted
  <2>3. x1.id # x2.id /\ (x1.end <= x2.start \/ x2.end <= x1.start)
    BY <2>1, <2>2 DEF Fit, Apart
  <2>4. /\ y1.id = x1.id /\ y1.start = x1.start + m /\ y1.end = x1.end + m
        /\ y2.id = x2.id /\ y2.start = x2.start + m /\ y2.end = x2.end + m
    <3>1. x1 \in Blocks(t, l) /\ x2 \in Blocks(t, l)
      BY DEF LayerOf
    <3> QED
      BY <2>1, <2>2, <3>1 DEF Blocks
  <2> QED
    BY <1>1, <2>3, <2>4
<1>4. ASSUME NEW y \in Shifted(S, m)
      PROVE  /\ y.start < y.end /\ 0 <= y.start /\ y.end <= DayMinutes
             /\ IF l \in Inner THEN s + m <= y.start /\ y.end <= e + m
                               ELSE y.end <= s + m \/ e + m <= y.start
  <2>1. PICK x \in S : y.id = x.id /\ y.start = x.start + m /\ y.end = x.end + m
    BY <1>2
  <2>2. /\ x.start < x.end /\ 0 <= x.start + m /\ x.end + m <= DayMinutes
        /\ IF l \in Inner THEN s <= x.start /\ x.end <= e ELSE x.end <= s \/ e <= x.start
    BY DEF Fit
  <2> QED
    BY <1>1, <2>1, <2>2
<1> QED
  BY <1>3, <1>4 DEF Fit

LEMMA DayMoved ==
    ASSUME NEW t, NEW day, Ready(t, day), NEW delta, delta \in Int
    PROVE  Edited(t, day, MoveDay(day, delta))
<1> DEFINE m == MoveDelta(day, delta)
           d == MoveDay(day, delta)
<1>1. /\ m \in Int /\ 0 <= day.start + m /\ day.end + m <= DayMinutes
      /\ \A o \in day.ot : 0 <= o.start + m /\ o.end + m <= DayMinutes
  BY MovedFar
<1>2. /\ day.start \in Int /\ day.end \in Int /\ day.end - day.start >= ShiftMin
      /\ \A x \in day.channels \cup day.breaks \cup day.activities :
            x.start \in Int /\ x.end \in Int /\ day.start <= x.start /\ x.end <= day.end
      /\ DayMinutes \in Int /\ ShiftMin \in Int
  BY DayNumbers, Lengths DEF Ready
<1>3. Layers = {"channels", "breaks", "activities", "ot"}
  BY DEF Layers, Inner
<1>4. d = [day EXCEPT !.start = @ + m, !.end = @ + m,
                      !.channels = Shifted(@, m), !.breaks = Shifted(@, m),
                      !.activities = Shifted(@, m), !.ot = Shifted(@, m)]
  BY DEF MoveDay
<1> HIDE DEF m, d
<1>5. \A l \in Layers : \A x \in day[l] : 0 <= x.start + m /\ x.end + m <= DayMinutes
  BY <1>1, <1>2, <1>3
<1>6. \A l \in Layers : LayerOf(t, l, day[l]) /\ Fit(l, day[l], day.start, day.end)
  BY <1>3, TeamDay, ValidLayers DEF Ready, LayerOf
<1>7. \A l \in Layers : /\ LayerOf(t, l, Shifted(day[l], m))
                        /\ Fit(l, Shifted(day[l], m), day.start + m, day.end + m)
  <2> TAKE l \in Layers
  <2>1. LayerOf(t, l, Shifted(day[l], m))
    BY <1>1, <1>6, ShiftedBlocks
  <2>2. Fit(l, Shifted(day[l], m), day.start + m, day.end + m)
    <3>1. \A x \in day[l] : 0 <= x.start + m /\ x.end + m <= DayMinutes
      BY <1>5
    <3> QED
      BY <1>1, <1>2, <1>6, <3>1, ShiftedFits
  <2> QED
    BY <2>1, <2>2
<1>8. /\ d.start = day.start + m /\ d.end = day.end + m /\ d.noBreak = day.noBreak
      /\ d.channels = Shifted(day.channels, m) /\ d.breaks = Shifted(day.breaks, m)
      /\ d.activities = Shifted(day.activities, m) /\ d.ot = Shifted(day.ot, m)
  BY <1>4 DEF Ready, TeamDays
<1>9. d \in TeamDays(t)
  <2>1. /\ Shifted(day.channels, m) \in SUBSET Blocks(t, "channels")
        /\ Shifted(day.breaks, m) \in SUBSET Blocks(t, "breaks")
        /\ Shifted(day.activities, m) \in SUBSET Blocks(t, "activities")
        /\ Shifted(day.ot, m) \in SUBSET Blocks(t, "ot")
    BY <1>3, <1>7 DEF LayerOf
  <2>2. day.start + m \in Int /\ day.end + m \in Int
    BY <1>1, <1>2
  <2> QED
    BY <1>4, <2>1, <2>2 DEF Ready, TeamDays
<1>10. ValidDay(d)
  <2>1. Frame(d.start, d.end)
    BY <1>1, <1>2, <1>8 DEF Frame
  <2>2. /\ Fit("channels", d.channels, d.start, d.end) /\ Fit("breaks", d.breaks, d.start, d.end)
        /\ Fit("activities", d.activities, d.start, d.end) /\ Fit("ot", d.ot, d.start, d.end)
    BY <1>3, <1>7, <1>8
  <2> QED
    BY <2>1, <2>2, ValidLayers
<1>11. \A b \in d.breaks : \E x \in day.breaks : b.id = x.id /\ b.start = x.start + m /\ b.end = x.end + m
  <2>1. LayerOf(t, "breaks", day.breaks)
    BY <1>3, <1>6
  <2> QED
    BY <1>1, <1>8, <2>1, ShiftedBlocks
<1>12. LongBreaks(d) /\ Outward(day, d)
  <2> SUFFICES ASSUME NEW b \in d.breaks
               PROVE  /\ b.end - b.start >= AuxMin
                      /\ \E x \in {x \in day.breaks : x.id = b.id} :
                            x.start - day.start <= b.start - d.start /\ day.end - x.end <= d.end - b.end
    BY DEF LongBreaks, Outward
  <2>1. PICK x \in day.breaks : b.id = x.id /\ b.start = x.start + m /\ b.end = x.end + m
    BY <1>11
  <2>2. x.end - x.start >= AuxMin /\ x.start \in Int /\ x.end \in Int
    BY <1>2 DEF Ready, LongBreaks
  <2>3. b.end - b.start = x.end - x.start
    BY <1>1, <2>1, <2>2
  <2>4. b.start - d.start = x.start - day.start /\ d.end - b.end = day.end - x.end
    BY <1>1, <1>2, <1>8, <2>1, <2>2
  <2>5. x.start - day.start <= b.start - d.start /\ day.end - x.end <= d.end - b.end
    BY <1>2, <2>2, <2>4
  <2> QED
    BY <2>1, <2>2, <2>3, <2>5
<1> QED
  BY <1>8, <1>9, <1>10, <1>12 DEF Edited, d

-----------------------------------------------------------------------------
(* Marks                                                                   *)

LEMMA BlockAdded ==
    ASSUME NEW t, NEW day, Ready(t, day), NEW l \in {"breaks", "activities"},
           NEW x, x \in Blocks(t, l), CanMark(day, l, x.start, x.end), \A y \in day[l] : y.id # x.id
    PROVE  /\ OnlyLayer(t, day, l, Mark(day, l, x)) /\ ValidDay(Mark(day, l, x))
           /\ Mark(day, l, x)[l] = day[l] \cup {x} /\ x.end - x.start >= AuxMin
           /\ l = "breaks" => /\ x.start - day.start >= day.noBreak[1]
                              /\ day.end - x.end >= day.noBreak[2]
<1> DEFINE S == day[l] \cup {x}
<1>1. l \in Layers /\ l \in Inner
  BY DEF Layers, Inner
<1>2. /\ day.start \in Int /\ day.end \in Int /\ 0 <= day.start /\ day.end <= DayMinutes
      /\ day.noBreak[1] \in Nat /\ day.noBreak[2] \in Nat /\ NoBreak(day) = day.noBreak
      /\ AuxMin \in Nat /\ AuxMin > 0 /\ DayMinutes \in Nat
  BY DayNumbers, Lengths DEF Ready
<1>3. x.start \in Int /\ x.end \in Int /\ \A y \in day[l] : y.start \in Int /\ y.end \in Int
  <2>1. \A y \in day[l] : y.start \in Int /\ y.end \in Int
    BY <1>1, DayNumbers DEF Ready
  <2> QED
    BY <2>1, TeamBlock
<1>4. /\ x.end - x.start >= AuxMin /\ day.start <= x.start /\ x.end <= day.end
      /\ l = "breaks" => x.start >= day.start + day.noBreak[1] /\ x.end <= day.end - day.noBreak[2]
      /\ \A y \in day[l] : ~(x.start < y.end /\ x.end > y.start)
  BY <1>2 DEF CanMark, Clashing
<1>5. \A y \in day[l] : y.id # x.id /\ (y.end <= x.start \/ x.end <= y.start)
  BY <1>3, <1>4
<1>6. day[l] \in SUBSET Blocks(t, l) /\ Fit(l, day[l], day.start, day.end)
  <2>1. Layers = {"channels", "breaks", "activities", "ot"}
    BY DEF Layers, Inner
  <2> QED
    BY <1>1, <2>1, TeamDay, ValidLayers DEF Ready
<1>7. Fit(l, S, day.start, day.end)
  <2>1. x.start < x.end /\ 0 <= x.start /\ x.end <= DayMinutes
    BY <1>2, <1>3, <1>4
  <2> QED
    BY <1>1, <1>4, <1>5, <1>6, <2>1, FitOneMore
<1>8. S \in SUBSET Blocks(t, l)
  BY <1>6
<1>9. Mark(day, l, x) = [day EXCEPT ![l] = S]
  BY DEF Mark
<1> HIDE DEF S
<1>10. /\ OnlyLayer(t, day, l, [day EXCEPT ![l] = S]) /\ [day EXCEPT ![l] = S][l] = S
       /\ ValidDay([day EXCEPT ![l] = S])
  BY <1>1, <1>7, <1>8, LayerExchanged DEF Ready
<1>11. l = "breaks" => x.start - day.start >= day.noBreak[1] /\ day.end - x.end >= day.noBreak[2]
  BY <1>2, <1>3, <1>4
<1> QED
  BY <1>4, <1>9, <1>10, <1>11 DEF S

LEMMA Marked ==
    ASSUME NEW t, NEW day, Ready(t, day), NEW l, l \in {"breaks", "activities"},
           NEW x, x \in Blocks(t, l), CanMark(day, l, x.start, x.end), \A y \in day[l] : y.id # x.id
    PROVE  Edited(t, day, Mark(day, l, x)) /\ ValidDay(Mark(day, l, x))
<1> DEFINE d == Mark(day, l, x)
<1>1. /\ OnlyLayer(t, day, l, d) /\ ValidDay(d)
      /\ d[l] = day[l] \cup {x} /\ x.end - x.start >= AuxMin
      /\ l = "breaks" => x.start - day.start >= day.noBreak[1] /\ day.end - x.end >= day.noBreak[2]
  BY BlockAdded
<1> HIDE DEF d
<1>2. CASE l = "activities"
  BY <1>1, <1>2, OtherLayerEdited DEF d
<1>3. CASE l = "breaks"
  <2>1. d.breaks = day.breaks \cup {x} /\ d.start = day.start /\ d.end = day.end /\ d.noBreak = day.noBreak
        /\ d \in TeamDays(t)
    BY <1>1, <1>3 DEF OnlyLayer
  <2>2. LongBreaks(d)
    BY <1>1, <2>1 DEF LongBreaks, Ready
  <2>3. /\ day.start \in Int /\ day.end \in Int /\ day.noBreak[1] \in Nat /\ day.noBreak[2] \in Nat
        /\ \A b \in day.breaks : b.start \in Int /\ b.end \in Int
        /\ x.start \in Int /\ x.end \in Int
    BY DayNumbers, TeamBlock DEF Ready
  <2>4. Outward(day, d)
    <3> SUFFICES ASSUME NEW b \in day.breaks \cup {x}
                 PROVE  LET was == {y \in day.breaks : y.id = b.id}
                        IN  /\ b.start - day.start < day.noBreak[1]
                                => \E y \in was : y.start - day.start <= b.start - day.start
                            /\ day.end - b.end < day.noBreak[2]
                                => \E y \in was : day.end - y.end <= day.end - b.end
      BY <2>1 DEF Outward
    <3>1. CASE b \in day.breaks
      BY <2>3, <3>1
    <3>2. CASE b = x
      BY <1>1, <1>3, <2>3, <3>2
    <3> QED
      BY <3>1, <3>2
  <2> QED
    BY <1>1, <2>1, <2>2, <2>4 DEF Edited, d
<1> QED
  BY <1>1, <1>2, <1>3 DEF d

WithLayer(day, l, S) == [day EXCEPT ![l] = S]

LEMMA LayerPut ==
    ASSUME NEW t, NEW day, Ready(t, day), NEW l, l \in Layers, NEW S, LayerOf(t, l, S)
    PROVE  /\ OnlyLayer(t, day, l, WithLayer(day, l, S)) /\ WithLayer(day, l, S)[l] = S
           /\ Fit(l, S, day.start, day.end) => ValidDay(WithLayer(day, l, S))
BY LayerExchanged DEF WithLayer, Ready, LayerOf

Fewer(day, S) == WithLayer(day, "activities", S)

LEMMA ActivitiesTaken ==
    ASSUME NEW t, NEW day, Ready(t, day), NEW S, S \subseteq day.activities
    PROVE  /\ Edited(t, day, Fewer(day, S)) /\ Ready(t, Fewer(day, S))
           /\ OnlyLayer(t, day, "activities", Fewer(day, S)) /\ Fewer(day, S).activities = S
<1> DEFINE d == Fewer(day, S)
<1>1. "activities" \in Layers
  BY DEF Layers, Inner
<1>2. day.activities \in SUBSET Blocks(t, "activities") /\ Fit("activities", day.activities, day.start, day.end)
  BY <1>1, TeamDay, ValidLayers DEF Ready
<1>3. S \in SUBSET Blocks(t, "activities") /\ Fit("activities", S, day.start, day.end)
  BY <1>2, FitFewer
<1>4. LayerOf(t, "activities", S)
  BY <1>3 DEF LayerOf
<1>5. OnlyLayer(t, day, "activities", d) /\ d["activities"] = S /\ ValidDay(d)
  BY <1>1, <1>3, <1>4, LayerPut DEF Fewer
<1> HIDE DEF d
<1>6. Edited(t, day, d)
  BY <1>5, OtherLayerEdited
<1>7. d.activities = S
  BY <1>5
<1> QED
  BY <1>5, <1>6, <1>7 DEF Ready, Edited, d

LEMMA ActivityReplaced ==
    ASSUME NEW t, NEW day, Ready(t, day), NEW x, x \in Blocks(t, "activities"),
           NEW rest, rest = [day EXCEPT !.activities = {y \in @ : y.id # x.id}]
    PROVE  /\ Edited(t, day, rest)
           /\ CanMark(rest, "activities", x.start, x.end) => Edited(t, day, Mark(rest, "activities", x))
<1> DEFINE S == {y \in day.activities : y.id # x.id}
<1>1. rest = Fewer(day, S)
  BY DEF Fewer, WithLayer
<1>2. S \in SUBSET day.activities /\ \A y \in S : y.id # x.id
  OBVIOUS
<1> HIDE DEF S
<1>3. /\ Edited(t, day, rest) /\ Ready(t, rest)
      /\ OnlyLayer(t, day, "activities", rest) /\ rest.activities = S
  <2>1. /\ Edited(t, day, Fewer(day, S)) /\ Ready(t, Fewer(day, S))
        /\ OnlyLayer(t, day, "activities", Fewer(day, S)) /\ Fewer(day, S).activities = S
    BY <1>2, ActivitiesTaken
  <2> QED
    BY <1>1, <2>1
<1>4. ASSUME CanMark(rest, "activities", x.start, x.end)
      PROVE  Edited(t, day, Mark(rest, "activities", x))
  <2> DEFINE d == Mark(rest, "activities", x)
  <2>1. Edited(t, rest, d) /\ ValidDay(d)
    BY <1>2, <1>3, <1>4, Marked
  <2>2. /\ rest.start = day.start /\ rest.end = day.end /\ rest.noBreak = day.noBreak
        /\ rest.breaks = day.breaks
    BY <1>3 DEF OnlyLayer, Layers, Inner
  <2> HIDE DEF d
  <2>3. Outward(day, d)
    BY <2>1, <2>2 DEF Outward, Edited
  <2> QED
    BY <2>1, <2>2, <2>3 DEF Edited, d
<1> QED
  BY <1>3, <1>4

LEMMA Unmarked ==
    ASSUME NEW t, NEW day, Ready(t, day), NEW at
    PROVE  Edited(t, day, Unmark(day, at))
<1> DEFINE S == {x \in day.activities : ~(x.start <= at /\ at < x.end)}
<1>1. Unmark(day, at) = Fewer(day, S)
  BY DEF Unmark, Fewer, WithLayer
<1>2. S \in SUBSET day.activities
  OBVIOUS
<1> HIDE DEF S
<1> QED
  BY <1>1, <1>2, ActivitiesTaken

-----------------------------------------------------------------------------
(* The schedule dialog                                                     *)

(* Channels or overtime as they were entered.                              *)
EnteredBlocks(day, l, i, S) ==
    \E X : S = {y \in day[l] : y.id # i} \cup X /\ (X = {} \/ \E x : X = {x} /\ x.id = i)

LEMMA ScheduleSaved ==
    ASSUME NEW t, NEW day, Ready(t, day), NEW l, l \in {"channels", "ot"},
           NEW i, NEW S, LayerOf(t, l, S),
           EnteredBlocks(day, l, i, S),
           NEW d, d = WithLayer(day, l, S), ValidPlan(d, d.channels, d.ot)
    PROVE  Edited(t, day, d)
<1>1. l \in Layers /\ Layers = {"channels", "breaks", "activities", "ot"}
      /\ "ot" \notin Inner /\ "channels" \in Inner
  BY DEF Layers, Inner
<1>2. OnlyLayer(t, day, l, d) /\ d[l] = S
  <2>1. OnlyLayer(t, day, l, WithLayer(day, l, S)) /\ WithLayer(day, l, S)[l] = S
    BY <1>1, LayerPut
  <2> QED
    BY <2>1
<1>3. \A y \in S : y.id \in Nat /\ y.start \in Int /\ y.end \in Int
  BY TeamBlock DEF LayerOf
<1>4. /\ day.start \in Int /\ day.end \in Int /\ 0 <= day.start /\ day.end <= DayMinutes
      /\ DayMinutes \in Int /\ d.start = day.start /\ d.end = day.end
  BY <1>2, DayNumbers, Lengths DEF Ready, OnlyLayer
<1>5. Fit(l, day[l], day.start, day.end)
  BY <1>1, ValidLayers DEF Ready
<1>6. Apart(S)
  <2> SUFFICES ASSUME NEW x \in S, NEW y \in S, x # y
               PROVE  x.id # y.id /\ (x.end <= y.start \/ y.end <= x.start)
    BY DEF Apart
  <2>1. x.id # y.id
    BY <1>5 DEF Fit, Apart, EnteredBlocks
  <2>2. ~Overlapping(S)
    BY <1>2 DEF ValidPlan
  <2>3. ~(x.start < y.end /\ y.start < x.end)
    BY <2>2 DEF Overlapping
  <2> QED
    BY <1>3, <2>1, <2>3
<1>7. \A x \in S : /\ x.start < x.end /\ 0 <= x.start /\ x.end <= DayMinutes
                   /\ IF l \in Inner THEN day.start <= x.start /\ x.end <= day.end
                                     ELSE x.end <= day.start \/ day.end <= x.start
  <2>1. CASE l = "channels"
    <3>1. \A x \in S : x.start < x.end /\ day.start <= x.start /\ x.end <= day.end
      BY <1>2, <1>4, <2>1 DEF ValidPlan, Inside
    <3> QED
      BY <1>1, <1>3, <1>4, <2>1, <3>1
  <2>2. CASE l = "ot"
    BY <1>1, <1>2, <1>4, <2>2 DEF ValidPlan, Outside
  <2> QED
    BY <2>1, <2>2
<1>8. Fit(l, S, day.start, day.end)
  BY <1>6, <1>7 DEF Fit
<1>9. ValidDay(d)
  BY <1>1, <1>8, LayerPut
<1> QED
  BY <1>2, <1>9, OtherLayerEdited

-----------------------------------------------------------------------------
(* Overtime is added                                                       *)

(* In the loop of withOvertimeAdded: what is merged so far, and what was   *)
(* passed, are apart from each other and from the blocks P to come.        *)
Held(p, P, s, e) ==
    /\ Fit("ot", p.rest \cup P, s, e) /\ p.rest \cap P = {}
    /\ p.merged.start < p.merged.end /\ 0 <= p.merged.start /\ p.merged.end <= DayMinutes
    /\ p.merged.end <= s \/ e <= p.merged.start
    /\ \A y \in p.rest \cup P :
          y.id # p.merged.id /\ (y.end <= p.merged.start \/ p.merged.end <= y.start)

LEMMA AbsorbFits ==
    ASSUME NEW K, NEW p, p \in States(Nat, K), NEW P, P \subseteq BlocksOf(Nat, K),
           NEW s, NEW e, s \in Int, e \in Int, s < e, Held(p, P, s, e), NEW o, o \in P
    PROVE  Held(Absorb(p, o), P \ {o}, s, e)
<1> DEFINE m == p.merged
           R == p.rest
           q == Absorb(p, o)
           Q == P \ {o}
           W == R \cup P
<1>1. "ot" \notin Inner /\ DayMinutes \in Int
  BY Lengths DEF Inner
<1>2. /\ m \in BlocksOf(Nat, K) /\ R \subseteq BlocksOf(Nat, K)
      /\ m.start \in Int /\ m.end \in Int /\ o.start \in Int /\ o.end \in Int
      /\ \A y \in W : y.start \in Int /\ y.end \in Int
  BY DEF States, BlocksOf
<1>3. /\ Fit("ot", W, s, e) /\ R \cap P = {}
      /\ m.start < m.end /\ 0 <= m.start /\ m.end <= DayMinutes /\ (m.end <= s \/ e <= m.start)
      /\ \A y \in W : y.id # m.id /\ (y.end <= m.start \/ m.end <= y.start)
  BY DEF Held
<1>4. /\ o.start < o.end /\ 0 <= o.start /\ o.end <= DayMinutes /\ (o.end <= s \/ e <= o.start)
      /\ \A y \in W : y.start < y.end
  BY <1>1, <1>3 DEF Fit
<1>5. CASE Touches(m, o)
  <2> DEFINE n == Merged(m, o)
  <2>1. q.rest = R /\ q.merged = n
    BY <1>5 DEF Absorb, States
  <2>2. /\ n.id = o.id
        /\ n.start = (IF o.start <= m.start THEN o.start ELSE m.start)
        /\ n.end = (IF o.end >= m.end THEN o.end ELSE m.end)
    BY <1>2, MinOfTwo, MaxOfTwo DEF Merged
  <2>3. o.end = m.start \/ o.start = m.end
    BY <1>5 DEF Touches
  <2>4. R \cup Q \subseteq W /\ R \cap Q = {} /\ o \notin R \cup Q
    BY <1>3
  <2> HIDE DEF n, m, Q, W
  <2>5. Fit("ot", R \cup Q, s, e)
    BY <1>3, <2>4, FitFewer
  <2>6. /\ n.start < n.end /\ 0 <= n.start /\ n.end <= DayMinutes
        /\ n.end <= s \/ e <= n.start
    BY <1>1, <1>2, <1>3, <1>4, <2>2, <2>3
  <2>7. ASSUME NEW y \in R \cup Q
        PROVE  y.id # n.id /\ (y.end <= n.start \/ n.end <= y.start)
    <3>1. y \in W /\ y # o /\ o \in W
      BY <2>4 DEF W
    <3>2. y.id # o.id /\ (y.end <= o.start \/ o.end <= y.start)
      BY <1>3, <3>1 DEF Fit, Apart
    <3>3. y.end <= m.start \/ m.end <= y.start
      BY <1>3, <3>1
    <3>4. y.start \in Int /\ y.end \in Int /\ y.start < y.end
      BY <1>2, <1>4, <3>1
    <3> QED
      BY <1>2, <1>3, <1>4, <2>2, <2>3, <3>2, <3>3, <3>4
  <2> QED
    BY <2>1, <2>4, <2>5, <2>6, <2>7 DEF Held, Q
<1>6. CASE ~Touches(m, o)
  <2>1. q.rest = R \cup {o} /\ q.merged = m
    BY <1>6 DEF Absorb, States
  <2>2. (R \cup {o}) \cup Q = W /\ (R \cup {o}) \cap Q = {}
    BY <1>3
  <2> HIDE DEF m, W, Q
  <2> QED
    BY <1>3, <2>1, <2>2 DEF Held, Q
<1> QED
  BY <1>5, <1>6

(* What the loop starts from: the day's overtime f in order.               *)
Added(K, f, n, x, s, e) ==
    /\ n \in Nat /\ f \in [1 .. n -> BlocksOf(Nat, K)] /\ x \in BlocksOf(Nat, K)
    /\ Ascending(f, n) /\ s \in Int /\ e \in Int /\ s < e
    /\ Held([merged |-> x, rest |-> {}], {f[i] : i \in 1 .. n}, s, e)

LEMMA LoopFits ==
    ASSUME NEW K, NEW f, NEW n, NEW x, NEW s, NEW e, Added(K, f, n, x, s, e), NEW g, Loop(g, f, n, x)
    PROVE  g[n] \in States(Nat, K) /\ Held(g[n], {}, s, e)
<1> DEFINE P(k) == {f[i] : i \in k + 1 .. n}
           Good(k) == g[k] \in States(Nat, K) /\ Held(g[k], P(k), s, e)
           G == {k \in Nat : k <= n => Good(k)}
<1>0. /\ n \in Nat /\ f \in [1 .. n -> BlocksOf(Nat, K)] /\ x \in BlocksOf(Nat, K)
      /\ Ascending(f, n) /\ s \in Int /\ e \in Int /\ s < e
      /\ Held([merged |-> x, rest |-> {}], {f[i] : i \in 1 .. n}, s, e)
  BY DEF Added
<1>1. 0 \in G
  <2>1. g[0] = [merged |-> x, rest |-> {}]
    BY <1>0, LoopStart
  <2>2. g[0] \in States(Nat, K)
    BY <1>0, <2>1 DEF States
  <2>3. P(0) = {f[i] : i \in 1 .. n}
    OBVIOUS
  <2> QED
    BY <1>0, <2>1, <2>2, <2>3
<1>2. ASSUME NEW k \in G PROVE k + 1 \in G
  <2> SUFFICES ASSUME k + 1 <= n PROVE Good(k + 1)
    BY <1>0, <1>2
  <2>1. k \in Nat /\ k + 1 \in 1 .. n /\ Good(k)
    BY <1>0, <1>2
  <2>2. g[k + 1] = Absorb(g[k], f[k + 1])
    <3>1. \A i \in 1 .. n : g[i] = Absorb(g[i - 1], f[i])
      BY <1>0, LoopStep
    <3>2. (k + 1) - 1 = k
      BY <2>1
    <3> QED
      BY <2>1, <3>1, <3>2
  <2> DEFINE p == g[k]
             o == f[k + 1]
  <2>3. p \in States(Nat, K) /\ o \in BlocksOf(Nat, K) /\ Held(p, P(k), s, e) /\ o \in P(k)
        /\ P(k) \subseteq BlocksOf(Nat, K)
    BY <1>0, <2>1
  <2>4. P(k + 1) = P(k) \ {o}
    <3>1. \A i \in k + 2 .. n : f[i] # o
      <4> TAKE i \in k + 2 .. n
      <4>1. k + 1 < i /\ i \in 1 .. n
        BY <1>0, <2>1
      <4>2. f[k + 1].start < f[i].start /\ f[k + 1].start \in Int
        BY <1>0, <2>1, <4>1 DEF Ascending, BlocksOf
      <4> QED
        BY <4>2
    <3>2. \A i : i \in k + 1 .. n <=> i = k + 1 \/ i \in k + 2 .. n
      BY <1>0, <2>1
    <3> QED
      BY <2>1, <3>1, <3>2
  <2> HIDE DEF P, p, o
  <2>5. Absorb(p, o) \in States(Nat, K)
    BY <2>3, AbsorbType
  <2>6. Held(Absorb(p, o), P(k) \ {o}, s, e)
    BY <1>0, <2>3, AbsorbFits
  <2> QED
    BY <2>2, <2>4, <2>5, <2>6 DEF p, o
<1>3. G = Nat
  <2> HIDE DEF G
  <2>1. G \in SUBSET Nat
    BY DEF G
  <2> QED
    BY <1>1, <1>2, <2>1, NatSetInduction
<1>4. Good(n)
  <2>1. n \in Nat /\ n <= n
    BY <1>0
  <2>2. n \in G
    <3> HIDE DEF G
    <3> QED
      BY <1>3, <2>1
  <2> HIDE DEF Good
  <2> QED
    BY <2>1, <2>2
<1>5. P(n) = {}
  BY <1>0
<1> QED
  BY <1>4, <1>5

LEMMA OvertimeWritten ==
    ASSUME NEW t, NEW day, Ready(t, day), NEW x, x \in Blocks(t, "ot"),
           CanAddOvertime(day, x.start, x.end), \A y \in day.ot : y.id # x.id
    PROVE  Edited(t, day, WithOvertime(day, x)) /\ ValidDay(WithOvertime(day, x))
<1> DEFINE K == t.kinds["ot"] \cup WrittenKinds("ot")
           n == Cardinality(day.ot)
           f == InOrder(day.ot)
           g == CHOOSE h : Loop(h, f, n, x)
           ot == g[n].rest \cup {g[n].merged}
           s == day.start
           e == day.end
<1>1. Blocks(t, "ot") = BlocksOf(Nat, K) /\ "ot" \in Layers /\ "ot" \notin Inner
  BY DEF Blocks, BlocksOf, Layers, Inner
<1>2. day.ot \in SUBSET Blocks(t, "ot") /\ Fit("ot", day.ot, s, e)
  BY <1>1, TeamDay, ValidLayers DEF Ready
<1>3. /\ s \in Int /\ e \in Int /\ s < e
      /\ \A y \in day.ot : y.start \in Int /\ y.end \in Int
      /\ x.start \in Int /\ x.end \in Int
      /\ DayMinutes \in Int /\ OtMin \in Int /\ OtMin > 0
  <2>1. x.start \in Int /\ x.end \in Int
    BY TeamBlock
  <2> QED
    BY <2>1, DayNumbers, Lengths DEF Ready
<1>4. Starts(day.ot) /\ Apart(day.ot)
  BY <1>2, <1>3 DEF Starts, Fit
<1>5. n \in Nat
  BY <1>4, ApartFinite, FS_CardinalityType
<1>6. f \in [1 .. n -> day.ot] /\ Ascending(f, n) /\ day.ot = {f[i] : i \in 1 .. n}
  BY <1>4, OrderIsComplete
<1>7. f \in [1 .. n -> BlocksOf(Nat, K)] /\ \A i \in 1 .. n : f[i].start \in Int
  BY <1>1, <1>2, <1>3, <1>6
<1>8. WithOvertime(day, x) = WithLayer(day, "ot", ot)
  BY DEF WithOvertime, Loop, WithLayer
<1>9. Loop(g, f, n, x)
  <2> HIDE DEF n, f, K
  <2>1. x \in BlocksOf(Nat, K)
    BY <1>1
  <2>2. \E h : Loop(h, f, n, x)
    BY <1>5, <1>7, <2>1, LoopExists
  <2> QED
    BY <2>2
<1>10. Held([merged |-> x, rest |-> {}], day.ot, s, e)
  <2>1. /\ x.end - x.start >= OtMin /\ 0 <= x.start /\ x.end <= DayMinutes
        /\ ~(x.start < e /\ x.end > s)
        /\ \A y \in day.ot : ~(x.start < y.end /\ x.end > y.start)
    BY DEF CanAddOvertime, Clashing
  <2>2. /\ x.start < x.end /\ (x.end <= s \/ e <= x.start)
        /\ \A y \in day.ot : y.end <= x.start \/ x.end <= y.start
    BY <1>3, <2>1
  <2>3. {} \cup day.ot = day.ot
    OBVIOUS
  <2> QED
    BY <1>2, <2>1, <2>2, <2>3 DEF Held
<1>11. Added(K, f, n, x, s, e)
  BY <1>1, <1>3, <1>5, <1>6, <1>7, <1>10 DEF Added
<1> HIDE DEF n, f, g, K, s, e
<1>12. g[n] \in States(Nat, K) /\ Held(g[n], {}, s, e)
  BY <1>9, <1>11, LoopFits
<1>13. Fit("ot", ot, s, e)
  <2>1. /\ Fit("ot", g[n].rest, s, e)
        /\ g[n].merged.start < g[n].merged.end /\ 0 <= g[n].merged.start /\ g[n].merged.end <= DayMinutes
        /\ g[n].merged.end <= s \/ e <= g[n].merged.start
        /\ \A y \in g[n].rest :
              y.id # g[n].merged.id /\ (y.end <= g[n].merged.start \/ g[n].merged.end <= y.start)
    <3>1. g[n].rest \cup {} = g[n].rest
      OBVIOUS
    <3> QED
      BY <1>12, <3>1 DEF Held
  <2> QED
    BY <1>1, <2>1, FitOneMore
<1>14. LayerOf(t, "ot", ot)
  BY <1>1, <1>12 DEF LayerOf, States
<1> HIDE DEF ot
<1>15. OnlyLayer(t, day, "ot", WithLayer(day, "ot", ot)) /\ ValidDay(WithLayer(day, "ot", ot))
  BY <1>1, <1>13, <1>14, LayerPut DEF s, e
<1> QED
  BY <1>8, <1>15, OtherLayerEdited

LEMMA OvertimePlace ==
    ASSUME NEW t, NEW day, Ready(t, day), NEW timing, NEW length, length \in Int
    PROVE  OvertimeFrom(day, timing, length) \in Int
<1>1. /\ day.start \in Int /\ day.end \in Int /\ DayMinutes \in Int
      /\ 0 <= day.start /\ day.end <= DayMinutes
      /\ \A o \in day.ot : /\ o.start \in Int /\ o.end \in Int
                           /\ 0 <= o.start /\ o.end <= DayMinutes
  BY DayNumbers, Lengths DEF Ready
<1> DEFINE L == {day.end} \cup {o.end : o \in {x \in day.ot : x.start >= day.end}}
           F == {day.start} \cup {o.start : o \in {x \in day.ot : x.end <= day.start}}
           midnight == 0
<1>2. L \in SUBSET Int /\ L # {} /\ \A n \in L : n <= DayMinutes
  BY <1>1
<1>3. F \in SUBSET Int /\ F # {} /\ midnight \in Int /\ \A n \in F : midnight <= n
  BY <1>1
<1>4. OvertimeFrom(day, timing, length) = IF timing = "after" THEN Max(L) ELSE Min(F) - length
  BY DEF OvertimeFrom
<1> HIDE DEF L, F, midnight
<1>5. Max(L) \in Int
  BY <1>1, <1>2, GreatestTime
<1>6. Min(F) \in Int
  BY <1>3, LeastTime
<1> QED
  BY <1>4, <1>5, <1>6

-----------------------------------------------------------------------------
(* Back to the defaults                                                    *)

(* A channel that changes at mid-shift changes inside the shift.           *)
LEMMA MidShift ==
    ASSUME NEW s, NEW e, s \in Int, e \in Int, e - s >= 2 * ChannelMin
    PROVE  LET mid == s + ((e - s + ChannelMin) \div (2 * ChannelMin)) * ChannelMin
           IN  mid \in Int /\ s < mid /\ mid < e
<1> DEFINE c == ChannelMin
           n == e - s + c
           q == n \div (2 * c)
           z == q * c
<1>1. c \in Nat /\ c > 0 /\ n \in Int /\ n >= 3 * c
  BY Lengths
<1> HIDE DEF c, n
<1>2. q \in Int /\ (2 * c) * q <= n /\ n < (2 * c) * q + 2 * c
  BY <1>1
<1>3. z \in Int /\ (2 * c) * q = 2 * z
  BY <1>1, <1>2
<1> HIDE DEF q, z
<1>4. 2 * z <= n /\ n < 2 * z + 2 * c
  BY <1>2, <1>3
<1>5. n = e - s + c
  BY DEF n, c
<1>6. z > 0 /\ z < e - s
  BY <1>1, <1>3, <1>4, <1>5
<1>7. s + z \in Int /\ s < s + z /\ s + z < e
  BY <1>3, <1>6
<1> QED
  BY <1>7 DEF z, q, n, c

LEMMA DefaultsFit ==
    ASSUME NEW t, NEW day, Ready(t, day), ShiftMin >= 2 * ChannelMin,
           NEW kinds, kinds \in Seq(t.kinds.channels \cup WrittenKinds("channels")), Len(kinds) <= 2
    PROVE  /\ LayerOf(t, "channels", DefaultChannels(day, kinds))
           /\ Fit("channels", DefaultChannels(day, kinds), day.start, day.end)
<1> DEFINE s == day.start
           e == day.end
           mid == s + ((e - s + ChannelMin) \div (2 * ChannelMin)) * ChannelMin
           from(i) == IF i = 1 THEN s ELSE mid
           to(i) == IF i = Len(kinds) THEN e ELSE mid
           block(i) == [id |-> i, kind |-> kinds[i], start |-> from(i), end |-> to(i)]
           N == {block(i) : i \in DOMAIN kinds}
<1>1. s \in Int /\ e \in Int /\ 0 <= s /\ e <= DayMinutes /\ e - s >= ShiftMin
      /\ ShiftMin \in Nat /\ DayMinutes \in Nat /\ ChannelMin \in Nat
  BY DayNumbers, Lengths DEF Ready
<1>2. mid \in Int /\ s < mid /\ mid < e
  <2>1. e - s >= 2 * ChannelMin
    BY <1>1
  <2> HIDE DEF s, e
  <2> QED
    BY <1>1, <2>1, MidShift
<1>3. DefaultChannels(day, kinds) = N
  BY DEF DefaultChannels
<1> HIDE DEF mid, s, e
<1>4. DOMAIN kinds = 1 .. Len(kinds) /\ Len(kinds) \in Nat /\ Len(kinds) <= 2
  OBVIOUS
<1>5. \A i \in DOMAIN kinds : /\ i \in Nat /\ (i = 1 \/ i = 2) /\ (i = 2 => Len(kinds) = 2)
                              /\ kinds[i] \in t.kinds.channels \cup WrittenKinds("channels")
  BY <1>4
<1>6. \A i \in DOMAIN kinds : from(i) \in Int /\ to(i) \in Int /\ s <= from(i) /\ from(i) < to(i) /\ to(i) <= e
  BY <1>1, <1>2, <1>4, <1>5
<1>7. \A i, j \in DOMAIN kinds : i # j => to(i) <= from(j) \/ to(j) <= from(i)
  <2> TAKE i, j \in DOMAIN kinds
  <2> SUFFICES ASSUME i # j PROVE to(i) <= from(j) \/ to(j) <= from(i)
    OBVIOUS
  <2>1. (i = 1 /\ j = 2) \/ (i = 2 /\ j = 1)
    BY <1>5
  <2>2. Len(kinds) = 2
    BY <1>5, <2>1
  <2>3. to(1) = mid /\ from(2) = mid
    BY <2>2
  <2> HIDE DEF to, from
  <2> QED
    BY <1>2, <2>1, <2>3
<1> HIDE DEF from, to
<1>8. \A i \in DOMAIN kinds : block(i) \in Blocks(t, "channels")
  BY <1>5, <1>6 DEF Blocks
<1>9. Apart(N)
  BY <1>7 DEF Apart
<1>10. \A x \in N : x.start < x.end /\ 0 <= x.start /\ x.end <= DayMinutes /\ s <= x.start /\ x.end <= e
  BY <1>1, <1>6
<1>11. N \in SUBSET Blocks(t, "channels")
  BY <1>8
<1> HIDE DEF N
<1>12. Fit("channels", N, s, e)
  BY <1>9, <1>10 DEF Fit, Inner
<1> QED
  BY <1>3, <1>11, <1>12 DEF LayerOf, s, e

LEMMA DefaultsRestored ==
    ASSUME NEW t, NEW day, Ready(t, day), ShiftMin >= 2 * ChannelMin,
           NEW kinds, kinds \in Seq(t.kinds.channels \cup WrittenKinds("channels")), Len(kinds) <= 2
    PROVE  Edited(t, day, [day EXCEPT !.channels = DefaultChannels(day, kinds), !.ot = {}])
<1> DEFINE N == DefaultChannels(day, kinds)
           m == WithLayer(day, "channels", N)
           none == {}
           d == WithLayer(m, "ot", none)
<1>1. "channels" \in Layers /\ "ot" \in Layers /\ "breaks" \in Layers
  BY DEF Layers, Inner
<1>2. LayerOf(t, "channels", N) /\ Fit("channels", N, day.start, day.end)
  BY DefaultsFit
<1>3. [day EXCEPT !.channels = N, !.ot = {}] = d
  BY DEF WithLayer
<1> HIDE DEF N
<1>4. OnlyLayer(t, day, "channels", m) /\ ValidDay(m)
  BY <1>1, <1>2, LayerPut
<1> HIDE DEF m
<1>5. /\ m.start = day.start /\ m.end = day.end /\ m.noBreak = day.noBreak /\ m.breaks = day.breaks
      /\ m \in TeamDays(t)
  BY <1>1, <1>4 DEF OnlyLayer
<1>6. Ready(t, m)
  BY <1>4, <1>5 DEF Ready, LongBreaks
<1>7. LayerOf(t, "ot", none) /\ Fit("ot", none, m.start, m.end)
  BY DEF LayerOf, Fit, Apart
<1> HIDE DEF none
<1>8. OnlyLayer(t, m, "ot", d) /\ ValidDay(d)
  BY <1>1, <1>6, <1>7, LayerPut
<1> HIDE DEF d
<1>9. /\ d.start = day.start /\ d.end = day.end /\ d.noBreak = day.noBreak /\ d.breaks = day.breaks
      /\ d \in TeamDays(t)
  BY <1>1, <1>5, <1>8 DEF OnlyLayer
<1>10. Outward(day, d) /\ LongBreaks(d)
  BY <1>9, BreaksKept DEF Ready, LongBreaks
<1>11. Edited(t, day, d)
  BY <1>8, <1>9, <1>10 DEF Edited
<1> QED
  BY <1>3, <1>11 DEF N

-----------------------------------------------------------------------------
(* The channel planner                                                     *)

Channels == {{"phone"}, {"chat"}, {"email"}, {}}

(* The loop over the intervals: what was picked so far, and each agent's   *)
(* latest pick.                                                            *)
PickStep(crew, s, n, chatMin, t) ==
    LET p == Picked(crew, s.last, n, chatMin, t)
    IN  [picks |-> Append(s.picks, p),
         last  |-> [a \in DOMAIN crew |-> IF p[a] = {} THEN s.last[a] ELSE p[a]]]

PickLoop(step, crew, need, first, chatMin, n) ==
    step = [i \in 0 .. n |->
              IF i = 0 THEN [picks |-> <<>>, last |-> [a \in DOMAIN crew |-> {}]]
              ELSE PickStep(crew, step[i - 1], need[i], chatMin, first + (i - 1) * Interval)]

PickStates(A) == [picks : Seq([A -> Channels]), last : [A -> Channels]]

LEMMA PickedType ==
    ASSUME NEW crew, NEW last, NEW n, NEW chatMin, NEW t
    PROVE  Picked(crew, last, n, chatMin, t) \in [DOMAIN crew -> Channels]
BY DEF Picked, Channels

LEMMA PickStepType ==
    ASSUME NEW crew, NEW s, s \in PickStates(DOMAIN crew), NEW n, NEW chatMin, NEW t
    PROVE  /\ PickStep(crew, s, n, chatMin, t) \in PickStates(DOMAIN crew)
           /\ Len(PickStep(crew, s, n, chatMin, t).picks) = Len(s.picks) + 1
<1> DEFINE p == Picked(crew, s.last, n, chatMin, t)
           last == [a \in DOMAIN crew |-> IF p[a] = {} THEN s.last[a] ELSE p[a]]
           q == PickStep(crew, s, n, chatMin, t)
<1>1. p \in [DOMAIN crew -> Channels]
  BY PickedType
<1>2. q = [picks |-> Append(s.picks, p), last |-> last]
  BY DEF PickStep
<1> HIDE DEF p, q
<1>3. s.picks \in Seq([DOMAIN crew -> Channels]) /\ s.last \in [DOMAIN crew -> Channels]
  BY DEF PickStates
<1>4. last \in [DOMAIN crew -> Channels]
  BY <1>1, <1>3
<1>5. Append(s.picks, p) \in Seq([DOMAIN crew -> Channels]) /\ Len(Append(s.picks, p)) = Len(s.picks) + 1
  BY <1>1, <1>3
<1> HIDE DEF last
<1> QED
  BY <1>2, <1>4, <1>5 DEF PickStates, q

(* A loop of n steps, each a step of F from the state before it.           *)
Loops(S, n, s0, F) == n \in Nat /\ s0 \in S /\ F \in [(1 .. n) \X S -> S]

Run(S, n, s0, F, g) ==
    g \in [0 .. n -> S] /\ g[0] = s0 /\ \A i \in 1 .. n : g[i] = F[<<i, g[i - 1]>>]

LEMMA LoopOf ==
    ASSUME NEW S, NEW n, NEW s0, NEW F, Loops(S, n, s0, F)
    PROVE  \E g : Run(S, n, s0, F, g)
<1> USE DEF Loops
<1> DEFINE Ran(g, k) == g[0] = s0 /\ \A i \in 1 .. k : g[i] = F[<<i, g[i - 1]>>]
           G == {k \in Nat : k <= n => \E g \in [0 .. k -> S] : Ran(g, k)}
<1>1. 0 \in G
  <2> DEFINE g == [i \in 0 .. 0 |-> s0]
  <2>1. g \in [0 .. 0 -> S] /\ Ran(g, 0)
    OBVIOUS
  <2> QED
    BY <2>1
<1>2. ASSUME NEW k \in G PROVE k + 1 \in G
  <2> SUFFICES ASSUME k + 1 <= n PROVE \E g \in [0 .. k + 1 -> S] : Ran(g, k + 1)
    BY <1>2
  <2>1. k \in Nat /\ k + 1 \in 1 .. n
    BY <1>2
  <2>2. PICK g \in [0 .. k -> S] : Ran(g, k)
    BY <1>2, <2>1
  <2> DEFINE next == F[<<k + 1, g[k]>>]
             h == [i \in 0 .. k + 1 |-> IF i = k + 1 THEN next ELSE g[i]]
  <2>3. next \in S
    BY <2>1, <2>2
  <2> HIDE DEF next
  <2>4. h \in [0 .. k + 1 -> S] /\ h[k + 1] = next /\ \A i \in 0 .. k : h[i] = g[i]
    BY <2>1, <2>2, <2>3
  <2> HIDE DEF h
  <2>5. h[0] = s0
    BY <2>1, <2>2, <2>4
  <2>6. ASSUME NEW i \in 1 .. k + 1 PROVE h[i] = F[<<i, h[i - 1]>>]
    <3>1. CASE i \in 1 .. k
      <4>1. i \in 0 .. k /\ i - 1 \in 0 .. k
        BY <2>1, <3>1
      <4>2. h[i] = g[i] /\ h[i - 1] = g[i - 1]
        BY <2>4, <4>1
      <4>3. g[i] = F[<<i, g[i - 1]>>]
        BY <2>2, <3>1
      <4> QED
        BY <4>2, <4>3
    <3>2. CASE i = k + 1
      <4>1. i - 1 = k /\ k \in 0 .. k
        BY <2>1, <3>2
      <4>2. h[i - 1] = g[k]
        BY <2>4, <4>1
      <4> QED
        BY <2>4, <3>2, <4>2 DEF next
    <3> QED
      BY <2>1, <3>1, <3>2
  <2> QED
    BY <2>4, <2>5, <2>6
<1>3. G = Nat
  <2> HIDE DEF G
  <2>1. G \in SUBSET Nat
    BY DEF G
  <2> QED
    BY <1>1, <1>2, <2>1, NatSetInduction
<1>4. n \in G
  <2> HIDE DEF G
  <2> QED
    BY <1>3
<1>5. PICK g \in [0 .. n -> S] : Ran(g, n)
  BY <1>4
<1> QED
  BY <1>5 DEF Run

LEMMA PickLoopExists ==
    ASSUME NEW crew, NEW need, NEW first, NEW chatMin, NEW n, n \in Nat
    PROVE  \E g \in [0 .. n -> PickStates(DOMAIN crew)] : PickLoop(g, crew, need, first, chatMin, n)
<1> DEFINE S == PickStates(DOMAIN crew)
           s0 == [picks |-> <<>>, last |-> [a \in DOMAIN crew |-> {}]]
           step(i, s) == PickStep(crew, s, need[i], chatMin, first + (i - 1) * Interval)
           F == [p \in (1 .. n) \X S |-> step(p[1], p[2])]
<1>1. s0 \in S
  BY DEF PickStates, Channels
<1>2. \A i \in 1 .. n : \A s \in S : step(i, s) \in S
  BY PickStepType
<1> HIDE DEF S, step, s0
<1>3. F \in [(1 .. n) \X S -> S] /\ \A i \in 1 .. n : \A s \in S : F[<<i, s>>] = step(i, s)
  BY <1>2
<1> HIDE DEF F
<1>4. PICK g \in [0 .. n -> S] : g[0] = s0 /\ \A i \in 1 .. n : g[i] = F[<<i, g[i - 1]>>]
  <2>1. Loops(S, n, s0, F)
    BY <1>1, <1>3 DEF Loops
  <2>2. \E g : Run(S, n, s0, F, g)
    BY <2>1, LoopOf
  <2> QED
    BY <2>2 DEF Run
<1>5. \A i \in 1 .. n : g[i - 1] \in S
  <2> TAKE i \in 1 .. n
  <2>1. i - 1 \in 0 .. n
    OBVIOUS
  <2> QED
    BY <1>4, <2>1
<1>6. \A i \in 1 .. n : g[i] = step(i, g[i - 1])
  BY <1>3, <1>4, <1>5
<1>7. g = [i \in 0 .. n |-> IF i = 0 THEN s0 ELSE step(i, g[i - 1])]
  <2> DEFINE body(i) == IF i = 0 THEN s0 ELSE step(i, g[i - 1])
  <2>1. \A i \in 0 .. n : i = 0 \/ i \in 1 .. n
    OBVIOUS
  <2>2. \A i \in 0 .. n : g[i] = body(i)
    BY <1>4, <1>6, <2>1
  <2> HIDE DEF body
  <2>3. g = [i \in 0 .. n |-> body(i)]
    BY <1>4, <2>2
  <2> QED
    BY <2>3 DEF body
<1>8. PickLoop(g, crew, need, first, chatMin, n)
  BY <1>7 DEF PickLoop, s0, step
<1> QED
  BY <1>4, <1>8 DEF S

(* In every interval each agent is picked for one channel, or for none.    *)
LEMMA PicksType ==
    ASSUME NEW crew, NEW need, Len(need) \in Nat, NEW first, NEW chatMin
    PROVE  /\ Picks(crew, need, first, chatMin) \in Seq([DOMAIN crew -> Channels])
           /\ Len(Picks(crew, need, first, chatMin)) = Len(need)
<1> DEFINE n == Len(need)
           S == PickStates(DOMAIN crew)
           g == CHOOSE h : PickLoop(h, crew, need, first, chatMin, n)
           step(i) == PickStep(crew, g[i - 1], need[i], chatMin, first + (i - 1) * Interval)
           s0 == [picks |-> <<>>, last |-> [a \in DOMAIN crew |-> {}]]
           G == {k \in Nat : k <= n => g[k] \in S /\ Len(g[k].picks) = k}
<1>1. Picks(crew, need, first, chatMin) = g[n].picks
  BY DEF Picks, PickLoop, PickStep
<1>2. PickLoop(g, crew, need, first, chatMin, n)
  <2>1. \E h : PickLoop(h, crew, need, first, chatMin, n)
    BY PickLoopExists
  <2> QED
    BY <2>1
<1> HIDE DEF g
<1>3. g = [i \in 0 .. n |-> IF i = 0 THEN s0 ELSE step(i)]
  BY <1>2 DEF PickLoop
<1>4. s0 \in S /\ Len(s0.picks) = 0
  BY DEF PickStates, Channels
<1> HIDE DEF s0
<1>5. 0 \in G
  BY <1>3, <1>4
<1>6. ASSUME NEW k \in G PROVE k + 1 \in G
  <2> SUFFICES ASSUME k + 1 <= n PROVE g[k + 1] \in S /\ Len(g[k + 1].picks) = k + 1
    BY <1>6
  <2>1. k \in Nat /\ k + 1 \in 0 .. n /\ k + 1 # 0 /\ (k + 1) - 1 = k
        /\ g[k] \in S /\ Len(g[k].picks) = k
    BY <1>6
  <2>2. g[k + 1] = step(k + 1)
    <3> HIDE DEF step
    <3> QED
      BY <1>3, <2>1
  <2>3. step(k + 1) = PickStep(crew, g[k], need[k + 1], chatMin, first + k * Interval)
    BY <2>1
  <2> QED
    BY <2>1, <2>2, <2>3, PickStepType
<1>7. G = Nat
  <2> HIDE DEF G
  <2>1. G \in SUBSET Nat
    BY DEF G
  <2> QED
    BY <1>5, <1>6, <2>1, NatSetInduction
<1>8. n \in G
  <2> HIDE DEF G
  <2> QED
    BY <1>7
<1>9. g[n] \in S /\ Len(g[n].picks) = n
  BY <1>8
<1> QED
  BY <1>1, <1>9 DEF PickStates

(* The intervals with a pick, and the pick that an interval keeps.         *)
PickedIn(mine) == {i \in 1 .. Len(mine) : mine[i] # {}}

FilledAt(mine, i) ==
    LET upTo == {j \in PickedIn(mine) : j <= i}
    IN  mine[IF upTo = {} THEN Min(PickedIn(mine)) ELSE Max(upTo)]

LEMMA FilledIsPicked ==
    ASSUME NEW n, n \in Nat, NEW mine, mine \in [1 .. n -> Channels], PickedIn(mine) # {}, NEW i
    PROVE  /\ FilledAt(mine, i) \in {{"phone"}, {"chat"}, {"email"}}
           /\ i \in PickedIn(mine) => FilledAt(mine, i) = mine[i]
<1> DEFINE picked == PickedIn(mine)
           upTo == {j \in picked : j <= i}
<1>1. picked \in SUBSET Nat /\ (\A j \in picked : j <= n) /\ \A j \in picked : mine[j] \in Channels \ {{}}
  BY DEF PickedIn
<1>2. FilledAt(mine, i) = mine[IF upTo = {} THEN Min(picked) ELSE Max(upTo)]
  BY DEF FilledAt
<1> HIDE DEF picked
<1>3. Min(picked) \in picked
  BY <1>1, MinOfNats DEF picked
<1>4. upTo \subseteq picked /\ upTo \in SUBSET Int /\ n \in Int /\ \A j \in upTo : j <= n
  <2>1. \A j \in upTo : j \in picked
    OBVIOUS
  <2>2. \A j \in upTo : j \in Int /\ j <= n
    BY <1>1, <2>1
  <2> HIDE DEF upTo
  <2> QED
    BY <2>1, <2>2
<1>5. i \in picked => i \in upTo /\ \A j \in upTo : j <= i
  BY <1>1
<1> HIDE DEF upTo
<1>6. upTo # {} => Max(upTo) \in upTo /\ \A j \in upTo : j <= Max(upTo)
  BY <1>4, GreatestTime
<1>7. FilledAt(mine, i) \in Channels \ {{}}
  BY <1>1, <1>2, <1>3, <1>4, <1>6
<1>8. i \in picked => Max(upTo) = i
  <2> DEFINE top == Max(upTo)
  <2>1. upTo # {} => top \in upTo /\ \A j \in upTo : j <= top
    BY <1>6
  <2> HIDE DEF top
  <2>2. i \in picked => top = i
    <3> SUFFICES ASSUME i \in picked PROVE top = i
      OBVIOUS
    <3>1. i \in upTo /\ top \in upTo /\ top <= i /\ i <= top
      BY <1>5, <2>1
    <3>2. i \in Int /\ top \in Int
      BY <1>4, <3>1
    <3> QED
      BY <3>1, <3>2
  <2> QED
    BY <2>2 DEF top
<1> QED
  BY <1>2, <1>5, <1>7, <1>8 DEF Channels, picked

LEMMA PlannedFits ==
    ASSUME NEW t, NEW day, Ready(t, day), NEW n, n \in Nat, NEW mine, mine \in [1 .. n -> Channels]
    PROVE  /\ LayerOf(t, "channels", PlannedChannels(day, mine, 0))
           /\ Fit("channels", PlannedChannels(day, mine, 0), day.start, day.end)
<1> DEFINE s == day.start
           e == day.end
           N == Len(mine)
           picked == PickedIn(mine)
           filled(i) == FilledAt(mine, i)
           channel(m) == filled(Max({1, Min({N, (m - 0 + Interval) \div Interval})}))
           cuts == {s} \cup {m \in {0 + (i - 1) * Interval : i \in 1 .. N} : s < m /\ m < e}
           bounds == {m \in cuts : m = s \/ channel(m) # channel(Max({x \in cuts : x < m}))}
           passed(m) == {x \in bounds : x <= m}
           later(m) == {x \in bounds : x > m}
           until(m) == Min({e} \cup later(m))
           block(m) == [id |-> Cardinality(passed(m)), kind |-> CHOOSE k \in channel(m) : TRUE,
                        start |-> m, end |-> until(m)]
           after == {block(m) : m \in bounds}
           same == \A m \in 0 .. DayMinutes - 1 : ChannelAt(after, m) = ChannelAt(day.channels, m)
<1>1. PlannedChannels(day, mine, 0) = IF picked = {} \/ same THEN day.channels ELSE after
  BY DEF PlannedChannels, PickedIn, FilledAt
<1>2. LayerOf(t, "channels", day.channels) /\ Fit("channels", day.channels, s, e)
  BY TeamDay, ValidLayers DEF Ready, LayerOf, Layers, Inner
<1> SUFFICES ASSUME picked # {}
             PROVE  LayerOf(t, "channels", after) /\ Fit("channels", after, s, e)
  BY <1>1, <1>2
<1>3. N = n
  OBVIOUS
<1>4. /\ s \in Int /\ e \in Int /\ 0 <= s /\ e <= DayMinutes /\ s < e
      /\ DayMinutes \in Nat /\ Interval \in Nat
  BY DayNumbers, Lengths, GridAssumption DEF Ready
<1> HIDE DEF N, s, e, picked
<1>5. \A m : channel(m) \in {{"phone"}, {"chat"}, {"email"}}
  BY <1>3, FilledIsPicked DEF picked
<1> HIDE DEF channel
<1>6. \A m : (CHOOSE k \in channel(m) : TRUE) \in {"phone", "chat", "email"}
  BY <1>5
<1>7. s \in bounds /\ \A m \in bounds : m \in Int /\ s <= m /\ m < e
  BY <1>3, <1>4
<1> HIDE DEF bounds
<1>8. bounds \subseteq s .. e /\ IsFiniteSet(bounds)
  <2>1. bounds \subseteq s .. e
    BY <1>4, <1>7
  <2> QED
    BY <1>4, <2>1, FS_Interval, FS_Subset
<1>9. \A m \in bounds : IsFiniteSet(passed(m)) /\ Cardinality(passed(m)) \in Nat
  BY <1>8, FS_Subset, FS_CardinalityType
<1>10. ASSUME NEW m \in bounds, NEW k \in bounds, m < k
       PROVE  Cardinality(passed(m)) # Cardinality(passed(k))
  <2>1. passed(m) \subseteq passed(k) /\ passed(m) # passed(k)
    <3>1. k \in passed(k) /\ k \notin passed(m)
      BY <1>7, <1>10
    <3> QED
      BY <1>7, <1>10, <3>1
  <2> HIDE DEF passed
  <2> QED
    BY <1>9, <2>1, FS_Subset
<1>11. ASSUME NEW m \in bounds
       PROVE  /\ until(m) \in Int /\ m < until(m) /\ until(m) <= e
              /\ \A x \in bounds : m < x => until(m) <= x
  <2> DEFINE U == {e} \cup later(m)
  <2>1. U \in SUBSET Int /\ U # {} /\ m \in Int /\ (\A x \in U : m <= x) /\ \A x \in U : m < x
    <3>1. m \in Int /\ m < e
      BY <1>7
    <3>2. \A x \in U : x \in Int /\ m < x
      BY <1>4, <1>7, <3>1
    <3> HIDE DEF later
    <3>3. e \in U
      OBVIOUS
    <3> HIDE DEF U
    <3> QED
      BY <3>1, <3>2, <3>3
  <2>2. \A x \in bounds : m < x => x \in U
    BY <1>7
  <2>3. e \in U
    OBVIOUS
  <2> HIDE DEF U
  <2>4. Min(U) \in U /\ \A x \in U : Min(U) <= x
    BY <2>1, LeastTime
  <2>5. until(m) = Min(U)
    BY DEF U
  <2> QED
    BY <2>1, <2>2, <2>3, <2>4, <2>5
<1> HIDE DEF passed, until
<1>12. \A m \in bounds : block(m) \in Blocks(t, "channels")
  BY <1>6, <1>7, <1>9, <1>11 DEF Blocks, WrittenKinds
<1>13. Apart(after)
  <2> SUFFICES ASSUME NEW m \in bounds, NEW k \in bounds, m # k
               PROVE  block(m).id # block(k).id
                      /\ (block(m).end <= block(k).start \/ block(k).end <= block(m).start)
    BY DEF Apart
  <2>1. m < k \/ k < m
    BY <1>7
  <2>2. CASE m < k
    BY <1>10, <1>11, <2>2
  <2>3. CASE k < m
    BY <1>10, <1>11, <2>3
  <2> QED
    BY <2>1, <2>2, <2>3
<1>14. \A x \in after : /\ x.start < x.end /\ 0 <= x.start /\ x.end <= DayMinutes
                        /\ s <= x.start /\ x.end <= e
  BY <1>4, <1>7, <1>11
<1>15. after \in SUBSET Blocks(t, "channels")
  BY <1>12
<1> HIDE DEF after
<1> QED
  BY <1>13, <1>14, <1>15 DEF Fit, LayerOf, Inner

LEMMA DayPlanned ==
    ASSUME NEW t, NEW day, Ready(t, day), NEW n, n \in Nat, NEW mine, mine \in [1 .. n -> Channels]
    PROVE  Edited(t, day, WithLayer(day, "channels", PlannedChannels(day, mine, 0)))
<1> DEFINE N == PlannedChannels(day, mine, 0)
           d == WithLayer(day, "channels", N)
<1>1. LayerOf(t, "channels", N) /\ Fit("channels", N, day.start, day.end)
  BY PlannedFits
<1>2. "channels" \in Layers
  BY DEF Layers, Inner
<1> HIDE DEF N
<1>3. OnlyLayer(t, day, "channels", d) /\ ValidDay(d)
  BY <1>1, <1>2, LayerPut
<1> HIDE DEF d
<1>4. Edited(t, day, d)
  BY <1>3, OtherLayerEdited
<1> QED
  BY <1>4 DEF d, N

-----------------------------------------------------------------------------
(* Work rules                                                              *)

Upward(base) == {k \in Nat : base <= k}

Summands(base, n, steps) ==
    base \in Nat /\ n \in Nat /\ steps \in [1 .. n -> Nat] /\ Len(steps) = n

(* A running sum of numbers never falls.                                   *)
LEMMA RunningSum ==
    ASSUME NEW base, NEW n, NEW steps, Summands(base, n, steps)
    PROVE  /\ Running(base, steps)[0] = base
           /\ \A i \in 0 .. n : Running(base, steps)[i] \in Nat /\ base <= Running(base, steps)[i]
           /\ \A i \in 1 .. n : Running(base, steps)[i] = Running(base, steps)[i - 1] + steps[i]
<1> DEFINE S == Upward(base)
           F == [p \in (1 .. n) \X S |-> p[2] + steps[p[1]]]
           Is(f) == f = [i \in 0 .. n |-> IF i = 0 THEN base ELSE f[i - 1] + steps[i]]
           g == CHOOSE f : Is(f)
<1> USE DEF Summands
<1>1. Running(base, steps) = g
  BY DEF Running
<1>2. base \in S /\ \A i \in 1 .. n : \A k \in S : k + steps[i] \in S
  <2>1. \A i \in 1 .. n : steps[i] \in Nat
    OBVIOUS
  <2> QED
    BY <2>1 DEF Upward
<1> HIDE DEF S
<1>3. F \in [(1 .. n) \X S -> S] /\ \A i \in 1 .. n : \A k \in S : F[<<i, k>>] = k + steps[i]
  BY <1>2
<1> HIDE DEF F
<1>4. PICK h : Run(S, n, base, F, h)
  <2>1. Loops(S, n, base, F)
    BY <1>2, <1>3 DEF Loops
  <2> QED
    BY <2>1, LoopOf
<1>5. \A i \in 1 .. n : i - 1 \in 0 .. n
  OBVIOUS
<1>6. \A i \in 1 .. n : h[i] = h[i - 1] + steps[i]
  BY <1>3, <1>4, <1>5 DEF Run
<1>7. Is(h)
  <2> DEFINE body(i) == IF i = 0 THEN base ELSE h[i - 1] + steps[i]
  <2>1. \A i \in 0 .. n : i = 0 \/ i \in 1 .. n
    OBVIOUS
  <2>2. \A i \in 0 .. n : h[i] = body(i)
    BY <1>4, <1>6, <2>1 DEF Run
  <2> HIDE DEF body
  <2>3. h = [i \in 0 .. n |-> body(i)]
    BY <1>4, <2>2 DEF Run
  <2> QED
    BY <2>3 DEF body
<1>8. Is(g)
  <2> HIDE DEF Is
  <2> QED
    BY <1>7
<1> HIDE DEF g
<1>9. g[0] = base /\ \A i \in 1 .. n : g[i] = g[i - 1] + steps[i]
  BY <1>8
<1> DEFINE G == {k \in Nat : k <= n => g[k] \in S}
<1>10. 0 \in G
  BY <1>2, <1>9
<1>11. ASSUME NEW k \in G PROVE k + 1 \in G
  <2> SUFFICES ASSUME k + 1 <= n PROVE g[k + 1] \in S
    BY <1>11
  <2>1. k \in Nat /\ k + 1 \in 1 .. n /\ (k + 1) - 1 = k /\ g[k] \in S
    BY <1>11
  <2>2. g[k + 1] = g[k] + steps[k + 1]
    BY <1>9, <2>1
  <2> QED
    BY <1>2, <2>1, <2>2
<1>12. G = Nat
  <2>1. G \in SUBSET Nat
    OBVIOUS
  <2> HIDE DEF G
  <2> QED
    BY <1>10, <1>11, <2>1, NatSetInduction
<1>13. \A i \in 0 .. n : i \in G /\ i <= n
  <2> HIDE DEF G
  <2> QED
    BY <1>12
<1> QED
  BY <1>1, <1>9, <1>13 DEF S, Upward

LEMMA RunningRises ==
    ASSUME NEW base, NEW n, NEW steps, Summands(base, n, steps), NEW i, i \in 0 .. n, NEW j, j \in 0 .. n, i <= j
    PROVE  Running(base, steps)[i] <= Running(base, steps)[j]
<1> DEFINE g == Running(base, steps)
           G == {k \in Nat : i + k <= n => g[i] <= g[i + k]}
<1>1. (\A k \in 0 .. n : g[k] \in Nat) /\ \A k \in 1 .. n : g[k] = g[k - 1] + steps[k]
  BY RunningSum
<1> HIDE DEF g
<1> USE DEF Summands
<1>2. 0 \in G
  BY <1>1
<1>3. ASSUME NEW k \in G PROVE k + 1 \in G
  <2> SUFFICES ASSUME i + k + 1 <= n PROVE g[i] <= g[i + (k + 1)]
    BY <1>3
  <2>1. k \in Nat /\ i + (k + 1) \in 1 .. n /\ (i + (k + 1)) - 1 = i + k /\ i + k \in 0 .. n
        /\ g[i] <= g[i + k]
    BY <1>3
  <2>2. g[i + (k + 1)] = g[i + k] + steps[i + (k + 1)]
    BY <1>1, <2>1
  <2>3. steps[i + (k + 1)] \in Nat /\ g[i + k] \in Nat /\ g[i] \in Nat
    BY <1>1, <2>1
  <2> QED
    BY <2>1, <2>2, <2>3
<1>4. G = Nat
  <2>1. G \in SUBSET Nat
    OBVIOUS
  <2> HIDE DEF G
  <2> QED
    BY <1>2, <1>3, <2>1, NatSetInduction
<1>5. j - i \in G
  <2> HIDE DEF G
  <2> QED
    BY <1>4
<1>6. i + (j - i) = j
  OBVIOUS
<1> QED
  BY <1>5, <1>6 DEF g

(* A work rule whose breaks are of the kinds K and no shorter than least,  *)
(* and where it places them.                                               *)
AnyRule(K, least, rule) ==
    /\ rule.length \in Nat /\ rule.zones \in Nat \X Nat
    /\ rule.breaks \in Seq([kind : K, minutes : Nat])
    /\ least \in Nat /\ \A i \in DOMAIN rule.breaks : rule.breaks[i].minutes >= least

ARule(t, rule) == AnyRule(t.kinds.breaks, AuxMin, rule) /\ rule.length >= ShiftMin

LEMMA BreakSteps ==
    ASSUME NEW K, NEW least, NEW rule, AnyRule(K, least, rule)
    PROVE  /\ Len(rule.breaks) \in Nat /\ DOMAIN rule.breaks = 1 .. Len(rule.breaks)
           /\ \A i \in 1 .. Len(rule.breaks) :
                 /\ rule.breaks[i].minutes \in Nat /\ rule.breaks[i].minutes >= least
                 /\ rule.breaks[i].kind \in K
<1> DEFINE Breaks == [kind : K, minutes : Nat]
           b == rule.breaks
<1>1. b \in Seq(Breaks) /\ \A i \in DOMAIN b : b[i].minutes >= least
  BY DEF AnyRule
<1>2. \A x \in Breaks : x.minutes \in Nat /\ x.kind \in K
  OBVIOUS
<1> HIDE DEF Breaks, b
<1>3. Len(b) \in Nat /\ DOMAIN b = 1 .. Len(b) /\ \A i \in 1 .. Len(b) : b[i] \in Breaks
  BY <1>1
<1>4. \A i \in 1 .. Len(b) : b[i].minutes \in Nat /\ b[i].minutes >= least /\ b[i].kind \in K
  BY <1>1, <1>2, <1>3
<1> QED
  BY <1>3, <1>4 DEF b

LEMMA BreakMinutes ==
    ASSUME NEW K, NEW least, NEW rule, AnyRule(K, least, rule)
    PROVE  Minutes(rule) \in Nat
<1> DEFINE n == Len(rule.breaks)
           steps == [i \in DOMAIN rule.breaks |-> rule.breaks[i].minutes]
           zero == 0
<1>1. n \in Nat /\ DOMAIN rule.breaks = 1 .. n /\ \A i \in 1 .. n : rule.breaks[i].minutes \in Nat
  BY BreakSteps
<1>2. Minutes(rule) = Running(zero, steps)[n]
  BY DEF Minutes
<1> HIDE DEF n
<1>3. steps \in [1 .. n -> Nat]
  BY <1>1
<1>4. DOMAIN steps = 1 .. n
  BY <1>1
<1> HIDE DEF steps
<1>5. Len(steps) = n
  BY <1>1, <1>3, <1>4
<1>6. zero \in Nat /\ n \in 0 .. n
  BY <1>1
<1> HIDE DEF zero
<1>7. Summands(zero, n, steps)
  BY <1>1, <1>3, <1>5, <1>6 DEF Summands
<1> QED
  BY <1>2, <1>6, <1>7, RunningSum

(* Equal stretches of work, beside those that are as long as their zones,  *)
(* are on the grid and no longer than what there is to share.              *)
LEMMA ChunkLength ==
    ASSUME NEW K, NEW least, NEW rule, AnyRule(K, least, rule), NEW fix, fix \subseteq {1, 2}
    PROVE  LET zone(z) == IF z \in fix THEN rule.zones[z] ELSE 0
               work  == rule.length - Minutes(rule) - (zone(1) + zone(2))
               count == Len(rule.breaks) + 1 - Cardinality(fix)
           IN  /\ Chunk(rule, fix) \in Nat
               /\ 0 <= work /\ 1 <= count => count * Chunk(rule, fix) <= work
<1> DEFINE zone(z) == IF z \in fix THEN rule.zones[z] ELSE 0
           work  == rule.length - Minutes(rule) - (zone(1) + zone(2))
           count == Len(rule.breaks) + 1 - Cardinality(fix)
           long  == Max({0, work})
           many  == Max({1, count})
<1>1. Chunk(rule, fix) = (long \div (many * Grid)) * Grid
  BY DEF Chunk
<1>2. work \in Int
  <2>1. Minutes(rule) \in Nat
    BY BreakMinutes
  <2>2. rule.length \in Nat /\ rule.zones[1] \in Nat /\ rule.zones[2] \in Nat
    BY DEF AnyRule
  <2> QED
    BY <2>1, <2>2
<1>3. count \in Int
  <2>1. IsFiniteSet({1, 2})
    <3> DEFINE one == 1
               two == 2
    <3>1. {1, 2} = one .. two /\ one \in Int /\ two \in Int
      OBVIOUS
    <3> HIDE DEF one, two
    <3> QED
      BY <3>1, FS_Interval
  <2>2. Cardinality(fix) \in Nat
    BY <2>1, FS_Subset, FS_CardinalityType
  <2> QED
    BY <2>2, BreakSteps
<1> HIDE DEF work, count
<1>4. long = (IF 0 >= work THEN 0 ELSE work) /\ many = (IF 1 >= count THEN 1 ELSE count)
  BY <1>2, <1>3, MaxOfTwo
<1> HIDE DEF long, many
<1>5. Grid \in Nat /\ Grid > 0 /\ long \in Nat /\ many \in Nat /\ many > 0
  BY <1>2, <1>3, <1>4, GridAssumption
<1> DEFINE parts == many * Grid
<1>6. parts \in Nat /\ parts > 0
  BY <1>5
<1> DEFINE q == long \div parts
<1>7. q \in Nat /\ parts * q <= long
  <2> HIDE DEF parts
  <2> QED
    BY <1>5, <1>6
<1> HIDE DEF q
<1>8. q * Grid \in Nat /\ many * (q * Grid) = parts * q
  BY <1>5, <1>7
<1>9. Chunk(rule, fix) = q * Grid
  BY <1>1 DEF q
<1> HIDE DEF parts
<1>10. 0 <= work /\ 1 <= count => long = work /\ many = count
  BY <1>2, <1>3, <1>4
<1>11. 0 <= work /\ 1 <= count => count * Chunk(rule, fix) <= work
  BY <1>7, <1>8, <1>9, <1>10
<1> QED
  BY <1>8, <1>9, <1>11 DEF work, count

LEMMA BreaksPlaced ==
    ASSUME NEW K, NEW least, NEW rule, AnyRule(K, least, rule)
    PROVE  /\ PlaceBreaks(rule) \subseteq [id : Nat, kind : K, start : Nat, end : Nat] /\ Apart(PlaceBreaks(rule))
           /\ \A x \in PlaceBreaks(rule) :
                 x.start \in Nat /\ rule.zones[1] <= x.start /\ x.end - x.start >= least
<1> DEFINE n == Len(rule.breaks)
           b == rule.breaks
           fix == Widened(rule, Widened(rule, {}))
           chunk == Chunk(rule, fix)
           fixed == Widened(rule, fix)
           first == IF 1 \in fixed THEN rule.zones[1] ELSE chunk
           steps == [i \in DOMAIN b |-> b[i].minutes + chunk]
           next == Running(first, steps)
           block(i) == [id |-> i, kind |-> b[i].kind, start |-> next[i - 1],
                        end |-> next[i - 1] + b[i].minutes]
           all == {block(i) : i \in DOMAIN b}
           Rows == [id : Nat, kind : K, start : Nat, end : Nat]
<1>1. PlaceBreaks(rule) = IF rule.length <= Minutes(rule) THEN {} ELSE all
  BY DEF PlaceBreaks
<1> SUFFICES /\ all \subseteq Rows /\ Apart(all)
             /\ \A x \in all : x.start \in Nat /\ rule.zones[1] <= x.start /\ x.end - x.start >= least
  <2>1. {} \subseteq Rows /\ Apart({})
    BY DEF Apart
  <2> HIDE DEF all
  <2> QED
    BY <1>1, <2>1
<1>2. /\ n \in Nat /\ DOMAIN b = 1 .. n
      /\ \A i \in 1 .. n : b[i].minutes \in Nat /\ b[i].minutes >= least /\ b[i].kind \in K
  BY BreakSteps
<1>3. rule.zones[1] \in Nat
  BY DEF AnyRule
<1>4. chunk \in Nat
  <2>1. fix \subseteq {1, 2}
    BY DEF Widened
  <2> HIDE DEF fix
  <2> QED
    BY <2>1, ChunkLength
<1>5. 1 \notin fixed => rule.zones[1] <= chunk
  <2> HIDE DEF fix
  <2>1. fixed = fix \cup {z \in {1, 2} : rule.zones[z] > chunk}
    BY DEF Widened
  <2> HIDE DEF fixed, chunk
  <2> QED
    BY <1>3, <1>4, <2>1
<1> HIDE DEF fix, fixed
<1> HIDE DEF chunk
<1>6. first \in Nat /\ rule.zones[1] <= first
  BY <1>3, <1>4, <1>5
<1> HIDE DEF n, first
<1>7. steps \in [1 .. n -> Nat] /\ DOMAIN steps = 1 .. n /\ \A i \in 1 .. n : steps[i] = b[i].minutes + chunk
  BY <1>2, <1>4
<1> HIDE DEF steps
<1>8. Len(steps) = n
  BY <1>2, <1>7
<1>9. Summands(first, n, steps)
  BY <1>2, <1>6, <1>7, <1>8 DEF Summands
<1>10. (\A i \in 0 .. n : next[i] \in Nat /\ first <= next[i]) /\ \A i \in 1 .. n : next[i] = next[i - 1] + steps[i]
  BY <1>9, RunningSum
<1>11. \A i \in 0 .. n, j \in 0 .. n : i <= j => next[i] <= next[j]
  BY <1>9, RunningRises
<1> HIDE DEF next
<1>12. ASSUME NEW i \in 1 .. n
       PROVE  /\ i \in Nat /\ next[i - 1] \in Nat /\ rule.zones[1] <= next[i - 1]
              /\ b[i].minutes \in Nat /\ b[i].minutes >= least /\ b[i].kind \in K
              /\ next[i - 1] + b[i].minutes <= next[i] /\ next[i] \in Nat
  <2>1. i - 1 \in 0 .. n /\ i \in 0 .. n
    BY <1>2
  <2>2. next[i - 1] \in Nat /\ first <= next[i - 1] /\ next[i] = next[i - 1] + steps[i] /\ next[i] \in Nat
    BY <1>10, <2>1
  <2>3. b[i].minutes \in Nat /\ b[i].minutes >= least /\ b[i].kind \in K
    BY <1>2
  <2>4. rule.zones[1] <= next[i - 1]
    BY <1>3, <1>6, <2>2
  <2>5. steps[i] = b[i].minutes + chunk
    BY <1>7
  <2>6. next[i - 1] + b[i].minutes <= next[i]
    BY <1>4, <2>2, <2>3, <2>5
  <2> QED
    BY <1>2, <2>2, <2>3, <2>4, <2>6
<1>13. all \subseteq Rows
  <2>1. \A i \in 1 .. n : block(i) \in Rows
    BY <1>12
  <2> QED
    BY <1>2, <2>1
<1>14. Apart(all)
  <2> SUFFICES ASSUME NEW i \in 1 .. n, NEW j \in 1 .. n, i # j
               PROVE  block(i).end <= block(j).start \/ block(j).end <= block(i).start
    <3>1. \A x \in all : \E i \in 1 .. n : x = block(i)
      BY <1>2
    <3>2. \A i \in 1 .. n : block(i).id = i
      OBVIOUS
    <3> HIDE DEF all, block
    <3> QED
      BY <3>1, <3>2 DEF Apart
  <2>1. ASSUME NEW k \in 1 .. n, NEW m \in 1 .. n, k < m
        PROVE  block(k).end <= block(m).start
    <3>1. k \in 0 .. n /\ m - 1 \in 0 .. n /\ k <= m - 1
      BY <1>2, <2>1
    <3>2. next[k] <= next[m - 1]
      BY <1>11, <3>1
    <3> QED
      BY <1>12, <3>2
  <2> QED
    BY <1>2, <2>1
<1>15. \A x \in all : x.start \in Nat /\ rule.zones[1] <= x.start /\ x.end - x.start >= least
  BY <1>2, <1>12
<1> QED
  BY <1>13, <1>14, <1>15

(* The blocks of a layer, cut to a shift.                                  *)
CutTo(S, s, e) ==
    {x \in {[c EXCEPT !.start = Max({s, @}), !.end = Min({e, @})] : c \in S} : x.end > x.start}

LEMMA CutToFits ==
    ASSUME NEW t, NEW l, NEW S, LayerOf(t, l, S), Apart(S), NEW s, NEW e, s \in Int, e \in Int,
           0 <= s, e <= DayMinutes, l \in Inner
    PROVE  /\ LayerOf(t, l, CutTo(S, s, e)) /\ Fit(l, CutTo(S, s, e), s, e)
           /\ \A x \in CutTo(S, s, e) : \E c \in S : x.id = c.id
<1> DEFINE cut(c) == [c EXCEPT !.start = Max({s, @}), !.end = Min({e, @})]
           N == CutTo(S, s, e)
<1>1. N = {x \in {cut(c) : c \in S} : x.end > x.start}
  BY DEF CutTo
<1>2. ASSUME NEW c \in S
      PROVE  /\ cut(c) \in Blocks(t, l) /\ cut(c).id = c.id
             /\ c.start \in Int /\ c.end \in Int /\ cut(c).start \in Int /\ cut(c).end \in Int
             /\ s <= cut(c).start /\ c.start <= cut(c).start
             /\ cut(c).end <= e /\ cut(c).end <= c.end
  <2> DEFINE v == Max({s, c.start})
             w == Min({e, c.end})
  <2>1. c \in Blocks(t, l) /\ c.id \in Nat /\ c.start \in Int /\ c.end \in Int
    BY TeamBlock DEF LayerOf
  <2>2. v \in Int /\ s <= v /\ c.start <= v /\ w \in Int /\ w <= e /\ w <= c.end
    BY <2>1, MaxOfTwo, MinOfTwo
  <2>3. cut(c) = [c EXCEPT !.start = v, !.end = w]
    BY <2>1 DEF Blocks
  <2> HIDE DEF v, w, cut
  <2>4. cut(c) \in Blocks(t, l) /\ cut(c).id = c.id /\ cut(c).start = v /\ cut(c).end = w
    BY <2>1, <2>2, <2>3 DEF Blocks
  <2> QED
    BY <2>1, <2>2, <2>4
<1> HIDE DEF cut, N
<1>3. \A x \in N : \E c \in S : x = cut(c) /\ x.start < x.end
  <2>1. \A c \in S : cut(c).start \in Int /\ cut(c).end \in Int
    BY <1>2
  <2> QED
    BY <1>1, <2>1
<1>4. LayerOf(t, l, N)
  BY <1>2, <1>3 DEF LayerOf
<1>5. Apart(N)
  <2> SUFFICES ASSUME NEW c \in S, NEW d \in S, cut(c) \in N, cut(d) \in N, cut(c) # cut(d)
               PROVE  /\ cut(c).id # cut(d).id
                      /\ cut(c).end <= cut(d).start \/ cut(d).end <= cut(c).start
    BY <1>3 DEF Apart
  <2>1. c.id # d.id /\ (c.end <= d.start \/ d.end <= c.start)
    BY DEF Apart
  <2> QED
    BY <1>2, <2>1
<1>6. \A x \in N : x.start < x.end /\ 0 <= x.start /\ x.end <= DayMinutes /\ s <= x.start /\ x.end <= e
  BY <1>2, <1>3, Lengths
<1>7. Fit(l, N, s, e)
  BY <1>5, <1>6 DEF Fit
<1> QED
  BY <1>2, <1>3, <1>4, <1>7 DEF N

(* A layer of blocks within a shift, each stretched to the end of the one  *)
(* before it.                                                              *)
Stretched(K, s, e) ==
    {[c EXCEPT !.start = Max({s} \cup EndsUpTo(K, c.start)),
               !.end = IF \A x \in K : x.end <= c.end THEN e ELSE @] : c \in K}

LEMMA StretchFits ==
    ASSUME NEW t, NEW K, LayerOf(t, "channels", K), NEW s, NEW e, s \in Int, e \in Int,
           Fit("channels", K, s, e), 0 <= s, e <= DayMinutes
    PROVE  LayerOf(t, "channels", Stretched(K, s, e)) /\ Fit("channels", Stretched(K, s, e), s, e)
<1> DEFINE from(c) == Max({s} \cup EndsUpTo(K, c.start))
           last(c) == \A x \in K : x.end <= c.end
           to(c) == IF last(c) THEN e ELSE c.end
           full(c) == [c EXCEPT !.start = from(c), !.end = to(c)]
           N == Stretched(K, s, e)
<1>1. /\ \A c \in K : /\ c \in Blocks(t, "channels") /\ c.start \in Int /\ c.end \in Int
                      /\ s <= c.start /\ c.start < c.end /\ c.end <= e
      /\ Apart(K)
  BY TeamBlock DEF LayerOf, Fit, Inner
<1>2. ASSUME NEW c \in K
      PROVE  /\ from(c) \in Int /\ s <= from(c) /\ from(c) <= c.start
             /\ \A y \in K : y.end <= c.start => y.end <= from(c)
  BY <1>1, RoomBefore
<1>3. ASSUME NEW c \in K PROVE to(c) \in Int /\ c.end <= to(c) /\ to(c) <= e
  <2> HIDE DEF last
  <2> QED
    BY <1>1
<1>4. N = {full(c) : c \in K}
  BY <1>1 DEF Stretched, Blocks
<1> HIDE DEF N, from
<1>5. \A c \in K, d \in K : c.end <= d.start => to(c) = c.end
  BY <1>1
<1> HIDE DEF to
<1>6. ASSUME NEW c \in K
      PROVE  /\ full(c) \in Blocks(t, "channels") /\ full(c).id = c.id
             /\ full(c).start = from(c) /\ full(c).end = to(c)
  BY <1>1, <1>2, <1>3 DEF Blocks
<1> HIDE DEF full
<1>7. LayerOf(t, "channels", N)
  BY <1>4, <1>6 DEF LayerOf
<1>8. Apart(N)
  <2> SUFFICES ASSUME NEW c \in K, NEW d \in K, full(c) # full(d)
               PROVE  /\ full(c).id # full(d).id
                      /\ full(c).end <= full(d).start \/ full(d).end <= full(c).start
    BY <1>4 DEF Apart
  <2>1. c.id # d.id /\ (c.end <= d.start \/ d.end <= c.start)
    BY <1>1 DEF Apart
  <2> QED
    BY <1>2, <1>5, <1>6, <2>1
<1>9. \A x \in N : x.start < x.end /\ 0 <= x.start /\ x.end <= DayMinutes /\ s <= x.start /\ x.end <= e
  <2>1. \A c \in K : /\ full(c).start < full(c).end /\ 0 <= full(c).start /\ full(c).end <= DayMinutes
                     /\ s <= full(c).start /\ full(c).end <= e
    BY <1>1, <1>2, <1>3, <1>6, Lengths
  <2> QED
    BY <1>4, <2>1
<1>10. Fit("channels", N, s, e)
  BY <1>8, <1>9 DEF Fit, Inner
<1> QED
  BY <1>7, <1>10 DEF N

LEMMA ChannelsFitted ==
    ASSUME NEW t, NEW S, LayerOf(t, "channels", S), NEW s0, NEW e0, Fit("channels", S, s0, e0),
           NEW s, NEW e, s \in Int, e \in Int, 0 <= s, s < e, e <= DayMinutes
    PROVE  LayerOf(t, "channels", FitChannels(S, s, e)) /\ Fit("channels", FitChannels(S, s, e), s, e)
<1> DEFINE K == CutTo(S, s, e)
           first == {c \in S : \A x \in S : c.start <= x.start}
           one == [id |-> 1, start |-> s, end |-> e,
                   kind |-> IF first = {} THEN DefaultChannel ELSE (CHOOSE c \in first : TRUE).kind]
<1>1. FitChannels(S, s, e) = IF K = {} THEN {one} ELSE Stretched(K, s, e)
  BY DEF FitChannels, CutTo, Stretched, EndsUpTo
<1>2. LayerOf(t, "channels", K) /\ Fit("channels", K, s, e)
  BY CutToFits DEF Fit, Inner
<1> HIDE DEF K
<1>3. LayerOf(t, "channels", Stretched(K, s, e)) /\ Fit("channels", Stretched(K, s, e), s, e)
  BY <1>2, StretchFits
<1>4. one \in Blocks(t, "channels")
  <2>1. first # {} => (CHOOSE c \in first : TRUE) \in S
    OBVIOUS
  <2>2. \A c \in S : c.kind \in t.kinds["channels"] \cup WrittenKinds("channels")
    BY DEF LayerOf, Blocks
  <2>3. DefaultChannel \in WrittenKinds("channels")
    BY DEF WrittenKinds
  <2> QED
    BY <2>1, <2>2, <2>3 DEF Blocks
<1>5. one.start = s /\ one.end = e
  OBVIOUS
<1> HIDE DEF one
<1>6. LayerOf(t, "channels", {one}) /\ Fit("channels", {one}, s, e)
  BY <1>4, <1>5, Lengths DEF LayerOf, Fit, Inner, Apart
<1> QED
  BY <1>1, <1>3, <1>6

(* A pattern for an agent whose day has the pattern's no-break zones.      *)
PatternFor(t, day, p) ==
    /\ p.start \in Int /\ p.end \in Int /\ 0 <= p.start /\ p.start < p.end /\ p.end <= DayMinutes
    /\ LayerOf(t, "breaks", p.breaks) /\ Apart(p.breaks)
    /\ \A b \in p.breaks : b.start \in Nat /\ day.noBreak[1] <= b.start /\ b.end - b.start >= AuxMin
    /\ p.noBreak = day.noBreak

LEMMA PatternOfRule ==
    ASSUME NEW t, NEW day, NEW rule, ARule(t, rule), NEW start, start \in Nat, start < DayMinutes,
           day.noBreak = rule.zones
    PROVE  PatternFor(t, day, WorkRulePattern(rule, start))
<1> DEFINE p == WorkRulePattern(rule, start)
           to == start + rule.length
<1>1. rule.length \in Nat /\ rule.length >= ShiftMin /\ ShiftMin > 0 /\ ShiftMin \in Nat /\ DayMinutes \in Nat
  BY Lengths DEF ARule, AnyRule
<1>2. to \in Int /\ start < to /\ start \in Int
  BY <1>1
<1>3. /\ p.start = start /\ p.end = Min({DayMinutes, to})
      /\ p.breaks = PlaceBreaks(rule) /\ p.noBreak = rule.zones
  BY DEF WorkRulePattern
<1> HIDE DEF p, to
<1>4. p.end \in Int /\ start < p.end /\ p.end <= DayMinutes
  BY <1>1, <1>2, <1>3, MinOfTwo
<1>5. /\ LayerOf(t, "breaks", PlaceBreaks(rule)) /\ Apart(PlaceBreaks(rule))
      /\ \A x \in PlaceBreaks(rule) :
            x.start \in Nat /\ rule.zones[1] <= x.start /\ x.end - x.start >= AuxMin
  <2>1. AnyRule(t.kinds.breaks, AuxMin, rule)
    BY DEF ARule
  <2>2. [id : Nat, kind : t.kinds.breaks, start : Nat, end : Nat] \subseteq Blocks(t, "breaks")
    BY DEF Blocks
  <2> QED
    BY <2>1, <2>2, BreaksPlaced DEF LayerOf
<1> QED
  BY <1>2, <1>3, <1>4, <1>5 DEF PatternFor, p

LEMMA PatternBreaks ==
    ASSUME NEW t, NEW day, Ready(t, day), NEW p, PatternFor(t, day, p)
    PROVE  LET N == Shifted(p.breaks, p.start)
           IN  /\ LayerOf(t, "breaks", N) /\ \A b \in N : b.end - b.start >= AuxMin
               /\ ~CutAtMidnight(p) =>
                     /\ Fit("breaks", N, p.start, p.end) /\ p.end - p.start >= ShiftMin
                     /\ \A b \in N : /\ b.start \in Int /\ b.end \in Int
                                     /\ b.start - p.start >= day.noBreak[1]
                                     /\ p.end - b.end >= day.noBreak[2]
<1> DEFINE N == Shifted(p.breaks, p.start)
           s == p.start
           e == p.end
<1>1. /\ LayerOf(t, "breaks", N)
      /\ \A y \in N : \E x \in p.breaks : y.id = x.id /\ y.start = x.start + s /\ y.end = x.end + s
  BY ShiftedBlocks DEF PatternFor
<1>2. /\ s \in Int /\ e \in Int /\ 0 <= s /\ e <= DayMinutes /\ DayMinutes \in Nat
      /\ \A x \in p.breaks : /\ x.id \in Nat /\ x.start \in Nat /\ x.end \in Int /\ day.noBreak[1] <= x.start
                             /\ x.end - x.start >= AuxMin
  BY TeamBlock, Lengths DEF PatternFor, LayerOf
<1>3. AuxMin \in Nat /\ AuxMin > 0 /\ ShiftMin \in Nat /\ day.noBreak[1] \in Nat /\ day.noBreak[2] \in Nat
  BY Lengths, DayNumbers DEF Ready
<1> HIDE DEF N
<1>4. \A b \in N : b.end - b.start >= AuxMin
  BY <1>1, <1>2
<1>5. ASSUME ~CutAtMidnight(p)
      PROVE  /\ Fit("breaks", N, s, e) /\ e - s >= ShiftMin
             /\ \A b \in N : /\ b.start \in Int /\ b.end \in Int
                             /\ b.start - s >= day.noBreak[1] /\ e - b.end >= day.noBreak[2]
  <2>1. e - s >= ShiftMin /\ \A x \in p.breaks : s + x.end <= e - day.noBreak[2]
    <3>1. p.noBreak = day.noBreak
      BY DEF PatternFor
    <3>2. ~(e - s < ShiftMin) /\ \A x \in p.breaks : ~(s + x.end > e - day.noBreak[2])
      BY <1>5, <3>1 DEF CutAtMidnight
    <3> QED
      BY <1>2, <1>3, <3>2
  <2>2. \A b \in N : /\ b.start \in Int /\ b.end \in Int
                     /\ b.start - s >= day.noBreak[1] /\ e - b.end >= day.noBreak[2]
                     /\ b.start < b.end /\ s <= b.start /\ b.end <= e
    BY <1>1, <1>2, <1>3, <2>1
  <2> DEFINE none == 0
             long == e - s
  <2>3. none \in Int /\ long \in Int /\ none + s = s /\ long + s = e
    BY <1>2
  <2>4. Fit("breaks", p.breaks, none, long)
    <3>1. \A x \in p.breaks : x.start < x.end /\ 0 <= x.start /\ x.end <= DayMinutes /\ x.end <= long
      BY <1>2, <1>3, <2>1
    <3> QED
      BY <3>1 DEF Fit, Inner, PatternFor
  <2>5. \A x \in p.breaks : 0 <= x.start + s /\ x.end + s <= DayMinutes
    BY <1>2, <1>3, <2>1
  <2> HIDE DEF none, long
  <2>6. Fit("breaks", N, none + s, long + s)
    <3>1. "breaks" \in Layers /\ LayerOf(t, "breaks", p.breaks)
      BY DEF Layers, Inner, PatternFor
    <3> QED
      BY <1>2, <2>3, <2>4, <2>5, <3>1, ShiftedFits DEF N
  <2> QED
    BY <2>1, <2>2, <2>3, <2>6
<1> QED
  BY <1>1, <1>4, <1>5 DEF N

(* A day with another shift and other blocks in every layer.               *)
Rebuilt(day, s, e, channels, breaks, activities, ot) ==
    [day EXCEPT !.start = s, !.end = e, !.channels = channels, !.breaks = breaks,
                !.activities = activities, !.ot = ot]

LEMMA RebuiltDay ==
    ASSUME NEW t, NEW day, Ready(t, day), NEW s, NEW e, s \in Int, e \in Int,
           NEW channels, LayerOf(t, "channels", channels), NEW breaks, LayerOf(t, "breaks", breaks),
           NEW activities, LayerOf(t, "activities", activities), NEW ot, LayerOf(t, "ot", ot)
    PROVE  LET d == Rebuilt(day, s, e, channels, breaks, activities, ot)
           IN  /\ d \in TeamDays(t) /\ d.noBreak = day.noBreak /\ d.start = s /\ d.end = e
               /\ d.channels = channels /\ d.breaks = breaks /\ d.activities = activities /\ d.ot = ot
BY DEF Rebuilt, TeamDays, LayerOf, Ready

(* The activities of a day on a new shift, with or without a week off.     *)
FittedActivities(day, s, e, off) ==
    CutTo({z \in day.activities : z.id # WeekOffId}, s, e)
       \cup {x \in {[id |-> WeekOffId, kind |-> Off, start |-> s, end |-> e]} : off}

OffOver(N) == (\E x \in N : x.kind = Off) /\ Overlapping(N)

LEMMA ActivitiesFitted ==
    ASSUME NEW t, NEW day, Ready(t, day), NEW s, NEW e, s \in Int, e \in Int,
           0 <= s, s < e, e <= DayMinutes, NEW off
    PROVE  LET N == FittedActivities(day, s, e, off)
           IN  /\ LayerOf(t, "activities", N)
               /\ Fit("activities", N, s, e) \/ OffOver(N)
<1> DEFINE S == {z \in day.activities : z.id # WeekOffId}
           K == CutTo(S, s, e)
           week == [id |-> WeekOffId, kind |-> Off, start |-> s, end |-> e]
           N == FittedActivities(day, s, e, off)
<1>1. N = K \cup {x \in {week} : off}
  BY DEF FittedActivities
<1>2. LayerOf(t, "activities", S) /\ Apart(S) /\ \A x \in S : x.id # WeekOffId
  <2>1. /\ day.activities \in SUBSET Blocks(t, "activities")
        /\ Fit("activities", day.activities, day.start, day.end)
    BY TeamDay, ValidLayers DEF Ready, Layers, Inner
  <2> QED
    BY <2>1 DEF LayerOf, Fit, Apart
<1> HIDE DEF S
<1>3. /\ LayerOf(t, "activities", K) /\ Fit("activities", K, s, e) /\ \A x \in K : x.id # WeekOffId
  <2>1. "activities" \in Inner
    BY DEF Inner
  <2>2. /\ LayerOf(t, "activities", K) /\ Fit("activities", K, s, e)
        /\ \A x \in K : \E c \in S : x.id = c.id
    BY <1>2, <2>1, CutToFits
  <2> QED
    BY <1>2, <2>2
<1> HIDE DEF K, N
<1>4. /\ week \in Blocks(t, "activities") /\ week.id = WeekOffId /\ week.kind = Off
      /\ week.start = s /\ week.end = e
  BY DEF Blocks, WrittenKinds, WeekOffId
<1> HIDE DEF week
<1>5. LayerOf(t, "activities", N)
  BY <1>1, <1>3, <1>4 DEF LayerOf
<1>6. CASE ~off
  <2>1. N = K
    BY <1>1, <1>6
  <2> QED
    BY <1>3, <2>1 DEF N
<1>7. CASE off /\ K = {}
  <2>1. N = {week}
    BY <1>1, <1>7
  <2>2. Fit("activities", {week}, s, e)
    BY <1>4, Lengths DEF Fit, Apart, Inner
  <2> QED
    BY <1>5, <2>1, <2>2 DEF N
<1>8. CASE off /\ K # {}
  <2>1. PICK x \in K : TRUE
    BY <1>8
  <2>2. /\ x.start \in Int /\ x.end \in Int /\ x.start < x.end /\ s <= x.start /\ x.end <= e
        /\ x.id # WeekOffId
    BY <1>3, TeamBlock DEF LayerOf, Fit, Inner
  <2>3. week \in N /\ x \in N /\ week # x
    BY <1>1, <1>4, <1>8, <2>2
  <2>4. week.start < x.end /\ x.start < week.end
    BY <1>4, <2>2
  <2> QED
    <3>1. OffOver(N)
      BY <1>4, <2>3, <2>4 DEF Overlapping, OffOver
    <3> QED
      BY <1>5, <3>1 DEF N
<1> QED
  BY <1>6, <1>7, <1>8

(* What an alignment with the patterns P makes of a day.                   *)
Aligned(t, day, P, d) ==
    /\ d \in TeamDays(t) /\ d.noBreak = day.noBreak /\ LongBreaks(d)
    /\ (\A p \in P : ~CutAtMidnight(p)) =>
          /\ ValidDay(d) \/ OffOverActivity(d)
          /\ Outward(day, d)

LEMMA ShiftAligned ==
    ASSUME NEW t, NEW day, Ready(t, day), NEW off, NEW s, NEW e, s \in Int, e \in Int,
           0 <= s, s < e, e <= DayMinutes, NEW channels, NEW breaks,
           LayerOf(t, "channels", channels), Fit("channels", channels, s, e), LayerOf(t, "breaks", breaks),
           NEW d, d = Rebuilt(day, s, e, channels, breaks, FittedActivities(day, s, e, off),
                              {o \in day.ot : o.end <= s \/ o.start >= e})
    PROVE  /\ d \in TeamDays(t) /\ d.noBreak = day.noBreak /\ d.breaks = breaks /\ d.start = s /\ d.end = e
           /\ e - s >= ShiftMin /\ Fit("breaks", breaks, s, e) => ValidDay(d) \/ OffOverActivity(d)
<1> DEFINE activities == FittedActivities(day, s, e, off)
           ot == {o \in day.ot : o.end <= s \/ o.start >= e}
<1>1. /\ LayerOf(t, "activities", activities)
      /\ Fit("activities", activities, s, e) \/ OffOver(activities)
  BY ActivitiesFitted
<1>2. LayerOf(t, "ot", ot) /\ Fit("ot", ot, s, e)
  <2>1. /\ day.ot \in SUBSET Blocks(t, "ot") /\ Fit("ot", day.ot, day.start, day.end)
    BY TeamDay, ValidLayers DEF Ready, Layers, Inner
  <2>2. \A o \in day.ot : o.start \in Int /\ o.end \in Int
    BY <2>1, TeamBlock
  <2>3. LayerOf(t, "ot", ot)
    BY <2>1 DEF LayerOf
  <2> QED
    BY <2>1, <2>2, <2>3 DEF Fit, Apart, Inner
<1> HIDE DEF activities, ot
<1>3. /\ d \in TeamDays(t) /\ d.noBreak = day.noBreak /\ d.start = s /\ d.end = e
      /\ d.channels = channels /\ d.breaks = breaks /\ d.activities = activities /\ d.ot = ot
  <2>1. d = Rebuilt(day, s, e, channels, breaks, activities, ot)
    BY DEF activities, ot
  <2> QED
    BY <1>1, <1>2, <2>1, RebuiltDay
<1>4. ASSUME e - s >= ShiftMin, Fit("breaks", breaks, s, e)
      PROVE  ValidDay(d) \/ OffOverActivity(d)
  <2>1. Frame(s, e)
    BY <1>4 DEF Frame
  <2>2. Fit("activities", activities, s, e) => ValidDay(d)
    BY <1>2, <1>3, <1>4, <2>1, ValidLayers
  <2>3. OffOver(activities) => OffOverActivity(d)
    BY <1>3 DEF OffOver, OffOverActivity, IsWeekOff
  <2> QED
    BY <1>1, <2>2, <2>3
<1> QED
  BY <1>3, <1>4

LEMMA RuleApplied ==
    ASSUME NEW t, NEW day, Ready(t, day), NEW P, \A p \in P : PatternFor(t, day, p), NEW off
    PROVE  Aligned(t, day, P, ApplyWorkRule(day, P, off))
<1> DEFINE p == CHOOSE x \in P : TRUE
           s == IF P = {} THEN day.start ELSE p.start
           e == IF P = {} THEN day.end ELSE p.end
           breaks == IF P = {} THEN day.breaks ELSE Shifted(p.breaks, s)
           channels == IF day.start = s /\ day.end = e THEN day.channels ELSE FitChannels(day.channels, s, e)
           ot == {o \in day.ot : o.end <= s \/ o.start >= e}
           d == ApplyWorkRule(day, P, off)
<1>1. d = Rebuilt(day, s, e, channels, breaks, FittedActivities(day, s, e, off), ot)
  BY DEF ApplyWorkRule, Rebuilt, FittedActivities, CutTo
<1>2. /\ LayerOf(t, "channels", day.channels) /\ LayerOf(t, "breaks", day.breaks)
      /\ Fit("channels", day.channels, day.start, day.end) /\ Fit("breaks", day.breaks, day.start, day.end)
      /\ day \in TeamDays(t)
  BY TeamDay, ValidLayers DEF Ready, Layers, Inner, LayerOf
<1>3. /\ day.start \in Int /\ day.end \in Int /\ 0 <= day.start /\ day.start < day.end
      /\ day.end <= DayMinutes /\ day.end - day.start >= ShiftMin
  BY DayNumbers DEF Ready
<1>4. P # {} => p \in P /\ PatternFor(t, day, p)
  OBVIOUS
<1> HIDE DEF p
<1>5. s \in Int /\ e \in Int /\ 0 <= s /\ s < e /\ e <= DayMinutes
  BY <1>3, <1>4 DEF PatternFor
<1>6. LayerOf(t, "channels", channels) /\ Fit("channels", channels, s, e)
  <2>1. LayerOf(t, "channels", FitChannels(day.channels, s, e)) /\ Fit("channels", FitChannels(day.channels, s, e), s, e)
    <3> HIDE DEF s, e
    <3> QED
      BY <1>2, <1>5, ChannelsFitted
  <2> HIDE DEF s, e
  <2> QED
    BY <1>2, <2>1
<1>7. LayerOf(t, "breaks", breaks) /\ \A b \in breaks : b.end - b.start >= AuxMin
  <2>1. CASE P = {}
    BY <1>2, <2>1 DEF Ready, LongBreaks
  <2>2. CASE P # {}
    <3>1. breaks = Shifted(p.breaks, p.start)
      BY <2>2
    <3> HIDE DEF breaks
    <3> QED
      BY <1>4, <2>2, <3>1, PatternBreaks
  <2> QED
    BY <2>1, <2>2
<1>8. ASSUME \A x \in P : ~CutAtMidnight(x)
      PROVE  /\ e - s >= ShiftMin /\ Fit("breaks", breaks, s, e)
             /\ P # {} => \A b \in breaks : /\ b.start \in Int /\ b.end \in Int
                                            /\ b.start - s >= day.noBreak[1] /\ e - b.end >= day.noBreak[2]
  <2>1. CASE P = {}
    BY <1>2, <1>3, <2>1
  <2>2. CASE P # {}
    <3>1. breaks = Shifted(p.breaks, p.start) /\ s = p.start /\ e = p.end /\ ~CutAtMidnight(p)
      BY <1>4, <1>8, <2>2
    <3> HIDE DEF breaks, s, e
    <3> QED
      BY <1>4, <2>2, <3>1, PatternBreaks
  <2> QED
    BY <2>1, <2>2
<1>9. P = {} => s = day.start /\ e = day.end /\ breaks = day.breaks
  OBVIOUS
<1> HIDE DEF d, s, e, breaks, channels
<1>10. /\ d \in TeamDays(t) /\ d.noBreak = day.noBreak /\ d.breaks = breaks /\ d.start = s /\ d.end = e
       /\ e - s >= ShiftMin /\ Fit("breaks", breaks, s, e) => ValidDay(d) \/ OffOverActivity(d)
  BY <1>1, <1>5, <1>6, <1>7, ShiftAligned
<1>11. ASSUME \A x \in P : ~CutAtMidnight(x) PROVE Outward(day, d)
  <2>1. CASE P = {}
    BY <1>2, <1>9, <1>10, <2>1, BreaksKept
  <2>2. CASE P # {}
    <3>1. \A b \in breaks : /\ b.start \in Int /\ b.end \in Int
                            /\ b.start - s >= day.noBreak[1] /\ e - b.end >= day.noBreak[2]
      BY <1>8, <1>11, <2>2
    <3>2. day.noBreak[1] \in Nat /\ day.noBreak[2] \in Nat
      BY DayNumbers DEF Ready
    <3> QED
      BY <1>5, <1>10, <3>1, <3>2 DEF Outward
  <2> QED
    BY <2>1, <2>2
<1>12. LongBreaks(d)
  BY <1>7, <1>10 DEF LongBreaks
<1>13. Aligned(t, day, P, d)
  BY <1>8, <1>10, <1>11, <1>12 DEF Aligned
<1> QED
  BY <1>13 DEF d

-----------------------------------------------------------------------------
(* The invariant, and what a step makes of each agent's day                *)

(* Days of the team's agents whose breaks are never shorter than a break   *)
(* may be, and whose no-break zones are those of their rules.              *)
EditsInv ==
    /\ EditsTypeOK
    /\ \A a \in Staff : /\ LongBreaks(stored[a])
                        /\ \A x \in team.rules[a] : stored[a].noBreak = x.rule.zones

(* An agent's day before a step, when every day is valid.                  *)
Editable == EditsInv /\ \A a \in Staff : ValidDay(stored[a])

(* What a step makes of a day whose agent has the patterns P.              *)
Stepped(t, day, P, d) ==
    /\ d \in TeamDays(t) /\ d.noBreak = day.noBreak /\ LongBreaks(d)
    /\ ~HasShort(day) => ValidDay(d) \/ OffOverActivity(d) \/ \E p \in P : CutAtMidnight(p)
    /\ (\A p \in P : ~CutAtMidnight(p)) => Outward(day, d)

AllStepped ==
    /\ team' = team /\ stored' \in [Staff -> TeamDays(team)]
    /\ \A a \in Staff : Stepped(team, stored[a], Patterns(a), stored'[a])

LEMMA EditedSteps ==
    ASSUME NEW t, NEW day, NEW P, NEW d, Edited(t, day, d) \/ Aligned(t, day, P, d)
    PROVE  Stepped(t, day, P, d)
BY DEF Edited, Aligned, Stepped

LEMMA Untouched ==
    ASSUME NEW t, NEW day, Ready(t, day)
    PROVE  Edited(t, day, day)
<1>1. day \in TeamDays(t) /\ ValidDay(day) /\ LongBreaks(day)
  BY DEF Ready
<1>2. Outward(day, day)
  BY <1>1, BreaksKept
<1> QED
  BY <1>1, <1>2 DEF Edited

LEMMA EditableDays ==
    ASSUME Editable
    PROVE  /\ team \in Teams /\ stored \in [Staff -> TeamDays(team)]
           /\ \A a \in Staff : Ready(team, stored[a])
BY DEF Editable, EditsInv, EditsTypeOK, Ready

(* New days are edited or aligned.                                         *)
Results(results) ==
    \A a \in Staff : a \in DOMAIN results =>
        \/ Edited(team, stored[a], results[a])
        \/ Aligned(team, stored[a], Patterns(a), results[a])

LEMMA Committed ==
    ASSUME Editable, NEW results, Results(results), CommitDays(results)
    PROVE  AllStepped
<1> DEFINE day(a) == IF a \in DOMAIN results THEN results[a] ELSE stored[a]
<1>1. stored' = [a \in Staff |-> day(a)] /\ team' = team
  BY DEF CommitDays
<1>2. \A a \in Staff : Ready(team, stored[a])
  BY EditableDays
<1>3. ASSUME NEW a \in Staff PROVE Stepped(team, stored[a], Patterns(a), day(a))
  <2>1. Edited(team, stored[a], stored[a])
    BY <1>2, Untouched
  <2>2. Edited(team, stored[a], day(a)) \/ Aligned(team, stored[a], Patterns(a), day(a))
    BY <2>1 DEF Results
  <2> HIDE DEF day
  <2> QED
    BY <2>2, EditedSteps
<1>4. \A a \in Staff : day(a) \in TeamDays(team)
  BY <1>3 DEF Stepped
<1> HIDE DEF day
<1>5. stored' \in [Staff -> TeamDays(team)] /\ \A a \in Staff : stored'[a] = day(a)
  BY <1>1, <1>4
<1> QED
  BY <1>1, <1>3, <1>5 DEF AllStepped

LEMMA ShiftsMoved ==
    ASSUME Editable, NEW K \in SUBSET Staff, NEW delta, delta \in Int, Move(K, delta)
    PROVE  AllStepped
<1> DEFINE results == [a \in K |-> MoveDay(stored[a], delta)]
<1>1. \A a \in Staff : Ready(team, stored[a])
  BY EditableDays
<1>2. \A a \in K : Edited(team, stored[a], MoveDay(stored[a], delta))
  BY <1>1, DayMoved
<1>3. DOMAIN results = K /\ \A a \in K : results[a] = MoveDay(stored[a], delta)
  OBVIOUS
<1>4. CommitDays(results)
  BY DEF Move
<1> HIDE DEF results
<1>5. Results(results)
  BY <1>2, <1>3 DEF Results
<1> QED
  BY <1>4, <1>5, Committed

LEMMA ShiftsResized ==
    ASSUME Editable, NEW K \in SUBSET Staff, NEW edge, edge \in {"start", "end"},
           NEW delta, delta \in Int, Resize(K, edge, delta)
    PROVE  AllStepped
<1> DEFINE op == [layer |-> "shift", id |-> 0, drag |-> edge]
           d(a) == ApplyEdit(stored[a], op, stored[a][edge] + delta)
           results == [a \in K |-> d(a)]
<1>1. \A a \in Staff : Ready(team, stored[a])
  BY EditableDays
<1>2. op.layer = "shift" /\ op.drag = edge
  OBVIOUS
<1>3. CommitDays(results)
  BY DEF Resize
<1> HIDE DEF op
<1>4. ASSUME NEW a \in K PROVE Edited(team, stored[a], d(a))
  <2> DEFINE value == stored[a][edge] + delta
  <2>1. value \in Int
    <3>1. stored[a].start \in Int /\ stored[a].end \in Int
      BY <1>1, TeamDay DEF Ready
    <3> QED
      BY <3>1
  <2>2. AnOp(op) /\ HasBlock(stored[a], op)
    BY <1>2 DEF AnOp, HasBlock
  <2> HIDE DEF value
  <2>3. Edited(team, stored[a], ApplyEdit(stored[a], op, value))
    BY <1>1, <2>1, <2>2, EditApplied
  <2> QED
    BY <2>3 DEF value
<1>5. DOMAIN results = K /\ \A a \in K : results[a] = d(a)
  OBVIOUS
<1> HIDE DEF results, d
<1>6. Results(results)
  BY <1>4, <1>5 DEF Results
<1> QED
  BY <1>3, <1>6, Committed

LEMMA BlocksDragged ==
    ASSUME Editable, NEW K \in SUBSET Staff, NEW main \in K, NEW op \in Ops, NEW delta, delta \in Int,
           Drag(main, K, op, delta)
    PROVE  AllStepped
<1> DEFINE value(a, o) == EditValue(stored[a], o) + delta
           eq(a) == EquivalentOps(stored[main], op, stored[a])
           followers == {a \in K \ {main} : eq(a) # {}}
           the(a) == CHOOSE x \in eq(a) : TRUE
           own == ApplyEdit(stored[main], op, value(main, op))
           follow(a) == ApplyEdit(stored[a], the(a), value(a, the(a)))
           results == [a \in followers \cup {main} |-> IF a = main THEN own ELSE follow(a)]
<1>1. team \in Teams /\ \A a \in Staff : Ready(team, stored[a])
  BY EditableDays
<1>2. AnOp(op) /\ HasBlock(stored[main], op)
  BY <1>1, OpKinds DEF AnOp, Drag
<1>3. CommitDays(results)
  BY DEF Drag
<1>4. ASSUME NEW a \in Staff, NEW o, AnOp(o), HasBlock(stored[a], o)
      PROVE  Edited(team, stored[a], ApplyEdit(stored[a], o, value(a, o)))
  <2>1. EditValue(stored[a], o) \in Int
    BY <1>1, <1>4, EditedValue
  <2>2. value(a, o) \in Int
    BY <2>1
  <2> HIDE DEF value
  <2> QED
    BY <1>1, <1>4, <2>2, EditApplied
<1>5. Edited(team, stored[main], own)
  <2> HIDE DEF value
  <2> QED
    BY <1>2, <1>4
<1>6. ASSUME NEW a \in followers PROVE Edited(team, stored[a], follow(a))
  <2>1. a \in Staff /\ the(a) \in eq(a)
    OBVIOUS
  <2> HIDE DEF the
  <2>2. AnOp(the(a)) /\ HasBlock(stored[a], the(a))
    BY <1>1, <1>2, <2>1, SameEdit
  <2> HIDE DEF value
  <2> QED
    BY <1>4, <2>1, <2>2
<1>7. /\ DOMAIN results = followers \cup {main} /\ results[main] = own
      /\ \A a \in followers : a # main /\ results[a] = follow(a)
  <2> HIDE DEF own, follow
  <2>1. main \notin followers
    OBVIOUS
  <2> HIDE DEF followers
  <2> QED
    BY <2>1
<1> HIDE DEF results, own, follow, followers
<1>8. Results(results)
  BY <1>5, <1>6, <1>7 DEF Results
<1> QED
  BY <1>3, <1>8, Committed

LEMMA TeamsData ==
    ASSUME team \in Teams
    PROVE  /\ \A l \in Layers : Ids[l] \in SUBSET Nat
           /\ team.days \in [Staff -> TeamDays(team)]
           /\ \A a \in Staff :
                 /\ ValidDay(team.days[a]) /\ LongBreaks(team.days[a])
                 /\ Len(team.defaults[a]) <= 2
                 /\ team.defaults[a] \in Seq(team.kinds.channels \cup WrittenKinds("channels"))
                 /\ team.rules[a] \in SUBSET RulesAtStart(team)
                 /\ \A x \in team.rules[a] : team.days[a].noBreak = x.rule.zones
<1>1. team.days \in [Staff -> TeamDays(team)]
  <2>1. team.days \in Seq(TeamDays(team))
    BY TeamsAssumption
  <2> QED
    BY <2>1 DEF Staff
<1> QED
  BY <1>1, TeamsAssumption DEF Ids, Staff, LongBreaks

LEMMA SegBlocks ==
    ASSUME team \in Teams, NEW l \in Layers, NEW x \in Seg(l)
    PROVE  x \in Blocks(team, l) /\ x.start \in Int /\ x.end \in Int
<1>1. Ids[l] \in SUBSET Nat /\ \A n \in Times : n \in Int
  BY TeamsData, Lengths DEF Times
<1> QED
  BY <1>1 DEF Seg, Blocks

LEMMA AuxMarked ==
    ASSUME Editable, NEW K \in SUBSET Staff, NEW l, l \in {"breaks", "activities"}, NEW x, x \in Seg(l),
           NEW full, NEW later, \A a \in K : later[a] \in Int, MarkAux(K, l, x, full, later)
    PROVE  AllStepped
<1> DEFINE from(a) == IF full THEN stored[a].start ELSE x.start + later[a]
           to(a)   == IF full THEN stored[a].end ELSE x.end + later[a]
           y(a)    == [x EXCEPT !.start = from(a), !.end = to(a)]
           free    == {b \in K : CanMark(stored[b], l, from(b), to(b))}
           results == [a \in free |-> Mark(stored[a], l, y(a))]
<1>1. team \in Teams /\ \A a \in Staff : Ready(team, stored[a])
  BY EditableDays
<1>2. CommitDays(results) /\ \A a \in K : \A z \in stored[a][l] : z.id # x.id
  BY DEF MarkAux
<1>3. x \in Blocks(team, l) /\ x.start \in Int /\ x.end \in Int
  <2>1. l \in Layers
    BY DEF Layers, Inner
  <2> QED
    BY <1>1, <2>1, SegBlocks
<1>4. ASSUME NEW a \in K
      PROVE  y(a) \in Blocks(team, l) /\ y(a).id = x.id /\ y(a).start = from(a) /\ y(a).end = to(a)
  <2>1. stored[a].start \in Int /\ stored[a].end \in Int
    BY <1>1, TeamDay DEF Ready
  <2>2. from(a) \in Int /\ to(a) \in Int
    BY <1>3, <2>1
  <2> HIDE DEF from, to
  <2> QED
    BY <1>3, <2>2 DEF Blocks
<1> HIDE DEF from, to, y
<1>5. ASSUME NEW a \in free PROVE Edited(team, stored[a], Mark(stored[a], l, y(a)))
  <2>1. a \in K /\ CanMark(stored[a], l, y(a).start, y(a).end)
    BY <1>4
  <2>2. \A z \in stored[a][l] : z.id # y(a).id
    BY <1>2, <1>4, <2>1
  <2> QED
    BY <1>1, <1>4, <2>1, <2>2, Marked
<1>6. DOMAIN results = free /\ \A a \in free : a \in Staff /\ results[a] = Mark(stored[a], l, y(a))
  OBVIOUS
<1> HIDE DEF results, free
<1>7. Results(results)
  BY <1>5, <1>6 DEF Results
<1> QED
  BY <1>2, <1>7, Committed

LEMMA ActivitiesRemoved ==
    ASSUME Editable, NEW K \in SUBSET Staff, NEW at, UnmarkAt(K, at)
    PROVE  AllStepped
<1> DEFINE results == [a \in K |-> Unmark(stored[a], at)]
<1>1. \A a \in Staff : Ready(team, stored[a])
  BY EditableDays
<1>2. \A a \in K : Edited(team, stored[a], Unmark(stored[a], at))
  BY <1>1, Unmarked
<1>3. DOMAIN results = K /\ \A a \in K : results[a] = Unmark(stored[a], at)
  OBVIOUS
<1>4. CommitDays(results)
  BY DEF UnmarkAt
<1> HIDE DEF results
<1>5. Results(results)
  BY <1>2, <1>3 DEF Results
<1> QED
  BY <1>4, <1>5, Committed

(* A commit of one agent's edited day.                                     *)
LEMMA OneCommitted ==
    ASSUME Editable, NEW a \in Staff, NEW d, Edited(team, stored[a], d), CommitDays([b \in {a} |-> d])
    PROVE  AllStepped
<1> DEFINE results == [b \in {a} |-> d]
<1>1. DOMAIN results = {a} /\ results[a] = d
  OBVIOUS
<1>2. CommitDays(results)
  OBVIOUS
<1> HIDE DEF results
<1>3. Results(results)
  BY <1>1 DEF Results
<1> QED
  BY <1>2, <1>3, Committed

LEMMA ActivityEdits ==
    ASSUME Editable, NEW a \in Staff, NEW x \in Seg("activities"), EditActivity(a, x)
    PROVE  AllStepped
<1> DEFINE rest == [stored[a] EXCEPT !.activities = {y \in @ : y.id # x.id}]
<1>1. team \in Teams /\ Ready(team, stored[a])
  BY EditableDays
<1>2. x \in Blocks(team, "activities")
  BY <1>1, SegBlocks DEF Layers, Inner
<1>3. /\ Edited(team, stored[a], rest)
      /\ CanMark(rest, "activities", x.start, x.end) => Edited(team, stored[a], Mark(rest, "activities", x))
  BY <1>1, <1>2, ActivityReplaced
<1>4. \/ /\ CanMark(rest, "activities", x.start, x.end)
         /\ CommitDays([b \in {a} |-> Mark(rest, "activities", x)])
      \/ CommitDays([b \in {a} |-> rest])
  BY DEF EditActivity
<1> HIDE DEF rest
<1> QED
  BY <1>3, <1>4, OneCommitted

LEMMA OvertimeWorked ==
    ASSUME Editable, NEW K \in SUBSET Staff, NEW timing, NEW x \in Seg("ot"), AddOvertime(K, timing, x)
    PROVE  AllStepped
<1> DEFINE long == x.end - x.start
           from(a) == IF timing = "custom" THEN x.start ELSE OvertimeFrom(stored[a], timing, long)
           to(a) == from(a) + long
           y(a) == [x EXCEPT !.start = from(a), !.end = to(a)]
           free == {b \in K : CanAddOvertime(stored[b], from(b), to(b))}
           results == [a \in free |-> WithOvertime(stored[a], y(a))]
<1>1. team \in Teams /\ \A a \in Staff : Ready(team, stored[a])
  BY EditableDays
<1>2. CommitDays(results) /\ \A a \in K : \A z \in stored[a].ot : z.id # x.id
  BY DEF AddOvertime
<1>3. x \in Blocks(team, "ot") /\ x.start \in Int /\ x.end \in Int
  BY <1>1, SegBlocks DEF Layers
<1>4. long \in Int
  BY <1>3
<1> HIDE DEF long
<1>5. ASSUME NEW a \in K
      PROVE  y(a) \in Blocks(team, "ot") /\ y(a).id = x.id /\ y(a).start = from(a) /\ y(a).end = to(a)
  <2>1. OvertimeFrom(stored[a], timing, long) \in Int
    BY <1>1, <1>4, OvertimePlace
  <2>2. from(a) \in Int /\ to(a) \in Int
    BY <1>3, <1>4, <2>1
  <2> HIDE DEF from, to
  <2> QED
    BY <1>3, <2>2 DEF Blocks
<1> HIDE DEF from, to, y
<1>6. ASSUME NEW a \in free PROVE Edited(team, stored[a], WithOvertime(stored[a], y(a)))
  <2>1. a \in K /\ CanAddOvertime(stored[a], y(a).start, y(a).end)
    BY <1>5
  <2>2. \A z \in stored[a].ot : z.id # y(a).id
    BY <1>2, <1>5, <2>1
  <2> QED
    BY <1>1, <1>5, <2>1, <2>2, OvertimeWritten
<1>7. DOMAIN results = free /\ \A a \in free : a \in Staff /\ results[a] = WithOvertime(stored[a], y(a))
  OBVIOUS
<1> HIDE DEF results, free
<1>8. Results(results)
  BY <1>6, <1>7 DEF Results
<1> QED
  BY <1>2, <1>8, Committed

LEMMA SchedulesSaved ==
    ASSUME Editable, NEW a \in Staff, NEW l, l \in {"channels", "ot"}, NEW S \in Entered(a, l),
           SaveSchedule(a, l, S)
    PROVE  AllStepped
<1> DEFINE others(i) == {y \in stored[a][l] : y.id # i}
           d == WithLayer(stored[a], l, S)
<1>1. team \in Teams /\ Ready(team, stored[a])
  BY EditableDays
<1>2. l \in Layers
  BY DEF Layers, Inner
<1>3. ValidPlan(d, d.channels, d.ot) /\ CommitDays([b \in {a} |-> d])
  BY DEF SaveSchedule, WithLayer
<1>4. PICK i : EnteredBlocks(stored[a], l, i, S) /\ LayerOf(team, l, S)
  <2>1. stored[a][l] \in SUBSET Blocks(team, l)
    BY <1>1, <1>2, TeamDay DEF Ready
  <2>2. (\E x \in Seg(l) : S = others(x.id) \cup {x}) \/ \E i \in Ids[l] : S = others(i)
    BY DEF Entered
  <2>3. CASE \E x \in Seg(l) : S = others(x.id) \cup {x}
    <3>1. PICK x \in Seg(l) : S = others(x.id) \cup {x}
      BY <2>3
    <3>2. x \in Blocks(team, l)
      BY <1>1, <1>2, SegBlocks
    <3>3. EnteredBlocks(stored[a], l, x.id, S)
      BY <3>1 DEF EnteredBlocks
    <3>4. LayerOf(team, l, S)
      BY <2>1, <3>1, <3>2 DEF LayerOf
    <3> QED
      BY <3>3, <3>4
  <2>4. CASE \E i \in Ids[l] : S = others(i)
    <3>1. PICK i \in Ids[l] : S = others(i)
      BY <2>4
    <3>2. EnteredBlocks(stored[a], l, i, S)
      BY <3>1 DEF EnteredBlocks
    <3>3. LayerOf(team, l, S)
      BY <2>1, <3>1 DEF LayerOf
    <3> QED
      BY <3>2, <3>3
  <2> QED
    BY <2>2, <2>3, <2>4
<1>5. Edited(team, stored[a], d)
  BY <1>1, <1>3, <1>4, ScheduleSaved
<1> HIDE DEF d
<1> QED
  BY <1>3, <1>5, OneCommitted

LEMMA SchedulesReset ==
    ASSUME Editable, NEW a \in Staff, ResetSchedule(a)
    PROVE  AllStepped
<1> DEFINE kinds == team.defaults[a]
           d == [stored[a] EXCEPT !.channels = DefaultChannels(stored[a], kinds), !.ot = {}]
<1>1. team \in Teams /\ Ready(team, stored[a])
  BY EditableDays
<1>2. kinds \in Seq(team.kinds.channels \cup WrittenKinds("channels")) /\ Len(kinds) <= 2
  BY <1>1, TeamsData
<1>3. CommitDays([b \in {a} |-> d])
  <2>1. [b \in {a} |-> [stored[b] EXCEPT !.channels = DefaultChannels(stored[b], team.defaults[b]), !.ot = {}]]
          = [b \in {a} |-> d]
    OBVIOUS
  <2> QED
    BY <2>1 DEF ResetSchedule
<1> HIDE DEF kinds
<1>4. Edited(team, stored[a], d)
  BY <1>1, <1>2, EditsAssumption, DefaultsRestored
<1> HIDE DEF d
<1> QED
  BY <1>3, <1>4, OneCommitted

LEMMA RulesAligned ==
    ASSUME Editable, NEW K \in SUBSET Staff, NEW off, AlignWithRules(K, off)
    PROVE  AllStepped
<1> DEFINE d(a) == ApplyWorkRule(stored[a], Patterns(a), off)
           results == [a \in K |-> d(a)]
<1>1. team \in Teams /\ \A a \in Staff : Ready(team, stored[a])
  BY EditableDays
<1>2. ASSUME NEW a \in K PROVE Aligned(team, stored[a], Patterns(a), d(a))
  <2>1. \A p \in Patterns(a) : PatternFor(team, stored[a], p)
    <3> SUFFICES ASSUME NEW x \in team.rules[a]
                 PROVE  PatternFor(team, stored[a], WorkRulePattern(x.rule, x.start))
      BY DEF Patterns
    <3>1. x \in RulesAtStart(team) /\ stored[a].noBreak = x.rule.zones
      BY <1>1, TeamsData DEF Editable, EditsInv
    <3>2. ARule(team, x.rule) /\ x.start \in Nat /\ x.start < DayMinutes
      BY <3>1, Lengths DEF RulesAtStart, ARule, AnyRule
    <3> QED
      BY <3>1, <3>2, PatternOfRule
  <2> QED
    BY <1>1, <2>1, RuleApplied
<1>3. DOMAIN results = K /\ \A a \in K : results[a] = d(a)
  OBVIOUS
<1>4. CommitDays(results)
  BY DEF AlignWithRules
<1> HIDE DEF results, d
<1>5. Results(results)
  BY <1>2, <1>3 DEF Results
<1> QED
  BY <1>4, <1>5, Committed

LEMMA ChannelsPlanned ==
    ASSUME Editable, NEW need, need \in Needs, PlanChannels(need)
    PROVE  AllStepped
<1> DEFINE zero == 0
           n == Len(need)
           picks == Picks(stored, need, zero, ChatMin)
           mine(a) == [i \in 1 .. n |-> picks[i][a]]
           d(a) == WithLayer(stored[a], "channels", PlannedChannels(stored[a], mine(a), zero))
           results == [a \in Staff |-> d(a)]
<1>1. team \in Teams /\ DOMAIN stored = Staff /\ \A a \in Staff : Ready(team, stored[a])
  BY EditableDays
<1>2. n \in Nat
  BY EditsAssumption
<1>3. CommitDays(results)
  <2>1. results = PlanChannelDay(stored, need, zero, ChatMin)
    BY <1>1 DEF PlanChannelDay, WithLayer
  <2> QED
    BY <2>1 DEF PlanChannels
<1>4. picks \in Seq([Staff -> Channels]) /\ Len(picks) = n
  <2> HIDE DEF zero
  <2>1. /\ Picks(stored, need, zero, ChatMin) \in Seq([DOMAIN stored -> Channels])
        /\ Len(Picks(stored, need, zero, ChatMin)) = Len(need)
    BY <1>2, PicksType
  <2> QED
    BY <1>1, <2>1
<1> HIDE DEF picks, n
<1>5. ASSUME NEW a \in Staff PROVE mine(a) \in [1 .. n -> Channels]
  <2>1. \A i \in 1 .. n : picks[i] \in [Staff -> Channels]
    BY <1>2, <1>4
  <2> QED
    BY <2>1
<1> HIDE DEF mine
<1>6. ASSUME NEW a \in Staff PROVE Edited(team, stored[a], d(a))
  BY <1>1, <1>2, <1>5, DayPlanned
<1>7. DOMAIN results = Staff /\ \A a \in Staff : results[a] = d(a)
  OBVIOUS
<1> HIDE DEF results, d
<1>8. Results(results)
  BY <1>6, <1>7 DEF Results
<1> QED
  BY <1>3, <1>8, Committed

-----------------------------------------------------------------------------
(* The steps, and the theorems                                             *)

LEMMA InitialDays ==
    ASSUME EditsInit
    PROVE  EditsInv
<1>1. team \in Teams /\ stored = team.days
  BY DEF EditsInit
<1> QED
  BY <1>1, TeamsData DEF EditsInv, EditsTypeOK

(* One step for each kind of edit.                                         *)
LEMMA StepMade ==
    ASSUME EditsInv, EditsNext
    PROVE  AllStepped
<1>1. Editable
  BY DEF Editable, EditsNext
<1>2. Drags \subseteq Int /\ Deltas \subseteq Int /\ Staggers \subseteq Nat
  BY EditsAssumption
<1>3. CASE \E K \in (SUBSET Staff) \ {{}}, main \in Staff, op \in Ops, delta \in Drags :
              main \in K /\ Drag(main, K, op, delta)
  BY <1>1, <1>2, <1>3, BlocksDragged
<1>4. CASE \E K \in (SUBSET Staff) \ {{}}, delta \in Deltas : Move(K, delta)
  BY <1>1, <1>2, <1>4, ShiftsMoved
<1>5. CASE \E K \in (SUBSET Staff) \ {{}}, edge \in {"start", "end"}, delta \in Deltas :
              Resize(K, edge, delta)
  BY <1>1, <1>2, <1>5, ShiftsResized
<1>6. CASE \E K \in (SUBSET Staff) \ {{}}, full \in BOOLEAN, x \in Seg("breaks") :
              MarkAux(K, "breaks", x, full, [a \in K |-> 0])
  <2>1. PICK K \in SUBSET Staff, full \in BOOLEAN, x \in Seg("breaks") :
              MarkAux(K, "breaks", x, full, [a \in K |-> 0])
    BY <1>6
  <2> DEFINE later == [a \in K |-> 0]
  <2>2. \A a \in K : later[a] \in Int
    OBVIOUS
  <2>3. MarkAux(K, "breaks", x, full, later)
    BY <2>1
  <2> HIDE DEF later
  <2> QED
    BY <1>1, <2>2, <2>3, AuxMarked
<1>7. CASE \E K \in (SUBSET Staff) \ {{}}, full \in BOOLEAN, x \in Seg("activities") :
              \E later \in Staggered(K) : MarkAux(K, "activities", x, full, later)
  <2>1. PICK K \in SUBSET Staff, full \in BOOLEAN, x \in Seg("activities") :
              \E later \in Staggered(K) : MarkAux(K, "activities", x, full, later)
    BY <1>7
  <2>2. PICK later \in Staggered(K) : MarkAux(K, "activities", x, full, later)
    BY <2>1
  <2>3. \A a \in K : later[a] \in Int
    <3> DEFINE waits == {0} \cup Staggers
    <3>1. later \in [K -> waits] /\ \A n \in waits : n \in Int
      BY <1>2, <2>2 DEF Staggered
    <3> HIDE DEF waits
    <3> QED
      BY <3>1
  <2> QED
    BY <1>1, <2>2, <2>3, AuxMarked
<1>8. CASE \E K \in (SUBSET Staff) \ {{}}, at \in Times : UnmarkAt(K, at)
  BY <1>1, <1>8, ActivitiesRemoved
<1>9. CASE \E K \in (SUBSET Staff) \ {{}}, x \in Seg("ot"), timing \in {"after", "before", "custom"} :
              AddOvertime(K, timing, x)
  BY <1>1, <1>9, OvertimeWorked
<1>10. CASE \E K \in (SUBSET Staff) \ {{}}, off \in BOOLEAN : AlignWithRules(K, off)
  BY <1>1, <1>10, RulesAligned
<1>11. CASE \E a \in Staff, x \in Seg("activities") : EditActivity(a, x)
  BY <1>1, <1>11, ActivityEdits
<1>12. CASE \E a \in Staff, layer \in {"channels", "ot"} : \E S \in Entered(a, layer) : SaveSchedule(a, layer, S)
  BY <1>1, <1>12, SchedulesSaved
<1>13. CASE \E a \in Staff : ResetSchedule(a)
  BY <1>1, <1>13, SchedulesReset
<1>14. CASE \E need \in Needs : PlanChannels(need)
  BY <1>1, <1>14, ChannelsPlanned
<1> QED
  BY <1>3, <1>4, <1>5, <1>6, <1>7, <1>8, <1>9, <1>10, <1>11, <1>12, <1>13, <1>14 DEF EditsNext

LEMMA InvariantKept ==
    ASSUME EditsInv, [EditsNext]_editVars
    PROVE  EditsInv'
<1>1. CASE EditsNext
  <2>1. /\ team' = team /\ stored' \in [Staff -> TeamDays(team)]
        /\ \A a \in Staff : LongBreaks(stored'[a]) /\ stored'[a].noBreak = stored[a].noBreak
    BY <1>1, StepMade DEF AllStepped, Stepped
  <2>2. Staff' = Staff
    BY <2>1 DEF Staff
  <2> QED
    BY <2>1, <2>2 DEF EditsInv, EditsTypeOK
<1>2. CASE UNCHANGED editVars
  BY <1>2 DEF editVars, EditsInv, EditsTypeOK, Staff, LongBreaks
<1> QED
  BY <1>1, <1>2

(* Whatever the Scheduling page does to the days, they stay days of the    *)
(* team: blocks of its kinds, at whole minutes, in the layers they belong  *)
(* to (the types of domain/channels.ts).                                   *)
THEOREM EditsTypeCorrect == EditsSpec => []EditsTypeOK
<1>1. EditsInit => EditsInv
  BY InitialDays
<1>2. EditsInv /\ [EditsNext]_editVars => EditsInv'
  BY InvariantKept
<1>3. EditsInv => EditsTypeOK
  BY DEF EditsInv
<1> QED
  BY <1>1, <1>2, <1>3, PTL DEF EditsSpec

(* Every edit of a valid day makes a day the server accepts, whatever the  *)
(* day, the distance or the rule, with the exceptions EditsLandValid names *)
(* (applyEdit, moveDay, markAux, applyWorkRuleToDay and planChannelDay     *)
(* against validate_day).                                                  *)
THEOREM EditsMakeValidDays == EditsSpec => EditsLandValid
<1> DEFINE Lands == \A a \in Staff :
          ~HasShort(stored[a]) => \/ ValidDay(stored'[a])
                                  \/ OffOverActivity(stored'[a])
                                  \/ \E p \in Patterns(a) : CutAtMidnight(p)
<1>1. EditsInit => EditsInv
  BY InitialDays
<1>2. EditsInv /\ [EditsNext]_editVars => EditsInv'
  BY InvariantKept
<1>3. EditsInv /\ [EditsNext]_editVars => [Lands]_editVars
  <2> SUFFICES ASSUME EditsInv, EditsNext PROVE Lands
    OBVIOUS
  <2> QED
    BY StepMade DEF AllStepped, Stepped
<1> QED
  BY <1>1, <1>2, <1>3, PTL DEF EditsSpec, EditsLandValid

(* No edit brings a break further into its no-break zones (breakBounds,    *)
(* shiftBounds, markAux and placeBreaks).                                  *)
THEOREM BreaksStayOutOfZones == EditsSpec => NoFurtherIn
<1> DEFINE Out == \A a \in Staff : \A b \in stored'[a].breaks : (\A p \in Patterns(a) : ~CutAtMidnight(p)) =>
          LET was == {x \in stored[a].breaks : x.id = b.id}
              from(x, day) == x.start - day.start
              to(x, day)   == day.end - x.end
          IN  /\ from(b, stored'[a]) < NoBreak(stored[a])[1]
                    => \E x \in was : from(x, stored[a]) <= from(b, stored'[a])
              /\ to(b, stored'[a]) < NoBreak(stored[a])[2]
                    => \E x \in was : to(x, stored[a]) <= to(b, stored'[a])
<1>1. EditsInit => EditsInv
  BY InitialDays
<1>2. EditsInv /\ [EditsNext]_editVars => EditsInv'
  BY InvariantKept
<1>3. EditsInv /\ [EditsNext]_editVars => [Out]_editVars
  <2> SUFFICES ASSUME EditsInv, EditsNext PROVE Out
    OBVIOUS
  <2>1. \A a \in Staff : (\A p \in Patterns(a) : ~CutAtMidnight(p)) => Outward(stored[a], stored'[a])
    BY StepMade DEF AllStepped, Stepped
  <2>2. \A a \in Staff : NoBreak(stored[a]) = stored[a].noBreak
    BY TeamDay DEF EditsInv, EditsTypeOK
  <2> QED
    BY <2>1, <2>2 DEF Outward
<1> QED
  BY <1>1, <1>2, <1>3, PTL DEF EditsSpec, NoFurtherIn

LEMMA MinutesAdded ==
    ASSUME NEW t, NEW day, Ready(t, day), NEW x, x \in Blocks(t, "ot"),
           CanAddOvertime(day, x.start, x.end), \A y \in day.ot : y.id # x.id
    PROVE  LET ot == WithOvertime(day, x).ot
           IN  /\ ~Overlapping(ot)
               /\ \A m \in Int : Worked(ot, m) <=> Worked(day.ot, m) \/ InBlock(x, m)
<1> DEFINE K == t.kinds["ot"] \cup WrittenKinds("ot")
           d == WithOvertime(day, x)
<1>1. Blocks(t, "ot") = BlocksOf(Nat, K) /\ "ot" \in Layers /\ "ot" \notin Inner
  BY DEF Blocks, BlocksOf, Layers, Inner
<1> HIDE DEF K, d
<1>2. day.ot \in SUBSET Blocks(t, "ot") /\ Apart(day.ot)
  BY <1>1, TeamDay, ValidLayers DEF Ready, Fit
<1>3. Starts(day.ot) /\ x.start < x.end
  <2>1. x.start \in Int /\ x.end \in Int /\ OtMin \in Int /\ OtMin > 0 /\ x.end - x.start >= OtMin
    <3>1. x.start \in Int /\ x.end \in Int
      BY TeamBlock
    <3> QED
      BY <3>1, Lengths DEF CanAddOvertime
  <2>2. \A o \in day.ot : /\ o.start \in Int /\ o.end \in Int
                          /\ 0 <= o.start /\ o.start < o.end /\ o.end <= DayMinutes
    BY DayNumbers DEF Ready
  <2> QED
    BY <2>1, <2>2 DEF Starts
<1>4. PICK ot \in SUBSET BlocksOf(Nat, K) :
          /\ d = [day EXCEPT !.ot = ot]
          /\ \A m \in Int : Worked(ot, m) <=> Worked(day.ot, m) \/ InBlock(x, m)
  <2>1. day.ot \in SUBSET BlocksOf(Nat, K) /\ x \in BlocksOf(Nat, K)
    BY <1>1, <1>2
  <2> QED
    BY <1>2, <1>3, <2>1, WithOvertimeMinutes DEF d
<1>5. d.ot = ot
  BY <1>4 DEF Ready, TeamDays
<1>6. d \in TeamDays(t) /\ ValidDay(d)
  BY OvertimeWritten DEF Edited, d
<1>7. ~Overlapping(d.ot)
  <2>1. Apart(d.ot) /\ \A o \in d.ot : o.start \in Int /\ o.end \in Int
    BY <1>1, <1>6, ValidLayers, DayNumbers DEF Fit
  <2> QED
    BY <2>1 DEF Apart, Overlapping
<1> QED
  BY <1>4, <1>5, <1>7 DEF d

(* Overtime that fits a valid day is added minute for minute, however many *)
(* blocks of its channel it merges with (withOvertimeAdded).               *)
THEOREM AddedOvertimeAddsUp == EditsSpec => []OvertimeAddsUp
<1>1. EditsInit => EditsInv
  BY InitialDays
<1>2. EditsInv /\ [EditsNext]_editVars => EditsInv'
  BY InvariantKept
<1>3. EditsInv => OvertimeAddsUp
  <2> SUFFICES ASSUME EditsInv PROVE OvertimeAddsUp
    OBVIOUS
  <2> SUFFICES ASSUME NEW a \in Staff,
                      NEW x \in [id : {0}, kind : team.kinds.ot, start : Times, end : Times],
                      ValidDay(stored[a]), CanAddOvertime(stored[a], x.start, x.end),
                      \A y \in stored[a].ot : y.id # x.id,
                      NEW ot, ot = WithOvertime(stored[a], x).ot
               PROVE  /\ ~Overlapping(ot)
                      /\ \A m \in Times : (\E o \in ot : Covers(o, m))
                                      <=> Covers(x, m) \/ \E o \in stored[a].ot : Covers(o, m)
    BY DEF OvertimeAddsUp
  <2>1. Ready(team, stored[a])
    BY DEF EditsInv, EditsTypeOK, Ready
  <2>2. \A m \in Times : m \in Int
    BY Lengths DEF Times
  <2>3. x \in Blocks(team, "ot")
    BY <2>2 DEF Blocks
  <2>4. ~Overlapping(ot) /\ \A m \in Int : Worked(ot, m) <=> Worked(stored[a].ot, m) \/ InBlock(x, m)
    BY <2>1, <2>3, MinutesAdded
  <2> QED
    BY <2>2, <2>4 DEF Worked, InBlock, Covers
<1> QED
  BY <1>1, <1>2, <1>3, PTL DEF EditsSpec

-----------------------------------------------------------------------------
(* Cutting blocks out of pieces *)

(* Stretches of minutes that do not overlap, and whether they have one.    *)
Pieces(P) ==
    /\ \A p \in P : p \in Int \X Int /\ p[1] < p[2]
    /\ \A p, q \in P : p # q => p[2] <= q[1] \/ q[2] <= p[1]

Filled(P, m) == \E p \in P : p[1] <= m /\ m < p[2]

LEMMA CutOutPieces ==
    ASSUME NEW P, Pieces(P), NEW c, c.start \in Int, c.end \in Int, c.start < c.end
    PROVE  /\ Pieces(CutOut(c, P))
           /\ \A m \in Int : Filled(CutOut(c, P), m) <=> Filled(P, m) /\ ~InBlock(c, m)
<1> DEFINE Q == CutOut(c, P)
           s == c.start
           e == c.end
           rest == {p \in P : ~(s < p[2] /\ p[1] < e)}
           hit == {p \in P : s < p[2] /\ p[1] < e}
           left == {<<p[1], s>> : p \in {q \in hit : q[1] < s}}
           right == {<<e, p[2]>> : p \in {q \in hit : e < q[2]}}
<1>1. Q = rest \cup left \cup right
  BY DEF CutOut
<1>2. \A p \in P : p[1] \in Int /\ p[2] \in Int /\ p[1] < p[2] /\ p = <<p[1], p[2]>>
  BY DEF Pieces
<1>3. s \in Int /\ e \in Int /\ s < e
  OBVIOUS
<1>4. \A q : q \in left <=> \E p \in P : q = <<p[1], s>> /\ p[1] < s /\ s < p[2]
  BY <1>2, <1>3
<1>5. \A q : q \in right <=> \E p \in P : q = <<e, p[2]>> /\ p[1] < e /\ e < p[2]
  BY <1>2, <1>3
<1>6. \A q : q \in rest <=> q \in P /\ (q[2] <= s \/ e <= q[1])
  BY <1>2, <1>3
<1> HIDE DEF Q, s, e, rest, left, right, hit
<1>7. ASSUME NEW q \in Q
      PROVE  \E p \in P : /\ p[1] <= q[1] /\ q[2] <= p[2] /\ q \in Int \X Int /\ q[1] < q[2]
                          /\ q = p \/ q = <<p[1], s>> \/ q = <<e, p[2]>>
                          /\ q[2] <= s \/ e <= q[1]
  <2>1. CASE q \in rest
    BY <1>2, <1>3, <1>6, <2>1
  <2>2. CASE q \in left
    BY <1>2, <1>3, <1>4, <2>2
  <2>3. CASE q \in right
    BY <1>2, <1>3, <1>5, <2>3
  <2> QED
    BY <1>1, <1>7, <2>1, <2>2, <2>3
<1>8. ASSUME NEW x \in Q, NEW y \in Q, x # y PROVE x[2] <= y[1] \/ y[2] <= x[1]
  <2>1. PICK p \in P : /\ p[1] <= x[1] /\ x[2] <= p[2] /\ x \in Int \X Int /\ x[1] < x[2]
                       /\ x = p \/ x = <<p[1], s>> \/ x = <<e, p[2]>>
                       /\ x[2] <= s \/ e <= x[1]
    BY <1>7
  <2>2. PICK q \in P : /\ q[1] <= y[1] /\ y[2] <= q[2] /\ y \in Int \X Int /\ y[1] < y[2]
                       /\ y = q \/ y = <<q[1], s>> \/ y = <<e, q[2]>>
                       /\ y[2] <= s \/ e <= y[1]
    BY <1>7
  <2>3. CASE p # q
    <3>1. p[2] <= q[1] \/ q[2] <= p[1]
      BY <2>3 DEF Pieces
    <3> QED
      BY <1>2, <2>1, <2>2, <3>1
  <2>4. CASE p = q
    <3>1. ASSUME NEW z \in {x, y}
          PROVE  /\ z = <<z[1], z[2]>> /\ z[1] \in Int /\ z[2] \in Int /\ z[1] < z[2]
                 /\ p[1] <= z[1] /\ z[2] <= p[2] /\ (z[2] <= s \/ e <= z[1])
                 /\ z[2] <= s => z[1] = p[1] /\ (z[2] = p[2] \/ z[2] = s)
                 /\ e <= z[1] => z[2] = p[2] /\ (z[1] = p[1] \/ z[1] = e)
      <4>1. /\ z \in Int \X Int /\ z[1] < z[2] /\ p[1] <= z[1] /\ z[2] <= p[2]
            /\ z[2] <= s \/ e <= z[1]
            /\ z = p \/ z = <<p[1], s>> \/ z = <<e, p[2]>>
        BY <2>1, <2>2, <2>4, <3>1
      <4>2. CASE z = p
        BY <1>2, <4>1, <4>2
      <4>3. CASE z = <<p[1], s>>
        <5>1. z[1] = p[1] /\ z[2] = s
          BY <4>3
        <5> QED
          BY <1>2, <1>3, <4>1, <5>1
      <4>4. CASE z = <<e, p[2]>>
        <5>1. z[1] = e /\ z[2] = p[2]
          BY <4>4
        <5> QED
          BY <1>2, <1>3, <4>1, <5>1
      <4> QED
        BY <4>1, <4>2, <4>3, <4>4
    <3>2. x[2] <= s /\ y[2] <= s => x = y
      BY <1>2, <1>3, <3>1
    <3>3. e <= x[1] /\ e <= y[1] => x = y
      BY <1>2, <1>3, <3>1
    <3> QED
      BY <1>3, <1>8, <3>1, <3>2, <3>3
  <2> QED
    BY <2>3, <2>4
<1>9. Pieces(Q)
  BY <1>7, <1>8 DEF Pieces
<1>10. ASSUME NEW m \in Int PROVE Filled(Q, m) <=> Filled(P, m) /\ ~(s <= m /\ m < e)
  <2>1. ASSUME Filled(Q, m) PROVE Filled(P, m) /\ ~(s <= m /\ m < e)
    <3>1. PICK q \in Q : q[1] <= m /\ m < q[2]
      BY <2>1 DEF Filled
    <3>2. PICK p \in P : p[1] <= q[1] /\ q[2] <= p[2] /\ q \in Int \X Int /\ (q[2] <= s \/ e <= q[1])
      BY <1>7
    <3> QED
      BY <1>2, <1>3, <3>1, <3>2 DEF Filled
  <2>2. ASSUME NEW p \in P, p[1] <= m, m < p[2], ~(s <= m /\ m < e) PROVE Filled(Q, m)
    <3>1. CASE p[2] <= s \/ e <= p[1]
      BY <1>1, <1>6, <2>2, <3>1 DEF Filled
    <3>2. CASE s < p[2] /\ p[1] < e /\ m < s
      <4>1. <<p[1], s>> \in left
        BY <1>2, <1>3, <1>4, <2>2, <3>2
      <4> QED
        BY <1>1, <2>2, <3>2, <4>1 DEF Filled
    <3>3. CASE s < p[2] /\ p[1] < e /\ e <= m
      <4>1. <<e, p[2]>> \in right
        BY <1>2, <1>3, <1>5, <2>2, <3>3
      <4> QED
        BY <1>1, <2>2, <3>3, <4>1 DEF Filled
    <3> QED
      BY <1>2, <1>3, <2>2, <3>1, <3>2, <3>3
  <2> QED
    BY <2>1, <2>2 DEF Filled
<1> QED
  BY <1>9, <1>10 DEF InBlock, Q, s, e

(* A fold of cuts over a finite set is a function of its subsets.          *)
CutsOf(g, base, S) ==
    g = [T \in SUBSET S |-> IF T = {} THEN base
                            ELSE LET x == CHOOSE x \in T : TRUE IN CutOut(x, g[T \ {x}])]

LEMMA CutsExist ==
    ASSUME NEW S, IsFiniteSet(S), NEW base
    PROVE  \E g : CutsOf(g, base, S)
<1> DEFINE Small(k) == {T \in SUBSET S : Cardinality(T) <= k}
           step(T, g) == IF T = {} THEN base
                         ELSE LET x == CHOOSE x \in T : TRUE IN CutOut(x, g[T \ {x}])
           Upto(k, g) == \A T \in Small(k) : g[T] = step(T, g)
           G == {k \in Nat : \E g : Upto(k, g)}
<1>1. \A T \in SUBSET S : Cardinality(T) \in Nat /\ IsFiniteSet(T) /\ (Cardinality(T) = 0 <=> T = {})
  BY FS_Subset, FS_CardinalityType, FS_EmptySet
<1>2. \A T \in SUBSET S : T # {} =>
         LET x == CHOOSE x \in T : TRUE
         IN  x \in T /\ T \ {x} \in SUBSET S /\ Cardinality(T \ {x}) = Cardinality(T) - 1
  BY <1>1, FS_RemoveElement
<1>3. 0 \in G
  <2>1. Upto(0, [T \in SUBSET S |-> base])
    <3>1. \A T \in Small(0) : T = {}
      BY <1>1
    <3> QED
      BY <3>1
  <2> QED
    BY <2>1
<1>4. ASSUME NEW k \in G PROVE k + 1 \in G
  <2>1. PICK g : Upto(k, g)
    BY <1>4
  <2> DEFINE h == [T \in SUBSET S |-> IF Cardinality(T) <= k THEN g[T] ELSE step(T, g)]
  <2>2. ASSUME NEW T \in Small(k + 1) PROVE h[T] = step(T, h)
    <3>1. CASE T = {}
      <4>1. h[T] = g[T]
        BY <1>1, <3>1
      <4> QED
        BY <2>1, <3>1, <4>1, <1>1
    <3>2. CASE T # {}
      <4> DEFINE x == CHOOSE x \in T : TRUE
      <4>1. T \ {x} \in SUBSET S /\ Cardinality(T \ {x}) <= k
        BY <1>1, <1>2, <3>2
      <4>2. h[T \ {x}] = g[T \ {x}]
        BY <4>1
      <4>3. h[T] = CutOut(x, g[T \ {x}])
        <5>1. CASE Cardinality(T) <= k
          BY <2>1, <3>2, <5>1
        <5>2. CASE ~(Cardinality(T) <= k)
          BY <3>2, <5>2
        <5> QED
          BY <5>1, <5>2
      <4> HIDE DEF h
      <4> QED
        BY <3>2, <4>2, <4>3
    <3> QED
      BY <3>1, <3>2
  <2> HIDE DEF h
  <2>3. k + 1 \in Nat /\ Upto(k + 1, h)
    BY <1>4, <2>2
  <2> HIDE DEF Upto
  <2> QED
    BY <2>3
<1>5. G = Nat
  <2> HIDE DEF G
  <2>1. G \in SUBSET Nat
    BY DEF G
  <2> QED
    BY <1>3, <1>4, <2>1, NatSetInduction
<1>6. PICK g : Upto(Cardinality(S), g)
  BY <1>1, <1>5
<1> DEFINE h == [T \in SUBSET S |-> g[T]]
<1>7. \A T \in SUBSET S : Cardinality(T) <= Cardinality(S)
  BY FS_Subset
<1>8. ASSUME NEW T \in SUBSET S PROVE h[T] = step(T, h)
  <2>1. h[T] = step(T, g)
    BY <1>6, <1>7
  <2>2. CASE T = {}
    BY <2>1, <2>2
  <2>3. CASE T # {}
    <3> DEFINE x == CHOOSE x \in T : TRUE
    <3>1. h[T \ {x}] = g[T \ {x}]
      BY <1>2, <2>3
    <3> HIDE DEF h
    <3> QED
      BY <2>1, <2>3, <3>1
  <2> QED
    BY <2>2, <2>3
<1>9. h = [T \in SUBSET S |-> step(T, h)]
  BY <1>8
<1> QED
  BY <1>9 DEF CutsOf

(* All cuts together leave the minutes that are in none of them.           *)
LEMMA CutsLeave ==
    ASSUME NEW S, IsFiniteSet(S), \A c \in S : c.start \in Int /\ c.end \in Int /\ c.start < c.end,
           NEW base, Pieces(base)
    PROVE  /\ Pieces(FoldSet(CutOut, base, S))
           /\ \A m \in Int : Filled(FoldSet(CutOut, base, S), m)
                                <=> Filled(base, m) /\ ~\E c \in S : InBlock(c, m)
<1> DEFINE g == CHOOSE g : CutsOf(g, base, S)
           Good(T) == /\ Pieces(g[T])
                      /\ \A m \in Int : Filled(g[T], m) <=> Filled(base, m) /\ ~\E c \in T : InBlock(c, m)
           G == {k \in Nat : \A T \in SUBSET S : Cardinality(T) = k => Good(T)}
<1>1. FoldSet(CutOut, base, S) = g[S]
  BY DEF FoldSet, MapThenFoldSet, CutsOf
<1>2. CutsOf(g, base, S)
  BY CutsExist
<1> HIDE DEF g
<1>3. \A T \in SUBSET S : Cardinality(T) \in Nat /\ IsFiniteSet(T) /\ (Cardinality(T) = 0 <=> T = {})
  BY FS_Subset, FS_CardinalityType, FS_EmptySet
<1>4. 0 \in G
  <2>1. g[{}] = base
    BY <1>2 DEF CutsOf
  <2>2. Good({})
    BY <2>1
  <2> HIDE DEF Good
  <2> QED
    BY <1>3, <2>2
<1>5. ASSUME NEW k \in G PROVE k + 1 \in G
  <2> SUFFICES ASSUME NEW T \in SUBSET S, Cardinality(T) = k + 1 PROVE Good(T)
    BY <1>5
  <2> DEFINE x == CHOOSE x \in T : TRUE
             R == T \ {x}
  <2>1. T # {}
    BY <1>3, <1>5
  <2>2. x \in T /\ R \in SUBSET S /\ Cardinality(R) = k
    <3>1. x \in T
      BY <2>1
    <3> HIDE DEF x
    <3>2. Cardinality(T \ {x}) = Cardinality(T) - 1
      BY <1>3, <3>1, FS_RemoveElement
    <3> QED
      BY <1>5, <3>1, <3>2
  <2>3. g[T] = CutOut(x, g[R])
    BY <1>2, <2>1 DEF CutsOf
  <2> HIDE DEF x
  <2>4. T = R \cup {x} /\ x.start \in Int /\ x.end \in Int /\ x.start < x.end
    BY <2>2
  <2>5. Good(R)
    <3> HIDE DEF Good
    <3> QED
      BY <1>5, <2>2
  <2> HIDE DEF R
  <2> DEFINE P == g[R]
             Q == g[T]
  <2>6. Pieces(P) /\ \A m \in Int : Filled(P, m) <=> Filled(base, m) /\ ~\E c \in R : InBlock(c, m)
    BY <2>5
  <2> HIDE DEF Good, P, Q
  <2>7. Pieces(Q) /\ \A m \in Int : Filled(Q, m) <=> Filled(P, m) /\ ~InBlock(x, m)
    BY <2>3, <2>4, <2>6, CutOutPieces DEF P, Q
  <2>8. \A m \in Int : Filled(Q, m) <=> Filled(base, m) /\ ~\E c \in T : InBlock(c, m)
    BY <2>4, <2>6, <2>7
  <2> QED
    BY <2>7, <2>8 DEF Good, Q
<1>6. G = Nat
  <2> HIDE DEF G
  <2>1. G \in SUBSET Nat
    BY DEF G
  <2> QED
    BY <1>4, <1>5, <2>1, NatSetInduction
<1>7. Good(S)
  <2> HIDE DEF Good
  <2> QED
    BY <1>3, <1>6
<1> QED
  BY <1>1, <1>7

-----------------------------------------------------------------------------
(* Stretches of work *)

FirstsOf(P) == {p[1] : p \in P} \ {p[2] : p \in P}
LastsOf(P) == {p[2] : p \in P} \ {p[1] : p \in P}

(* Where pieces that touch begin and end: the minutes that are filled,     *)
(* after and before one that is not.                                       *)
LEMMA EdgesOfPieces ==
    ASSUME NEW P, Pieces(P)
    PROVE  /\ FirstsOf(P) \in SUBSET Int /\ LastsOf(P) \in SUBSET Int
           /\ \A m \in Int : m \in FirstsOf(P) <=> Filled(P, m) /\ ~Filled(P, m - 1)
           /\ \A m \in Int : m \in LastsOf(P) <=> ~Filled(P, m) /\ Filled(P, m - 1)
<1>1. \A p \in P : p[1] \in Int /\ p[2] \in Int /\ p[1] < p[2]
  BY DEF Pieces
<1>2. \A p, q \in P : p # q => p[2] <= q[1] \/ q[2] <= p[1]
  BY DEF Pieces
<1>3. ASSUME NEW m \in Int PROVE m \in FirstsOf(P) <=> Filled(P, m) /\ ~Filled(P, m - 1)
  <2>1. ASSUME m \in FirstsOf(P) PROVE Filled(P, m) /\ ~Filled(P, m - 1)
    <3>1. PICK p \in P : p[1] = m
      BY <2>1 DEF FirstsOf
    <3>2. \A q \in P : q[2] # m
      BY <2>1 DEF FirstsOf
    <3>3. ASSUME NEW q \in P, q[1] <= m - 1, m - 1 < q[2] PROVE FALSE
      BY <1>1, <1>2, <3>1, <3>2, <3>3
    <3> QED
      BY <1>1, <3>1, <3>3 DEF Filled
  <2>2. ASSUME Filled(P, m), ~Filled(P, m - 1) PROVE m \in FirstsOf(P)
    <3>1. PICK p \in P : p[1] <= m /\ m < p[2]
      BY <2>2 DEF Filled
    <3>2. \A q \in P : ~(q[1] <= m - 1 /\ m - 1 < q[2])
      BY <2>2 DEF Filled
    <3>3. p[1] = m /\ \A q \in P : q[2] # m
      BY <1>1, <3>1, <3>2
    <3> QED
      BY <3>3 DEF FirstsOf
  <2> QED
    BY <2>1, <2>2
<1>4. ASSUME NEW m \in Int PROVE m \in LastsOf(P) <=> ~Filled(P, m) /\ Filled(P, m - 1)
  <2>1. ASSUME m \in LastsOf(P) PROVE ~Filled(P, m) /\ Filled(P, m - 1)
    <3>1. PICK p \in P : p[2] = m
      BY <2>1 DEF LastsOf
    <3>2. \A q \in P : q[1] # m
      BY <2>1 DEF LastsOf
    <3>3. ASSUME NEW q \in P, q[1] <= m, m < q[2] PROVE FALSE
      BY <1>1, <1>2, <3>1, <3>2, <3>3
    <3>4. p[1] <= m - 1 /\ m - 1 < p[2]
      BY <1>1, <3>1
    <3> QED
      BY <3>3, <3>4 DEF Filled
  <2>2. ASSUME ~Filled(P, m), Filled(P, m - 1) PROVE m \in LastsOf(P)
    <3>1. PICK p \in P : p[1] <= m - 1 /\ m - 1 < p[2]
      BY <2>2 DEF Filled
    <3>2. \A q \in P : ~(q[1] <= m /\ m < q[2])
      BY <2>2 DEF Filled
    <3>3. p[2] = m /\ \A q \in P : q[1] # m
      BY <1>1, <3>1, <3>2
    <3> QED
      BY <3>3 DEF LastsOf
  <2> QED
    BY <2>1, <2>2
<1>5. FirstsOf(P) \in SUBSET Int /\ LastsOf(P) \in SUBSET Int
  BY <1>1 DEF FirstsOf, LastsOf
<1> QED
  BY <1>3, <1>4, <1>5

(* A run of filled minutes that goes on up to t has no end before t.       *)
LEMMA RunGoesOn ==
    ASSUME NEW P, NEW s \in Int, NEW t \in Int, s < t, Filled(P, s),
           \A m \in Int : s < m /\ m < t => ~(Filled(P, m - 1) /\ ~Filled(P, m))
    PROVE  \A m \in s .. t - 1 : Filled(P, m)
<1> DEFINE G == {k \in Nat : s + k < t => Filled(P, s + k)}
<1>1. 0 \in G
  OBVIOUS
<1>2. ASSUME NEW k \in G PROVE k + 1 \in G
  <2> SUFFICES ASSUME s + (k + 1) < t PROVE Filled(P, s + (k + 1))
    BY <1>2
  <2>1. k \in Nat /\ Filled(P, s + k)
    BY <1>2
  <2> DEFINE m == s + (k + 1)
  <2>2. m \in Int /\ s < m /\ m < t /\ m - 1 = s + k
    BY <2>1
  <2> HIDE DEF m
  <2>3. Filled(P, m)
    BY <2>1, <2>2
  <2> QED
    BY <2>3 DEF m
<1>3. G = Nat
  <2> HIDE DEF G
  <2>1. G \in SUBSET Nat
    BY DEF G
  <2> QED
    BY <1>1, <1>2, <2>1, NatSetInduction
<1> SUFFICES ASSUME NEW m \in s .. t - 1 PROVE Filled(P, m)
  OBVIOUS
<1>4. m - s \in Nat /\ s + (m - s) = m /\ m < t
  OBVIOUS
<1> HIDE DEF G
<1>5. m - s \in G
  BY <1>3, <1>4
<1> QED
  BY <1>4, <1>5 DEF G

(* Joining pieces that touch gives the runs of filled minutes.             *)
LEMMA StretchesAreRuns ==
    ASSUME NEW P, Pieces(P), \A p \in P : 0 <= p[1] /\ p[2] <= DayMinutes
    PROVE  {<<s, Min({e \in LastsOf(P) : e > s})>> : s \in FirstsOf(P)} =
             {x \in Times \X Times :
                 /\ x[1] < x[2] /\ ~Filled(P, x[1] - 1) /\ ~Filled(P, x[2])
                 /\ \A m \in x[1] .. x[2] - 1 : Filled(P, m)}
<1>1. /\ FirstsOf(P) \in SUBSET Int /\ LastsOf(P) \in SUBSET Int
      /\ \A m \in Int : m \in FirstsOf(P) <=> Filled(P, m) /\ ~Filled(P, m - 1)
      /\ \A m \in Int : m \in LastsOf(P) <=> ~Filled(P, m) /\ Filled(P, m - 1)
  BY EdgesOfPieces
<1>2. \A p \in P : p[1] \in Int /\ p[2] \in Int /\ p[1] < p[2]
  BY DEF Pieces
<1>3. DayMinutes \in Nat
  BY Lengths
<1>4. \A m \in Int : Filled(P, m) => 0 <= m /\ m < DayMinutes
  BY <1>2, <1>3 DEF Filled
<1> DEFINE next(s) == {e \in LastsOf(P) : e > s}
           Longest(x) == /\ x[1] < x[2] /\ ~Filled(P, x[1] - 1) /\ ~Filled(P, x[2])
                     /\ \A m \in x[1] .. x[2] - 1 : Filled(P, m)
<1>5. ASSUME NEW s \in FirstsOf(P)
      PROVE  <<s, Min(next(s))>> \in Times \X Times /\ Longest(<<s, Min(next(s))>>)
  <2>1. s \in Int /\ Filled(P, s) /\ ~Filled(P, s - 1)
    BY <1>1
  <2>2. next(s) # {}
    <3> SUFFICES ASSUME next(s) = {} PROVE FALSE
      OBVIOUS
    <3>1. \A m \in Int : s < m /\ m < DayMinutes + 1 => ~(Filled(P, m - 1) /\ ~Filled(P, m))
      BY <1>1, <2>1
    <3>2. s < DayMinutes + 1 /\ DayMinutes + 1 \in Int
      BY <1>3, <1>4, <2>1
    <3>3. \A m \in s .. (DayMinutes + 1) - 1 : Filled(P, m)
      BY <2>1, <3>1, <3>2, RunGoesOn
    <3>4. Filled(P, DayMinutes)
      BY <1>3, <2>1, <3>2, <3>3
    <3> QED
      BY <1>3, <1>4, <3>4
  <2>3. next(s) \in SUBSET Int /\ \A e \in next(s) : s <= e
    BY <1>1, <2>1
  <2> DEFINE e == Min(next(s))
  <2>4. e \in next(s) /\ \A d \in next(s) : e <= d
    <3> HIDE DEF next
    <3> QED
      BY <2>1, <2>2, <2>3, LeastTime
  <2> HIDE DEF e
  <2>5. e \in Int /\ s < e /\ ~Filled(P, e) /\ Filled(P, e - 1)
    BY <1>1, <2>1, <2>4
  <2>6. \A m \in Int : s < m /\ m < e => ~(Filled(P, m - 1) /\ ~Filled(P, m))
    BY <1>1, <2>1, <2>4, <2>5
  <2>7. \A m \in s .. e - 1 : Filled(P, m)
    BY <2>1, <2>5, <2>6, RunGoesOn
  <2>8. s \in Times /\ e \in Times
    BY <1>3, <1>4, <2>1, <2>5 DEF Times
  <2>9. <<s, e>> \in Times \X Times /\ Longest(<<s, e>>)
    BY <2>1, <2>5, <2>7, <2>8
  <2> QED
    BY <2>9 DEF e
<1>6. ASSUME NEW x \in Times \X Times, Longest(x)
      PROVE  x[1] \in FirstsOf(P) /\ x = <<x[1], Min(next(x[1]))>>
  <2> DEFINE s == x[1]
             e == x[2]
  <2>1. x = <<s, e>> /\ s \in Int /\ e \in Int /\ s < e
    BY <1>3, <1>6 DEF Times
  <2>2. ~Filled(P, s - 1) /\ ~Filled(P, e) /\ \A m \in s .. e - 1 : Filled(P, m)
    BY <1>6
  <2> HIDE DEF s, e, Longest
  <2>3. Filled(P, s) /\ Filled(P, e - 1)
    BY <2>1, <2>2
  <2>4. s \in FirstsOf(P) /\ e \in next(s)
    BY <1>1, <2>1, <2>2, <2>3
  <2>5. next(s) \in SUBSET Int /\ \A d \in next(s) : s <= d
    BY <1>1, <2>1
  <2>6. \A d \in next(s) : e <= d
    <3> SUFFICES ASSUME NEW d \in next(s), d < e PROVE FALSE
      BY <2>1, <2>5
    <3>1. d \in Int /\ s < d /\ ~Filled(P, d)
      BY <1>1, <2>1
    <3> QED
      BY <2>1, <2>2, <3>1
  <2>7. Min(next(s)) = e
    <3> HIDE DEF next
    <3>1. Min(next(s)) \in next(s) /\ \A d \in next(s) : Min(next(s)) <= d
      <4>1. next(s) # {}
        BY <2>4
      <4> QED
        BY <2>1, <2>5, <4>1, LeastTime
    <3> QED
      BY <2>1, <2>4, <2>5, <2>6, <3>1
  <2> HIDE DEF next
  <2> QED
    BY <2>1, <2>4, <2>7 DEF s
<1> HIDE DEF next, Longest
<1>7. {<<s, Min(next(s))>> : s \in FirstsOf(P)} = {x \in Times \X Times : Longest(x)}
  BY <1>5, <1>6
<1> QED
  BY <1>7 DEF next, Longest

-----------------------------------------------------------------------------
(* The minutes of a valid day *)

Numbered(day) ==
    /\ day.start \in Int /\ day.end \in Int
    /\ \A l \in Layers : \A x \in day[l] : x.start \in Int /\ x.end \in Int

LEMMA TeamDayNumbered ==
    ASSUME NEW t, NEW day \in TeamDays(t)
    PROVE  Numbered(day)
<1>1. day.start \in Int /\ day.end \in Int /\ \A l \in Layers : day[l] \in SUBSET Blocks(t, l)
  BY TeamDay
<1> QED
  BY <1>1, TeamBlock DEF Numbered

(* What the arguments below use of a valid day.                            *)
LEMMA DayFacts ==
    ASSUME NEW day, Numbered(day), ValidDay(day)
    PROVE  /\ day.start \in Int /\ day.end \in Int
           /\ 0 <= day.start /\ day.start < day.end /\ day.end <= DayMinutes
           /\ \A l \in Layers : /\ Apart(day[l]) /\ IsFiniteSet(day[l])
                                /\ \A x \in day[l] : /\ x.start \in Int /\ x.end \in Int /\ x.start < x.end
                                                     /\ 0 <= x.start /\ x.end <= DayMinutes
           /\ \A l \in Inner : \A x \in day[l] : day.start <= x.start /\ x.end <= day.end
           /\ \A x \in day.ot : x.end <= day.start \/ day.end <= x.start
<1>1. /\ day.start \in Int /\ day.end \in Int /\ day.end - day.start >= ShiftMin
      /\ 0 <= day.start /\ day.end <= DayMinutes
  BY DEF Numbered, ValidDay
<1>2. day.start < day.end
  BY <1>1, Lengths
<1>3. ASSUME NEW l \in Layers
      PROVE  /\ Apart(day[l])
             /\ \A x \in day[l] : /\ x.start \in Int /\ x.end \in Int /\ x.start < x.end
                                  /\ 0 <= x.start /\ x.end <= DayMinutes
                                  /\ IF l \in Inner THEN day.start <= x.start /\ x.end <= day.end
                                                    ELSE x.end <= day.start \/ day.end <= x.start
  BY DEF Numbered, ValidDay, Inside, Outside
<1>4. \A l \in Layers : IsFiniteSet(day[l])
  BY <1>3, ApartFinite DEF Starts
<1>5. "ot" \in Layers /\ "ot" \notin Inner /\ Inner \subseteq Layers
  BY DEF Layers, Inner
<1> QED
  BY <1>1, <1>2, <1>3, <1>4, <1>5

(* subtract: the minutes of an interval that no cut covers.                *)
LEMMA SubtractLeaves ==
    ASSUME NEW s \in Int, NEW e \in Int, s < e, NEW S, IsFiniteSet(S),
           \A c \in S : c.start \in Int /\ c.end \in Int /\ c.start < c.end
    PROVE  /\ Pieces(Subtract(s, e, S))
           /\ \A m \in Int : Filled(Subtract(s, e, S), m)
                                <=> s <= m /\ m < e /\ ~\E c \in S : InBlock(c, m)
<1> DEFINE P == {<<s, e>>}
<1>1. Pieces(P)
  BY DEF Pieces
<1>2. \A m \in Int : Filled(P, m) <=> s <= m /\ m < e
  BY DEF Filled
<1>3. Subtract(s, e, S) = FoldSet(CutOut, P, S)
  BY DEF Subtract
<1> HIDE DEF P
<1> QED
  BY <1>1, <1>2, <1>3, CutsLeave

(* Work: inside the shift or overtime, and neither break nor time off.     *)
AtWork(day, m) ==
    /\ Covers(day, m) \/ \E o \in day.ot : Covers(o, m)
    /\ ~\E b \in day.breaks : Covers(b, m)
    /\ ~\E x \in day.activities : x.kind \in NotWorking /\ Covers(x, m)

LEMMA WorkedPieces ==
    ASSUME NEW day, Numbered(day), ValidDay(day)
    PROVE  /\ Pieces(WorkPieces(day)) /\ \A p \in WorkPieces(day) : 0 <= p[1] /\ p[2] <= DayMinutes
           /\ \A m \in Int : Filled(WorkPieces(day), m) <=> AtWork(day, m)
<1> DEFINE base == {<<day.start, day.end>>} \cup {<<o.start, o.end>> : o \in day.ot}
           off == {x \in day.activities : x.kind \in NotWorking}
           S == day.breaks \cup off
           W == WorkPieces(day)
<1>1. /\ day.start \in Int /\ day.end \in Int
      /\ 0 <= day.start /\ day.start < day.end /\ day.end <= DayMinutes
      /\ \A l \in Layers : /\ Apart(day[l]) /\ IsFiniteSet(day[l])
                           /\ \A x \in day[l] : /\ x.start \in Int /\ x.end \in Int /\ x.start < x.end
                                                /\ 0 <= x.start /\ x.end <= DayMinutes
      /\ \A x \in day.ot : x.end <= day.start \/ day.end <= x.start
  BY DayFacts
<1>2. "ot" \in Layers /\ "breaks" \in Layers /\ "activities" \in Layers
  BY DEF Layers, Inner
<1>3. Pieces(base)
  <2>1. \A p \in base : p \in Int \X Int /\ p[1] < p[2]
    BY <1>1, <1>2
  <2>2. ASSUME NEW p \in base, NEW q \in base, p # q PROVE p[2] <= q[1] \/ q[2] <= p[1]
    <3>1. CASE p = <<day.start, day.end>> \/ q = <<day.start, day.end>>
      BY <1>1, <1>2, <2>2, <3>1
    <3>2. CASE p # <<day.start, day.end>> /\ q # <<day.start, day.end>>
      <4>1. PICK x \in day.ot : p = <<x.start, x.end>>
        BY <3>2
      <4>2. PICK y \in day.ot : q = <<y.start, y.end>>
        BY <3>2
      <4>3. x.end <= y.start \/ y.end <= x.start
        BY <1>1, <1>2, <2>2, <4>1, <4>2 DEF Apart
      <4> QED
        BY <4>1, <4>2, <4>3
    <3> QED
      BY <3>1, <3>2
  <2> QED
    BY <2>1, <2>2 DEF Pieces
<1>4. IsFiniteSet(S) /\ \A c \in S : c.start \in Int /\ c.end \in Int /\ c.start < c.end
  <2>1. IsFiniteSet(off)
    BY <1>1, <1>2, FS_Subset
  <2> QED
    BY <1>1, <1>2, <2>1, FS_Union
<1>5. W = FoldSet(CutOut, base, S)
  BY DEF WorkPieces
<1>6. \A m \in Int : Filled(base, m) <=> Covers(day, m) \/ \E o \in day.ot : Covers(o, m)
  <2>1. \A p : p \in base <=> p = <<day.start, day.end>> \/ \E o \in day.ot : p = <<o.start, o.end>>
    OBVIOUS
  <2> HIDE DEF base
  <2> SUFFICES ASSUME NEW m \in Int
               PROVE  Filled(base, m) <=> Covers(day, m) \/ \E o \in day.ot : Covers(o, m)
    OBVIOUS
  <2>2. Filled(base, m) => Covers(day, m) \/ \E o \in day.ot : Covers(o, m)
    <3> SUFFICES ASSUME NEW p \in base, p[1] <= m, m < p[2]
                 PROVE  Covers(day, m) \/ \E o \in day.ot : Covers(o, m)
      BY DEF Filled
    <3> QED
      BY <2>1 DEF Covers
  <2>3. Covers(day, m) => Filled(base, m)
    <3>1. <<day.start, day.end>> \in base
      BY <2>1
    <3> QED
      BY <3>1 DEF Filled, Covers
  <2>4. ASSUME NEW o \in day.ot, Covers(o, m) PROVE Filled(base, m)
    <3>1. <<o.start, o.end>> \in base
      BY <2>1
    <3> QED
      BY <2>4, <3>1 DEF Filled, Covers
  <2> QED
    BY <2>2, <2>3, <2>4
<1>7. \A m \in Int : (\E c \in S : InBlock(c, m)) <=>
         \/ \E b \in day.breaks : Covers(b, m)
         \/ \E x \in day.activities : x.kind \in NotWorking /\ Covers(x, m)
  BY DEF InBlock, Covers
<1> HIDE DEF base, S, off, W
<1>8. Pieces(W) /\ \A m \in Int : Filled(W, m) <=> Filled(base, m) /\ ~\E c \in S : InBlock(c, m)
  BY <1>3, <1>4, <1>5, CutsLeave
<1>9. \A m \in Int : Filled(W, m) <=> AtWork(day, m)
  BY <1>6, <1>7, <1>8 DEF AtWork
<1>10. ASSUME NEW p \in W PROVE 0 <= p[1] /\ p[2] <= DayMinutes
  <2>1. p[1] \in Int /\ p[2] \in Int /\ p[1] < p[2]
    BY <1>8 DEF Pieces
  <2>2. Filled(W, p[1]) /\ Filled(W, p[2] - 1)
    BY <2>1 DEF Filled
  <2>3. \A m \in Int : AtWork(day, m) => 0 <= m /\ m < DayMinutes
    BY <1>1, <1>2, Lengths DEF AtWork, Covers
  <2> QED
    BY <1>9, <2>1, <2>2, <2>3, Lengths
<1> QED
  BY <1>8, <1>9, <1>10 DEF W

(* workStretches gives the runs of minutes at work.                        *)
LEMMA StretchesOfWork ==
    ASSUME NEW day, Numbered(day), ValidDay(day)
    PROVE  WorkStretches(day) =
             {x \in Times \X Times :
                 /\ x[1] < x[2] /\ ~AtWork(day, x[1] - 1) /\ ~AtWork(day, x[2])
                 /\ \A m \in x[1] .. x[2] - 1 : AtWork(day, m)}
<1> DEFINE P == WorkPieces(day)
<1>1. /\ Pieces(P) /\ \A p \in P : 0 <= p[1] /\ p[2] <= DayMinutes
      /\ \A m \in Int : Filled(P, m) <=> AtWork(day, m)
  BY WorkedPieces
<1>2. WorkStretches(day) = {<<s, Min({e \in LastsOf(P) : e > s})>> : s \in FirstsOf(P)}
  BY DEF WorkStretches, FirstsOf, LastsOf
<1> HIDE DEF P
<1>3. WorkStretches(day) =
             {x \in Times \X Times :
                 /\ x[1] < x[2] /\ ~Filled(P, x[1] - 1) /\ ~Filled(P, x[2])
                 /\ \A m \in x[1] .. x[2] - 1 : Filled(P, m)}
  BY <1>1, <1>2, StretchesAreRuns
<1>4. \A x \in Times \X Times : x[1] \in Int /\ x[2] \in Int
  BY Lengths DEF Times
<1>5. \A x \in Times \X Times : /\ Filled(P, x[1] - 1) <=> AtWork(day, x[1] - 1)
                                /\ Filled(P, x[2]) <=> AtWork(day, x[2])
                                /\ \A m \in x[1] .. x[2] - 1 : Filled(P, m) <=> AtWork(day, m)
  BY <1>1, <1>4
<1> QED
  BY <1>3, <1>5

(* dayTimeline: one base segment for each minute of the shift.             *)
LEMMA OneBaseSegment ==
    ASSUME NEW day, Numbered(day), ValidDay(day), NEW m \in Int, day.start <= m, m < day.end
    PROVE  Cardinality({b \in BaseSegments(day) : b[2][1] <= m /\ m < b[2][2]}) = 1
<1> DEFINE cuts == {b \in day.breaks : b.end > day.start /\ b.start < day.end}
           inChannel(c) == Subtract(Max({day.start, c.start}), Min({day.end, c.end}), cuts)
           bare == Subtract(day.start, day.end, cuts \cup day.channels)
           A == {<<b, <<b.start, b.end>>>> : b \in cuts}
           B == UNION {{<<c, p>> : p \in inChannel(c)} : c \in day.channels}
           C == {<<day, p>> : p \in bare}
           here == {b \in BaseSegments(day) : b[2][1] <= m /\ m < b[2][2]}
<1>1. /\ day.start \in Int /\ day.end \in Int
      /\ 0 <= day.start /\ day.start < day.end /\ day.end <= DayMinutes
      /\ \A l \in Layers : /\ Apart(day[l]) /\ IsFiniteSet(day[l])
                           /\ \A x \in day[l] : /\ x.start \in Int /\ x.end \in Int /\ x.start < x.end
                                                /\ 0 <= x.start /\ x.end <= DayMinutes
      /\ \A l \in Inner : \A x \in day[l] : day.start <= x.start /\ x.end <= day.end
  BY DayFacts
<1>2. /\ "channels" \in Layers /\ "breaks" \in Layers /\ "channels" \in Inner /\ "breaks" \in Inner
  BY DEF Layers, Inner
<1>3. \A x \in day.breaks \cup day.channels : /\ x.start \in Int /\ x.end \in Int /\ x.start < x.end
                                              /\ day.start <= x.start /\ x.end <= day.end
  BY <1>1, <1>2
<1>4. IsFiniteSet(cuts) /\ IsFiniteSet(cuts \cup day.channels)
  <2>1. IsFiniteSet(cuts)
    BY <1>1, <1>2, FS_Subset
  <2> QED
    BY <1>1, <1>2, <2>1, FS_Union
<1>5. BaseSegments(day) = A \cup B \cup C
  BY DEF BaseSegments
<1>6. \A c \in day.channels : inChannel(c) = Subtract(c.start, c.end, cuts)
  <2> TAKE c \in day.channels
  <2>1. Max({day.start, c.start}) = c.start /\ Min({day.end, c.end}) = c.end
    BY <1>1, <1>3, MaxOfTwo, MinOfTwo
  <2> QED
    BY <2>1
<1>7. \A c \in cuts \cup day.channels : c.start \in Int /\ c.end \in Int /\ c.start < c.end
  BY <1>3
<1>8. \A x \in cuts, y \in cuts : InBlock(x, m) /\ InBlock(y, m) => x = y
  BY <1>1, <1>2, <1>3 DEF Apart, InBlock
<1>9. \A x \in day.channels, y \in day.channels : InBlock(x, m) /\ InBlock(y, m) => x = y
  BY <1>1, <1>2, <1>3 DEF Apart, InBlock
<1> HIDE DEF cuts
<1>10. \A c \in day.channels :
          /\ Pieces(inChannel(c))
          /\ Filled(inChannel(c), m) <=> InBlock(c, m) /\ ~\E b \in cuts : InBlock(b, m)
  BY <1>3, <1>4, <1>6, <1>7, SubtractLeaves DEF InBlock
<1>11. Pieces(bare) /\ (Filled(bare, m) <=> ~\E c \in cuts \cup day.channels : InBlock(c, m))
  BY <1>1, <1>4, <1>7, SubtractLeaves
<1> HIDE DEF inChannel, bare
<1>12. \A b : b \in here <=>
          \/ \E x \in cuts : b = <<x, <<x.start, x.end>>>> /\ InBlock(x, m)
          \/ \E c \in day.channels : \E p \in inChannel(c) : b = <<c, p>> /\ p[1] <= m /\ m < p[2]
          \/ \E p \in bare : b = <<day, p>> /\ p[1] <= m /\ m < p[2]
  <2>1. \A b : b \in A <=> \E x \in cuts : b = <<x, <<x.start, x.end>>>>
    OBVIOUS
  <2>2. \A b : b \in B <=> \E c \in day.channels : \E p \in inChannel(c) : b = <<c, p>>
    OBVIOUS
  <2>3. \A b : b \in C <=> \E p \in bare : b = <<day, p>>
    OBVIOUS
  <2> HIDE DEF A, B, C
  <2>4. \A b : b \in here <=> (b \in A \/ b \in B \/ b \in C) /\ b[2][1] <= m /\ m < b[2][2]
    BY <1>5
  <2> QED
    BY <2>1, <2>2, <2>3, <2>4 DEF InBlock
<1>13. \A P : Pieces(P) => \A p, q \in P : p[1] <= m /\ m < p[2] /\ q[1] <= m /\ m < q[2] => p = q
  BY DEF Pieces
<1> HIDE DEF here
<1>14. \E b : here = {b}
  <2>1. CASE \E x \in cuts : InBlock(x, m)
    <3>1. PICK x \in cuts : InBlock(x, m)
      BY <2>1
    <3>2. \A c \in day.channels : \A p \in inChannel(c) : ~(p[1] <= m /\ m < p[2])
      BY <1>10, <2>1 DEF Filled
    <3>3. \A p \in bare : ~(p[1] <= m /\ m < p[2])
      BY <1>11, <2>1 DEF Filled
    <3>4. \A b : b \in here <=> b = <<x, <<x.start, x.end>>>>
      BY <1>8, <1>12, <3>1, <3>2, <3>3
    <3>5. here = {<<x, <<x.start, x.end>>>>}
      BY <3>4
    <3> QED
      BY <3>5
  <2>2. CASE ~(\E x \in cuts : InBlock(x, m)) /\ \E c \in day.channels : InBlock(c, m)
    <3>1. PICK c \in day.channels : InBlock(c, m)
      BY <2>2
    <3>2. PICK p \in inChannel(c) : p[1] <= m /\ m < p[2]
      BY <1>10, <2>2, <3>1 DEF Filled
    <3>3. \A d \in day.channels : \A q \in inChannel(d) : q[1] <= m /\ m < q[2] => d = c /\ q = p
      <4> TAKE d \in day.channels
      <4> TAKE q \in inChannel(d)
      <4> HAVE q[1] <= m /\ m < q[2]
      <4>1. Filled(inChannel(d), m)
        BY DEF Filled
      <4>2. d = c
        BY <1>9, <1>10, <3>1, <4>1
      <4>3. q = p
        BY <1>10, <1>13, <3>2, <4>2
      <4> QED
        BY <4>2, <4>3
    <3>4. \A q \in bare : ~(q[1] <= m /\ m < q[2])
      BY <1>11, <3>1 DEF Filled
    <3>5. \A b : b \in here <=> b = <<c, p>>
      BY <1>12, <2>2, <3>2, <3>3, <3>4
    <3>6. here = {<<c, p>>}
      BY <3>5
    <3> QED
      BY <3>6
  <2>3. CASE ~(\E x \in cuts : InBlock(x, m)) /\ ~\E c \in day.channels : InBlock(c, m)
    <3>1. PICK p \in bare : p[1] <= m /\ m < p[2]
      BY <1>11, <2>3 DEF Filled
    <3>2. \A q \in bare : q[1] <= m /\ m < q[2] => q = p
      BY <1>11, <1>13, <3>1
    <3>3. \A c \in day.channels : \A q \in inChannel(c) : ~(q[1] <= m /\ m < q[2])
      BY <1>10, <2>3 DEF Filled
    <3>4. \A b : b \in here <=> b = <<day, p>>
      BY <1>12, <2>3, <3>1, <3>2, <3>3
    <3>5. here = {<<day, p>>}
      BY <3>4
    <3> QED
      BY <3>5
  <2> QED
    BY <2>1, <2>2, <2>3
<1>15. Cardinality(here) = 1
  BY <1>14, FS_Singleton
<1> QED
  BY <1>15 DEF here

-----------------------------------------------------------------------------
(* The timeline accounts for every minute of a shift once, and the         *)
(* stretches of work are the runs of minutes at work, on every valid day   *)
(* that is stored (dayTimeline, workStretches).                            *)
THEOREM MinutesAlwaysAddUp == EditsSpec => []MinutesAddUp
<1>1. EditsInit => EditsInv
  BY InitialDays
<1>2. EditsInv /\ [EditsNext]_editVars => EditsInv'
  BY InvariantKept
<1>3. EditsInv => MinutesAddUp
  <2> SUFFICES ASSUME EditsInv, NEW a \in Staff, ValidDay(stored[a])
               PROVE  LET day == stored[a]
                          at(m) == /\ Covers(day, m) \/ \E o \in day.ot : Covers(o, m)
                                   /\ ~\E b \in day.breaks : Covers(b, m)
                                   /\ ~\E x \in day.activities : x.kind \in NotWorking /\ Covers(x, m)
                      IN  /\ \A m \in day.start .. day.end - 1 :
                                Cardinality({b \in BaseSegments(day) : b[2][1] <= m /\ m < b[2][2]}) = 1
                          /\ WorkStretches(day) =
                                {x \in Times \X Times :
                                    /\ x[1] < x[2] /\ ~at(x[1] - 1) /\ ~at(x[2])
                                    /\ \A m \in x[1] .. x[2] - 1 : at(m)}
    BY DEF MinutesAddUp
  <2> DEFINE day == stored[a]
  <2>1. day \in TeamDays(team)
    BY DEF EditsInv, EditsTypeOK
  <2>2. Numbered(day)
    <3> HIDE DEF day
    <3> QED
      BY <2>1, TeamDayNumbered
  <2>3. \A m \in day.start .. day.end - 1 :
           Cardinality({b \in BaseSegments(day) : b[2][1] <= m /\ m < b[2][2]}) = 1
    <3>1. day.start \in Int /\ day.end \in Int
      BY <2>2 DEF Numbered
    <3>2. ValidDay(day)
      OBVIOUS
    <3> HIDE DEF day
    <3> QED
      BY <2>2, <3>1, <3>2, OneBaseSegment
  <2>4. WorkStretches(day) =
           {x \in Times \X Times :
               /\ x[1] < x[2] /\ ~AtWork(day, x[1] - 1) /\ ~AtWork(day, x[2])
               /\ \A m \in x[1] .. x[2] - 1 : AtWork(day, m)}
    BY <2>2, StretchesOfWork
  <2> HIDE DEF day
  <2> QED
    BY <2>3, <2>4 DEF AtWork, day
<1> QED
  BY <1>1, <1>2, <1>3, PTL DEF EditsSpec

-----------------------------------------------------------------------------
(* How many minutes are worked *)

(* Likewise the sum of the lengths of pieces.                              *)
SumsOf(g, S) ==
    g = [T \in SUBSET S |-> IF T = {} THEN 0
                            ELSE LET x == CHOOSE x \in T : TRUE IN g[T \ {x}] + x[2] - x[1]]

LEMMA SumsExist ==
    ASSUME NEW S, IsFiniteSet(S)
    PROVE  \E g : SumsOf(g, S)
<1> DEFINE Small(k) == {T \in SUBSET S : Cardinality(T) <= k}
           step(T, g) == IF T = {} THEN 0
                         ELSE LET x == CHOOSE x \in T : TRUE IN g[T \ {x}] + x[2] - x[1]
           Upto(k, g) == \A T \in Small(k) : g[T] = step(T, g)
           G == {k \in Nat : \E g : Upto(k, g)}
<1>1. \A T \in SUBSET S : Cardinality(T) \in Nat /\ IsFiniteSet(T) /\ (Cardinality(T) = 0 <=> T = {})
  BY FS_Subset, FS_CardinalityType, FS_EmptySet
<1>2. \A T \in SUBSET S : T # {} =>
         LET x == CHOOSE x \in T : TRUE
         IN  x \in T /\ T \ {x} \in SUBSET S /\ Cardinality(T \ {x}) = Cardinality(T) - 1
  BY <1>1, FS_RemoveElement
<1>3. 0 \in G
  <2>1. Upto(0, [T \in SUBSET S |-> 0])
    <3>1. \A T \in Small(0) : T = {}
      BY <1>1
    <3> QED
      BY <3>1
  <2> QED
    BY <2>1
<1>4. ASSUME NEW k \in G PROVE k + 1 \in G
  <2>1. PICK g : Upto(k, g)
    BY <1>4
  <2> DEFINE h == [T \in SUBSET S |-> IF Cardinality(T) <= k THEN g[T] ELSE step(T, g)]
  <2>2. ASSUME NEW T \in Small(k + 1) PROVE h[T] = step(T, h)
    <3>1. CASE T = {}
      <4>1. h[T] = g[T]
        BY <1>1, <3>1
      <4> QED
        BY <2>1, <3>1, <4>1, <1>1
    <3>2. CASE T # {}
      <4> DEFINE x == CHOOSE x \in T : TRUE
      <4>1. T \ {x} \in SUBSET S /\ Cardinality(T \ {x}) <= k
        BY <1>1, <1>2, <3>2
      <4>2. h[T \ {x}] = g[T \ {x}]
        BY <4>1
      <4>3. h[T] = g[T \ {x}] + x[2] - x[1]
        <5>1. CASE Cardinality(T) <= k
          BY <2>1, <3>2, <5>1
        <5>2. CASE ~(Cardinality(T) <= k)
          BY <3>2, <5>2
        <5> QED
          BY <5>1, <5>2
      <4> HIDE DEF h
      <4> QED
        BY <3>2, <4>2, <4>3
    <3> QED
      BY <3>1, <3>2
  <2> HIDE DEF h
  <2>3. Upto(k + 1, h)
    BY <2>2
  <2> HIDE DEF Upto
  <2>4. k + 1 \in Nat
    BY <1>4
  <2> QED
    BY <2>3, <2>4
<1>5. G = Nat
  <2> HIDE DEF G
  <2>1. G \in SUBSET Nat
    BY DEF G
  <2> QED
    BY <1>3, <1>4, <2>1, NatSetInduction
<1>6. PICK g : Upto(Cardinality(S), g)
  BY <1>1, <1>5
<1> DEFINE h == [T \in SUBSET S |-> g[T]]
<1>7. \A T \in SUBSET S : Cardinality(T) <= Cardinality(S)
  BY FS_Subset
<1>8. ASSUME NEW T \in SUBSET S PROVE h[T] = step(T, h)
  <2>1. h[T] = step(T, g)
    BY <1>6, <1>7
  <2>2. CASE T = {}
    BY <2>1, <2>2
  <2>3. CASE T # {}
    <3> DEFINE x == CHOOSE x \in T : TRUE
    <3>1. h[T \ {x}] = g[T \ {x}]
      BY <1>2, <2>3
    <3> HIDE DEF h
    <3> QED
      BY <2>1, <2>3, <3>1
  <2> QED
    BY <2>2, <2>3
<1>9. h = [T \in SUBSET S |-> step(T, h)]
  BY <1>8
<1> QED
  BY <1>9 DEF SumsOf

LEMMA PiecesFinite ==
    ASSUME NEW P, Pieces(P), \A p \in P : 0 <= p[1] /\ p[2] <= DayMinutes
    PROVE  IsFiniteSet(P)
<1> DEFINE f == [p \in P |-> p[1]]
<1>1. DayMinutes \in Nat
  BY Lengths
<1>2. \A p \in P : p[1] \in Int /\ p[2] \in Int /\ p[1] < p[2]
  BY DEF Pieces
<1>3. \A p, q \in P : p[1] = q[1] => p = q
  BY <1>2 DEF Pieces
<1>4. f \in [P -> 0 .. DayMinutes]
  BY <1>1, <1>2
<1>5. f \in Injection(P, 0 .. DayMinutes)
  BY <1>3, <1>4 DEF Injection, IsInjective
<1>6. IsFiniteSet(0 .. DayMinutes)
  BY <1>1, FS_Interval
<1> QED
  BY <1>5, <1>6, FS_Injection

(* The lengths of pieces sum up to the minutes they fill.                  *)
LEMMA MinutesOfPieces ==
    ASSUME NEW P, Pieces(P), \A p \in P : 0 <= p[1] /\ p[2] <= DayMinutes
    PROVE  FoldSet(LAMBDA p, n : n + p[2] - p[1], 0, P) = Cardinality({m \in Times : Filled(P, m)})
<1> DEFINE g == CHOOSE g : SumsOf(g, P)
           In(T) == {m \in Times : Filled(T, m)}
           Good(T) == g[T] = Cardinality(In(T))
           G == {k \in Nat : \A T \in SUBSET P : Cardinality(T) = k => Good(T)}
<1>1. FoldSet(LAMBDA p, n : n + p[2] - p[1], 0, P) = g[P]
  BY DEF FoldSet, MapThenFoldSet, SumsOf
<1>2. IsFiniteSet(P)
  BY PiecesFinite
<1>3. SumsOf(g, P)
  BY <1>2, SumsExist
<1> HIDE DEF g
<1>4. \A T \in SUBSET P : Cardinality(T) \in Nat /\ IsFiniteSet(T) /\ (Cardinality(T) = 0 <=> T = {})
  BY <1>2, FS_Subset, FS_CardinalityType, FS_EmptySet
<1>5. DayMinutes \in Nat /\ IsFiniteSet(Times) /\ \A m \in Times : m \in Int
  BY Lengths, FS_Interval DEF Times
<1>6. \A T : IsFiniteSet(In(T)) /\ Cardinality(In(T)) \in Nat
  BY <1>5, FS_Subset, FS_CardinalityType
<1>7. 0 \in G
  <2>1. g[{}] = 0
    BY <1>3 DEF SumsOf
  <2>2. In({}) = {}
    BY DEF Filled
  <2>3. Good({})
    BY <2>1, <2>2, FS_EmptySet
  <2> HIDE DEF Good
  <2> QED
    BY <1>4, <2>3
<1>8. ASSUME NEW k \in G PROVE k + 1 \in G
  <2> SUFFICES ASSUME NEW T \in SUBSET P, Cardinality(T) = k + 1 PROVE Good(T)
    BY <1>8
  <2> DEFINE x == CHOOSE x \in T : TRUE
             R == T \ {x}
  <2>1. T # {}
    BY <1>4, <1>8
  <2>2. x \in T /\ R \in SUBSET P /\ Cardinality(R) = k
    <3>1. x \in T
      BY <2>1
    <3> HIDE DEF x
    <3>2. Cardinality(T \ {x}) = Cardinality(T) - 1
      BY <1>4, <3>1, FS_RemoveElement
    <3> QED
      BY <1>8, <3>1, <3>2
  <2>3. g[T] = g[R] + x[2] - x[1]
    BY <1>3, <2>1 DEF SumsOf
  <2> HIDE DEF x
  <2>4. T = R \cup {x} /\ x \in P /\ x \notin R
    BY <2>2
  <2>5. x[1] \in Int /\ x[2] \in Int /\ x[1] < x[2] /\ 0 <= x[1] /\ x[2] <= DayMinutes
    BY <2>4 DEF Pieces
  <2>6. Good(R)
    <3> HIDE DEF Good
    <3> QED
      BY <1>8, <2>2
  <2>7. \A p \in R : p[2] <= x[1] \/ x[2] <= p[1]
    BY <2>2, <2>4 DEF Pieces
  <2>8. \A p \in R : p[1] \in Int /\ p[2] \in Int
    BY <2>2 DEF Pieces
  <2> HIDE DEF R
  <2> DEFINE I == x[1] .. x[2] - 1
  <2>9. IsFiniteSet(I) /\ Cardinality(I) = x[2] - x[1]
    <3> DEFINE b == x[2] - 1
    <3>1. b \in Int /\ ~(x[1] > b) /\ b - x[1] + 1 = x[2] - x[1]
      BY <2>5
    <3> HIDE DEF b
    <3>2. IsFiniteSet(x[1] .. b) /\ Cardinality(x[1] .. b) = IF x[1] > b THEN 0 ELSE b - x[1] + 1
      BY <2>5, <3>1, FS_Interval
    <3> QED
      BY <3>1, <3>2 DEF b
  <2>10. In(T) = In(R) \cup I
    <3>1. \A m \in Times : Filled(T, m) <=> Filled(R, m) \/ m \in I
      BY <1>5, <2>4, <2>5 DEF Filled
    <3>2. I \subseteq Times
      BY <1>5, <2>5 DEF Times
    <3> QED
      BY <3>1, <3>2
  <2>11. In(R) \cap I = {}
    BY <1>5, <2>5, <2>7, <2>8 DEF Filled
  <2> HIDE DEF I, In
  <2>12. Cardinality(In(T)) = Cardinality(In(R)) + Cardinality(I) - Cardinality(In(R) \cap I)
    BY <1>6, <2>9, <2>10, FS_Union
  <2>13. Cardinality(In(T)) = Cardinality(In(R)) + (x[2] - x[1])
    <3>1. Cardinality(In(R) \cap I) = 0
      BY <2>11, FS_EmptySet
    <3>2. Cardinality(In(R)) \in Nat
      BY <1>6
    <3> QED
      BY <2>5, <2>9, <2>12, <3>1, <3>2
  <2> QED
    BY <1>6, <2>3, <2>5, <2>6, <2>13
<1>9. G = Nat
  <2> HIDE DEF G
  <2>1. G \in SUBSET Nat
    BY DEF G
  <2> QED
    BY <1>7, <1>8, <2>1, NatSetInduction
<1>10. Good(P)
  <2> HIDE DEF Good
  <2> QED
    BY <1>2, <1>4, <1>9
<1> QED
  BY <1>1, <1>10

LEMMA MinutesOfWork ==
    ASSUME NEW day, Numbered(day), ValidDay(day)
    PROVE  WorkedMinutes(day) = Cardinality({m \in Times : AtWork(day, m)})
<1> DEFINE P == WorkPieces(day)
<1>1. /\ Pieces(P) /\ \A p \in P : 0 <= p[1] /\ p[2] <= DayMinutes
      /\ \A m \in Int : Filled(P, m) <=> AtWork(day, m)
  BY WorkedPieces
<1>2. WorkedMinutes(day) = FoldSet(LAMBDA p, n : n + p[2] - p[1], 0, P)
  BY DEF WorkedMinutes
<1> HIDE DEF P
<1>3. WorkedMinutes(day) = Cardinality({m \in Times : Filled(P, m)})
  BY <1>1, <1>2, MinutesOfPieces
<1>4. {m \in Times : Filled(P, m)} = {m \in Times : AtWork(day, m)}
  BY <1>1, Lengths DEF Times
<1> QED
  BY <1>3, <1>4

-----------------------------------------------------------------------------
(* A rule whose breaks and zones fit it *)

(* After two looks, either both zones are fixed or the stretches are as    *)
(* long as the zones that are not: a third look fixes nothing more.        *)
LEMMA ZonesFixed ==
    ASSUME NEW K, NEW least, NEW rule, AnyRule(K, least, rule),
           NEW fix, fix = Widened(rule, Widened(rule, {}))
    PROVE  /\ fix \subseteq {1, 2} /\ Widened(rule, fix) = fix
           /\ \A z \in {1, 2} : z \notin fix => rule.zones[z] <= Chunk(rule, fix)
<1> DEFINE F == Widened(rule, {})
<1>1. F = {z \in {1, 2} : rule.zones[z] > Chunk(rule, {})}
  BY DEF Widened
<1>2. fix = F \cup {z \in {1, 2} : rule.zones[z] > Chunk(rule, F)}
  BY DEF Widened
<1>3. \A G \in SUBSET {1, 2} : Chunk(rule, G) \in Nat
  BY ChunkLength
<1>4. rule.zones[1] \in Nat /\ rule.zones[2] \in Nat
  BY DEF AnyRule
<1> HIDE DEF F
<1>5. fix = F \/ fix = {1, 2}
  <2>1. F = {} => fix = F
    BY <1>1, <1>2
  <2>2. F # {} => fix = F \/ fix = {1, 2}
    BY <1>1, <1>2
  <2> QED
    BY <2>1, <2>2
<1>6. fix \subseteq {1, 2}
  BY <1>1, <1>5
<1>7. \A z \in {1, 2} : z \notin fix => ~(rule.zones[z] > Chunk(rule, fix))
  BY <1>2, <1>5
<1>8. Widened(rule, fix) = fix
  BY <1>6, <1>7 DEF Widened
<1> QED
  BY <1>3, <1>4, <1>6, <1>7, <1>8

(* The stretches, the breaks and the last zone fit the shift.              *)
LEMMA StretchesFit ==
    ASSUME NEW K, NEW least, NEW rule, AnyRule(K, least, rule),
           NEW fix, fix = Widened(rule, Widened(rule, {})),
           NEW n, n = Len(rule.breaks), n > 0,
           Minutes(rule) + rule.zones[1] + rule.zones[2] <= rule.length
    PROVE  (IF 1 \in fix THEN rule.zones[1] ELSE Chunk(rule, fix))
              + (n - 1) * Chunk(rule, fix) + rule.zones[2] <= rule.length - Minutes(rule)
<1> DEFINE chunk == Chunk(rule, fix)
           z1 == rule.zones[1]
           z2 == rule.zones[2]
           zone(z) == IF z \in fix THEN rule.zones[z] ELSE 0
           work == rule.length - Minutes(rule)
           rest == work - (zone(1) + zone(2))
           count == n + 1 - Cardinality(fix)
<1>1. fix \subseteq {1, 2} /\ \A z \in {1, 2} : z \notin fix => rule.zones[z] <= chunk
  BY ZonesFixed
<1>2. n \in Nat /\ z1 \in Nat /\ z2 \in Nat /\ Minutes(rule) \in Nat /\ rule.length \in Nat
  BY BreakSteps, BreakMinutes DEF AnyRule
<1>3. chunk \in Nat /\ (0 <= rest /\ 1 <= count => count * chunk <= rest)
  <2>1. rest = rule.length - Minutes(rule) - (zone(1) + zone(2))
    BY <1>2
  <2> HIDE DEF rest
  <2> QED
    BY <1>1, <2>1, ChunkLength DEF rest
<1> HIDE DEF chunk
<1>4. work \in Int /\ z1 + z2 <= work
  <2> DEFINE minutes == Minutes(rule)
             length == rule.length
  <2>1. minutes \in Nat /\ length \in Nat /\ minutes + z1 + z2 <= length /\ z1 \in Nat /\ z2 \in Nat
    BY <1>2
  <2> HIDE DEF minutes, length, z1, z2
  <2>2. length - minutes \in Int /\ z1 + z2 <= length - minutes
    BY <2>1
  <2> QED
    BY <2>2 DEF minutes, length
<1>5. Cardinality({1, 2}) = 2 /\ Cardinality({1}) = 1 /\ Cardinality({2}) = 1
  <2> DEFINE one == 1
             two == 2
  <2>1. Cardinality({one}) = 1 /\ Cardinality({two}) = 1 /\ IsFiniteSet({one})
    BY FS_Singleton
  <2>2. Cardinality({one} \cup {two}) = IF two \in {one} THEN Cardinality({one}) ELSE Cardinality({one}) + 1
    <3> HIDE DEF one, two
    <3> QED
      BY <2>1, FS_AddElement
  <2>3. {1, 2} = {one} \cup {two} /\ two \notin {one} /\ {1} = {one} /\ {2} = {two}
    OBVIOUS
  <2> HIDE DEF one, two
  <2>4. Cardinality({one} \cup {two}) = Cardinality({one}) + 1
    BY <2>2, <2>3
  <2>5. Cardinality({one} \cup {two}) = 2
    <3> DEFINE c == Cardinality({one})
               d == Cardinality({one} \cup {two})
    <3>1. c = 1 /\ d = c + 1
      BY <2>1, <2>4
    <3> HIDE DEF c, d
    <3>2. d = 2
      BY <3>1
    <3> QED
      BY <3>2 DEF d
  <2> QED
    BY <2>1, <2>3, <2>5
<1>6. Cardinality({}) = 0
  BY FS_EmptySet
<1>7. fix = {1, 2} \/ fix = {1} \/ fix = {2} \/ fix = {}
  BY <1>1
<1>8. /\ fix = {1, 2} => Cardinality(fix) = 2 /\ zone(1) + zone(2) = z1 + z2
      /\ fix = {1} => Cardinality(fix) = 1 /\ zone(1) + zone(2) = z1
      /\ fix = {2} => Cardinality(fix) = 1 /\ zone(1) + zone(2) = z2
      /\ fix = {} => Cardinality(fix) = 0 /\ zone(1) + zone(2) = 0
  <2>1. ASSUME fix = {1, 2} PROVE Cardinality(fix) = 2 /\ zone(1) + zone(2) = z1 + z2
    <3>1. zone(1) = z1 /\ zone(2) = z2
      BY <2>1
    <3>2. Cardinality(fix) = 2
      BY <1>5, <1>6, <2>1
    <3> HIDE DEF zone
    <3> QED
      BY <1>2, <3>1, <3>2
  <2>2. ASSUME fix = {1} PROVE Cardinality(fix) = 1 /\ zone(1) + zone(2) = z1
    <3>1. zone(1) = z1 /\ zone(2) = 0
      BY <2>2
    <3>2. Cardinality(fix) = 1
      BY <1>5, <1>6, <2>2
    <3> HIDE DEF zone
    <3> QED
      BY <1>2, <3>1, <3>2
  <2>3. ASSUME fix = {2} PROVE Cardinality(fix) = 1 /\ zone(1) + zone(2) = z2
    <3>1. zone(1) = 0 /\ zone(2) = z2
      BY <2>3
    <3>2. Cardinality(fix) = 1
      BY <1>5, <1>6, <2>3
    <3> HIDE DEF zone
    <3> QED
      BY <1>2, <3>1, <3>2
  <2>4. ASSUME fix = {} PROVE Cardinality(fix) = 0 /\ zone(1) + zone(2) = 0
    <3>1. zone(1) = 0 /\ zone(2) = 0
      BY <2>4
    <3>2. Cardinality(fix) = 0
      BY <1>5, <1>6, <2>4
    <3> HIDE DEF zone
    <3> QED
      BY <1>2, <3>1, <3>2
  <2> QED
    BY <2>1, <2>2, <2>3, <2>4
<1> DEFINE share(k, w) == 0 <= work - w /\ 1 <= k => k * chunk <= work - w
<1>9. /\ fix = {1, 2} => share(n - 1, z1 + z2)
      /\ fix = {1} => share(n, z1) /\ z2 <= chunk
      /\ fix = {2} => share(n, z2)
      /\ fix = {} => share(n + 1, 0) /\ z2 <= chunk
  <2> HIDE DEF zone, work, share
  <2>1. rest = work - (zone(1) + zone(2))
    OBVIOUS
  <2> HIDE DEF rest, z1, z2
  <2>2. \A k, w : count = k /\ zone(1) + zone(2) = w => share(k, w)
    BY <1>3, <2>1 DEF share
  <2>3. /\ fix = {1, 2} => count = n - 1
        /\ fix = {1} \/ fix = {2} => count = n
        /\ fix = {} => count = n + 1
    BY <1>2, <1>8
  <2> HIDE DEF count
  <2> QED
    BY <1>1, <1>8, <2>2, <2>3 DEF z1, z2
<1> HIDE DEF work, zone, z1, z2
<1>10. (IF 1 \in fix THEN z1 ELSE chunk) + (n - 1) * chunk + z2 <= work
  <2>1. chunk \in Nat
    BY <1>3
  <2>2. CASE fix = {1, 2}
    <3>1. 1 \in fix
      BY <2>2
    <3>2. n - 1 >= 1 => (n - 1) * chunk <= work - (z1 + z2)
      BY <1>2, <1>4, <1>9, <2>2
    <3>3. n - 1 >= 1 \/ (n - 1) * chunk = 0
      BY <1>2, <2>1
    <3>4. z1 + (n - 1) * chunk + z2 <= work
      BY <1>2, <1>4, <2>1, <3>2, <3>3
    <3> QED
      BY <3>1, <3>4
  <2>3. CASE fix = {1}
    <3>1. n * chunk <= work - z1 /\ z2 <= chunk /\ 1 \in fix
      BY <1>2, <1>4, <1>9, <2>3
    <3>2. z1 + (n - 1) * chunk + z2 <= work
      BY <1>2, <1>4, <2>1, <3>1
    <3> QED
      BY <3>1, <3>2
  <2>4. CASE fix = {2}
    <3>1. n * chunk <= work - z2 /\ 1 \notin fix
      BY <1>2, <1>4, <1>9, <2>4
    <3>2. chunk + (n - 1) * chunk + z2 <= work
      BY <1>2, <1>4, <2>1, <3>1
    <3> QED
      BY <3>1, <3>2
  <2>5. CASE fix = {}
    <3>1. (n + 1) * chunk <= work /\ z2 <= chunk /\ 1 \notin fix
      BY <1>2, <1>4, <1>9, <2>5
    <3>2. chunk + (n - 1) * chunk + z2 <= work
      BY <1>2, <1>4, <2>1, <3>1
    <3> QED
      BY <3>1, <3>2
  <2> QED
    BY <1>7, <2>2, <2>3, <2>4, <2>5
<1> QED
  BY <1>10 DEF chunk, work, z1, z2

(* The breaks of a rule without issues end before its last zone.           *)
LEMMA BreaksEnd ==
    ASSUME NEW K, NEW least, NEW rule, AnyRule(K, least, rule),
           rule.breaks # <<>> => Minutes(rule) + rule.zones[1] + rule.zones[2] <= rule.length
    PROVE  \A x \in PlaceBreaks(rule) : x.end <= rule.length - rule.zones[2]
<1> DEFINE n == Len(rule.breaks)
           b == rule.breaks
           fix == Widened(rule, Widened(rule, {}))
           chunk == Chunk(rule, fix)
           first == IF 1 \in Widened(rule, fix) THEN rule.zones[1] ELSE chunk
           lengths == [i \in DOMAIN b |-> b[i].minutes]
           steps == [i \in DOMAIN b |-> b[i].minutes + chunk]
           next == Running(first, steps)
           zero == 0
           sum == Running(zero, lengths)
<1>1. /\ n \in Nat /\ DOMAIN b = 1 .. n
      /\ \A i \in 1 .. n : b[i].minutes \in Nat
  BY BreakSteps
<1>2. fix \subseteq {1, 2} /\ Widened(rule, fix) = fix
  BY ZonesFixed
<1>3. chunk \in Nat /\ rule.zones[1] \in Nat /\ rule.zones[2] \in Nat /\ rule.length \in Nat
  <2> HIDE DEF fix
  <2> QED
    BY <1>2, ChunkLength DEF AnyRule
<1>4. first = IF 1 \in fix THEN rule.zones[1] ELSE chunk
  BY <1>2
<1>5. n > 0 => first + (n - 1) * chunk + rule.zones[2] <= rule.length - Minutes(rule)
  <2> SUFFICES ASSUME n > 0
               PROVE  first + (n - 1) * chunk + rule.zones[2] <= rule.length - Minutes(rule)
    OBVIOUS
  <2>1. rule.breaks # <<>>
    BY <1>1
  <2>2. Minutes(rule) + rule.zones[1] + rule.zones[2] <= rule.length
    BY <2>1
  <2>3. (IF 1 \in fix THEN rule.zones[1] ELSE chunk) + (n - 1) * chunk + rule.zones[2]
          <= rule.length - Minutes(rule)
    BY <2>2, StretchesFit
  <2> HIDE DEF first, fix, chunk
  <2> QED
    BY <1>4, <2>3
<1>6. PlaceBreaks(rule) \subseteq
        {[id |-> i, kind |-> b[i].kind, start |-> next[i - 1], end |-> next[i - 1] + b[i].minutes] : i \in 1 .. n}
  BY <1>1 DEF PlaceBreaks
<1>7. Minutes(rule) = sum[n]
  BY DEF Minutes
<1> HIDE DEF fix
<1> HIDE DEF chunk
<1>8. first \in Nat
  BY <1>3, <1>4
<1>9. /\ steps \in [1 .. n -> Nat] /\ DOMAIN steps = 1 .. n
      /\ \A i \in 1 .. n : steps[i] = b[i].minutes + chunk
  BY <1>1, <1>3
<1>10. /\ lengths \in [1 .. n -> Nat] /\ DOMAIN lengths = 1 .. n
       /\ \A i \in 1 .. n : lengths[i] = b[i].minutes
  BY <1>1
<1> HIDE DEF n, first, steps, lengths
<1>11. Summands(first, n, steps)
  <2>1. Len(steps) = n
    BY <1>1, <1>9
  <2> QED
    BY <1>1, <1>8, <1>9, <2>1 DEF Summands
<1>12. zero \in Nat
  OBVIOUS
<1>13. zero = 0
  OBVIOUS
<1> HIDE DEF zero
<1>14. Summands(zero, n, lengths)
  <2>1. Len(lengths) = n
    BY <1>1, <1>10
  <2> QED
    BY <1>1, <1>10, <1>12, <2>1 DEF Summands
<1>15. /\ \A i \in 0 .. n : next[i] \in Nat
       /\ \A i \in 1 .. n : next[i] = next[i - 1] + steps[i]
  BY <1>11, RunningSum
<1>16. /\ \A i \in 0 .. n : sum[i] \in Nat
       /\ \A i \in 1 .. n : sum[i] = sum[i - 1] + lengths[i]
  BY <1>14, RunningSum
<1>17. next[0] = first /\ sum[0] = zero
  BY <1>11, <1>14, RunningSum
<1>18. \A i \in 0 .. n : sum[i] <= sum[n]
  BY <1>1, <1>14, RunningRises
<1> HIDE DEF next, sum
<1> DEFINE G == {k \in Nat : k <= n => next[k] = first + sum[k] + k * chunk}
<1>19. 0 \in G
  BY <1>3, <1>8, <1>13, <1>17
<1>20. ASSUME NEW k \in G PROVE k + 1 \in G
  <2> SUFFICES ASSUME k + 1 <= n PROVE next[k + 1] = first + sum[k + 1] + (k + 1) * chunk
    BY <1>20
  <2>1. k \in Nat /\ k + 1 \in 1 .. n /\ k \in 0 .. n /\ (k + 1) - 1 = k
        /\ next[k] = first + sum[k] + k * chunk
    BY <1>1, <1>20
  <2>2. next[k + 1] = next[k] + steps[k + 1] /\ sum[k + 1] = sum[k] + lengths[k + 1]
    BY <1>15, <1>16, <2>1
  <2>3. steps[k + 1] = lengths[k + 1] + chunk /\ lengths[k + 1] \in Nat
    BY <1>1, <1>9, <1>10, <2>1
  <2>4. (k + 1) * chunk = k * chunk + chunk /\ k * chunk \in Nat
    BY <1>3, <2>1
  <2>5. sum[k] \in Nat
    BY <1>16, <2>1
  <2> QED
    BY <1>3, <1>8, <2>1, <2>2, <2>3, <2>4, <2>5
<1>21. G = Nat
  <2>1. G \in SUBSET Nat
    OBVIOUS
  <2> HIDE DEF G
  <2> QED
    BY <1>19, <1>20, <2>1, NatSetInduction
<1>22. \A i \in 0 .. n : next[i] = first + sum[i] + i * chunk
  <2>1. \A i \in 0 .. n : i \in G /\ i <= n
    <3> HIDE DEF G
    <3> QED
      BY <1>1, <1>21
  <2> QED
    BY <2>1
<1> SUFFICES ASSUME NEW i \in 1 .. n PROVE next[i - 1] + b[i].minutes <= rule.length - rule.zones[2]
  BY <1>6
<1>23. i - 1 \in 0 .. n /\ i \in 0 .. n /\ i \in Nat /\ i >= 1 /\ i <= n
  BY <1>1
<1>24. next[i - 1] = first + sum[i - 1] + (i - 1) * chunk /\ sum[i] = sum[i - 1] + b[i].minutes
  BY <1>10, <1>16, <1>22, <1>23
<1>25. (i - 1) * chunk <= (n - 1) * chunk /\ (i - 1) * chunk \in Nat /\ (n - 1) * chunk \in Nat
  BY <1>1, <1>3, <1>23
<1>26. sum[i - 1] \in Nat /\ sum[i] \in Nat /\ sum[i] <= Minutes(rule) /\ Minutes(rule) \in Nat
  BY <1>1, <1>7, <1>16, <1>18, <1>23
<1>27. first + (n - 1) * chunk + rule.zones[2] <= rule.length - Minutes(rule)
  BY <1>1, <1>5, <1>23
<1>28. b[i].minutes \in Nat
  BY <1>1
<1> DEFINE x1 == (i - 1) * chunk
           x2 == (n - 1) * chunk
           m == b[i].minutes
           p == sum[i - 1]
           z == rule.zones[2]
           start == next[i - 1]
           M == Minutes(rule)
           L == rule.length
<1>29. /\ x1 <= x2 /\ x1 \in Nat /\ x2 \in Nat /\ m \in Nat /\ p \in Nat /\ z \in Nat
       /\ first \in Nat /\ M \in Nat /\ L \in Nat
       /\ start = first + p + x1 /\ first + x2 + z <= L - M
  BY <1>3, <1>8, <1>24, <1>25, <1>26, <1>27, <1>28
<1>30. p + m <= M
  BY <1>24, <1>26
<1> HIDE DEF x1, x2, m, p, z, start, M, L
<1>31. start + m <= L - z
  BY <1>29, <1>30
<1> QED
  BY <1>31 DEF start, m, L, z

-----------------------------------------------------------------------------
(* A day and the sample of its rule *)

(* Blocks and the same blocks moved by s minutes.                          *)
MovedBlocks(S, T, s) ==
    /\ \A y \in T : \E x \in S : y.kind = x.kind /\ y.start = x.start + s /\ y.end = x.end + s
    /\ \A x \in S : \E y \in T : y.kind = x.kind /\ y.start = x.start + s /\ y.end = x.end + s

LEMMA ShiftedAreMoved ==
    ASSUME NEW K, NEW S, S \subseteq [id : Nat, kind : K, start : Nat, end : Nat], NEW s, s \in Int
    PROVE  MovedBlocks(S, Shifted(S, s), s)
<1> DEFINE moved(x) == [x EXCEPT !.start = @ + s, !.end = @ + s]
<1>1. Shifted(S, s) = {moved(x) : x \in S}
  BY DEF Shifted
<1>2. \A x \in S : moved(x).kind = x.kind /\ moved(x).start = x.start + s /\ moved(x).end = x.end + s
  OBVIOUS
<1> HIDE DEF moved
<1> QED
  BY <1>1, <1>2 DEF MovedBlocks

(* Two days without activities and overtime, one s minutes after the other.*)
SameDayLater(B, d, s) ==
    /\ Numbered(B) /\ ValidDay(B) /\ B.activities = {} /\ B.ot = {}
    /\ Numbered(d) /\ ValidDay(d) /\ d.activities = {} /\ d.ot = {}
    /\ d.start = B.start + s /\ d.end = B.end + s /\ MovedBlocks(B.breaks, d.breaks, s)

LEMMA SameWork ==
    ASSUME NEW B, NEW d, NEW s, s \in Int, SameDayLater(B, d, s)
    PROVE  /\ \A m \in Int : AtWork(d, m + s) <=> AtWork(B, m)
           /\ \A m \in Int : AtWork(B, m) => B.start <= m /\ m < B.end
           /\ \A m \in Int : AtWork(d, m) => d.start <= m /\ m < d.end
<1>1. /\ B.start \in Int /\ B.end \in Int
      /\ \A x \in B.breaks : x.start \in Int /\ x.end \in Int
  BY DEF SameDayLater, Numbered, Layers, Inner
<1>2. \A m : AtWork(d, m) <=> Covers(d, m) /\ ~\E b \in d.breaks : Covers(b, m)
  BY DEF AtWork, SameDayLater
<1>3. \A m : AtWork(B, m) <=> Covers(B, m) /\ ~\E b \in B.breaks : Covers(b, m)
  BY DEF AtWork, SameDayLater
<1>4. \A m \in Int : Covers(d, m + s) <=> Covers(B, m)
  BY <1>1 DEF Covers, SameDayLater
<1>5. \A m \in Int : (\E b \in d.breaks : Covers(b, m + s)) <=> \E b \in B.breaks : Covers(b, m)
  <2> SUFFICES ASSUME NEW m \in Int
               PROVE  (\E b \in d.breaks : Covers(b, m + s)) <=> \E b \in B.breaks : Covers(b, m)
    OBVIOUS
  <2>1. ASSUME NEW y \in d.breaks, Covers(y, m + s) PROVE \E b \in B.breaks : Covers(b, m)
    <3>1. PICK x \in B.breaks : y.start = x.start + s /\ y.end = x.end + s
      BY DEF SameDayLater, MovedBlocks
    <3>2. Covers(x, m)
      BY <1>1, <2>1, <3>1 DEF Covers
    <3> QED
      BY <3>2
  <2>2. ASSUME NEW x \in B.breaks, Covers(x, m) PROVE \E b \in d.breaks : Covers(b, m + s)
    <3>1. PICK y \in d.breaks : y.start = x.start + s /\ y.end = x.end + s
      BY DEF SameDayLater, MovedBlocks
    <3>2. Covers(y, m + s)
      BY <1>1, <2>2, <3>1 DEF Covers
    <3> QED
      BY <3>2
  <2> QED
    BY <2>1, <2>2
<1>6. \A m \in Int : AtWork(d, m + s) <=> AtWork(B, m)
  <2> TAKE m \in Int
  <2>1. AtWork(d, m + s) <=> Covers(d, m + s) /\ ~\E b \in d.breaks : Covers(b, m + s)
    BY <1>2
  <2> QED
    BY <1>3, <1>4, <1>5, <2>1
<1> QED
  BY <1>2, <1>3, <1>6 DEF Covers

(* The runs of minutes at work of the later day.                           *)
LEMMA SameStretches ==
    ASSUME NEW B, NEW d, NEW s, s \in Int, SameDayLater(B, d, s)
    PROVE  /\ \A x \in WorkStretches(B) : /\ x \in Int \X Int /\ 0 <= x[1] /\ x[2] <= DayMinutes
                                          /\ <<x[1] + s, x[2] + s>> \in WorkStretches(d)
           /\ \A y \in WorkStretches(d) : /\ y \in Int \X Int /\ 0 <= y[1] /\ y[2] <= DayMinutes
                                          /\ <<y[1] - s, y[2] - s>> \in WorkStretches(B)
<1>1. /\ \A m \in Int : AtWork(d, m + s) <=> AtWork(B, m)
      /\ \A m \in Int : AtWork(B, m) => B.start <= m /\ m < B.end
      /\ \A m \in Int : AtWork(d, m) => d.start <= m /\ m < d.end
  BY SameWork
<1>2. /\ B.start \in Int /\ B.end \in Int /\ 0 <= B.start /\ B.end <= DayMinutes
      /\ d.start \in Int /\ d.end \in Int /\ 0 <= d.start /\ d.end <= DayMinutes
      /\ d.start = B.start + s /\ d.end = B.end + s
  BY DayFacts DEF SameDayLater
<1>3. DayMinutes \in Nat
  BY Lengths
<1> DEFINE Longest(day, x) == /\ x \in Int \X Int /\ 0 <= x[1] /\ x[2] <= DayMinutes /\ x[1] < x[2]
                              /\ ~AtWork(day, x[1] - 1) /\ ~AtWork(day, x[2])
                              /\ \A m \in x[1] .. x[2] - 1 : AtWork(day, m)
<1>4. \A day, x : Numbered(day) /\ ValidDay(day) => (x \in WorkStretches(day) <=> Longest(day, x))
  <2> SUFFICES ASSUME NEW day, NEW x, Numbered(day), ValidDay(day)
               PROVE  x \in WorkStretches(day) <=> Longest(day, x)
    OBVIOUS
  <2>1. WorkStretches(day) =
             {y \in Times \X Times :
                 /\ y[1] < y[2] /\ ~AtWork(day, y[1] - 1) /\ ~AtWork(day, y[2])
                 /\ \A m \in y[1] .. y[2] - 1 : AtWork(day, m)}
    BY StretchesOfWork
  <2>2. x \in Times \X Times <=> /\ x \in Int \X Int /\ 0 <= x[1] /\ x[2] <= DayMinutes
                                 /\ x[1] <= DayMinutes /\ 0 <= x[2]
    BY <1>3 DEF Times
  <2>3. x \in Int \X Int /\ x[1] < x[2] /\ 0 <= x[1] /\ x[2] <= DayMinutes => x[1] <= DayMinutes /\ 0 <= x[2]
    BY <1>3
  <2> QED
    BY <2>1, <2>2, <2>3
<1>5. \A x : x \in WorkStretches(B) <=> Longest(B, x)
  BY <1>4 DEF SameDayLater
<1>6. \A x : x \in WorkStretches(d) <=> Longest(d, x)
  BY <1>4 DEF SameDayLater
<1>7. ASSUME NEW x, Longest(B, x) PROVE Longest(d, <<x[1] + s, x[2] + s>>)
  <2> DEFINE u == x[1]
             v == x[2]
  <2>1. /\ u \in Int /\ v \in Int /\ u < v /\ ~AtWork(B, u - 1) /\ ~AtWork(B, v)
        /\ \A m \in Int : u <= m /\ m < v => AtWork(B, m)
    BY <1>7
  <2> HIDE DEF u, v
  <2>2. AtWork(B, u) /\ AtWork(B, v - 1)
    BY <2>1
  <2>3. 0 <= u + s /\ v + s <= DayMinutes /\ u + s < v + s
    BY <1>1, <1>2, <1>3, <2>1, <2>2
  <2>4. (u + s) - 1 = (u - 1) + s
    BY <2>1
  <2>5. ~AtWork(d, (u + s) - 1) /\ ~AtWork(d, v + s)
    <3>1. u - 1 \in Int
      BY <2>1
    <3>2. ~AtWork(d, (u - 1) + s)
      BY <1>1, <2>1, <3>1
    <3> QED
      BY <1>1, <2>1, <2>4, <3>2
  <2>6. ASSUME NEW m \in (u + s) .. (v + s) - 1 PROVE AtWork(d, m)
    <3>1. m - s \in Int /\ u <= m - s /\ m - s < v /\ (m - s) + s = m
      BY <2>1
    <3>2. AtWork(B, m - s)
      BY <2>1, <3>1
    <3> QED
      BY <1>1, <3>1, <3>2
  <2>7. u + s \in Int /\ v + s \in Int
    BY <2>1
  <2>8. Longest(d, <<u + s, v + s>>)
    BY <2>3, <2>5, <2>6, <2>7
  <2> QED
    BY <2>8 DEF u, v
<1>8. ASSUME NEW y, Longest(d, y) PROVE Longest(B, <<y[1] - s, y[2] - s>>)
  <2> DEFINE u == y[1]
             v == y[2]
  <2>1. /\ u \in Int /\ v \in Int /\ u < v /\ ~AtWork(d, u - 1) /\ ~AtWork(d, v)
        /\ \A m \in Int : u <= m /\ m < v => AtWork(d, m)
    BY <1>8
  <2> HIDE DEF u, v
  <2>2. AtWork(d, u) /\ AtWork(d, v - 1)
    BY <2>1
  <2>3. 0 <= u - s /\ v - s <= DayMinutes /\ u - s < v - s
    BY <1>1, <1>2, <1>3, <2>1, <2>2
  <2>4. (u - s) - 1 \in Int /\ ((u - s) - 1) + s = u - 1 /\ v - s \in Int /\ (v - s) + s = v /\ u - s \in Int
    BY <2>1
  <2>5. ~AtWork(B, (u - s) - 1) /\ ~AtWork(B, v - s)
    <3>1. AtWork(B, (u - s) - 1) => AtWork(d, u - 1)
      BY <1>1, <2>4
    <3>2. AtWork(B, v - s) => AtWork(d, v)
      BY <1>1, <2>4
    <3> QED
      BY <2>1, <3>1, <3>2
  <2>6. ASSUME NEW m \in (u - s) .. (v - s) - 1 PROVE AtWork(B, m)
    <3>1. m \in Int /\ m + s \in Int /\ u <= m + s /\ m + s < v
      BY <2>1
    <3>2. AtWork(d, m + s)
      BY <2>1, <3>1
    <3> QED
      BY <1>1, <3>1, <3>2
  <2>8. Longest(B, <<u - s, v - s>>)
    BY <2>3, <2>4, <2>5, <2>6
  <2> QED
    BY <2>8 DEF u, v
<1>9. \A x : Longest(B, x) \/ Longest(d, x) => x \in Int \X Int /\ 0 <= x[1] /\ x[2] <= DayMinutes
  OBVIOUS
<1> HIDE DEF Longest
<1> QED
  BY <1>5, <1>6, <1>7, <1>8, <1>9

(* Both days have as many minutes of work.                                 *)
LEMMA SameMinutes ==
    ASSUME NEW B, NEW d, NEW s, s \in Int, SameDayLater(B, d, s)
    PROVE  WorkedMinutes(d) = WorkedMinutes(B)
<1> DEFINE S == {m \in Times : AtWork(B, m)}
           T == {m \in Times : AtWork(d, m)}
           f == [m \in S |-> m + s]
<1>1. /\ \A m \in Int : AtWork(d, m + s) <=> AtWork(B, m)
      /\ \A m \in Int : AtWork(B, m) => B.start <= m /\ m < B.end
      /\ \A m \in Int : AtWork(d, m) => d.start <= m /\ m < d.end
  BY SameWork
<1>2. /\ B.start \in Int /\ B.end \in Int /\ 0 <= B.start /\ B.end <= DayMinutes
      /\ d.start \in Int /\ d.end \in Int /\ 0 <= d.start /\ d.end <= DayMinutes
      /\ d.start = B.start + s /\ d.end = B.end + s
  BY DayFacts DEF SameDayLater
<1>3. DayMinutes \in Nat
  BY Lengths
<1>4. \A m \in S : m \in Int /\ m + s \in T
  <2> TAKE m \in S
  <2>1. m \in Int /\ AtWork(B, m)
    BY <1>3 DEF Times
  <2>2. m + s \in Int /\ AtWork(d, m + s)
    BY <1>1, <2>1
  <2>3. d.start <= m + s /\ m + s < d.end
    BY <1>1, <2>2
  <2> QED
    BY <1>2, <1>3, <2>1, <2>2, <2>3 DEF Times
<1>5. \A m \in T : m \in Int /\ m - s \in S
  <2> TAKE m \in T
  <2>1. m \in Int /\ AtWork(d, m)
    BY <1>3 DEF Times
  <2>2. m - s \in Int /\ (m - s) + s = m
    BY <2>1
  <2>3. AtWork(B, m - s)
    BY <1>1, <2>1, <2>2
  <2>4. B.start <= m - s /\ m - s < B.end
    BY <1>1, <2>2, <2>3
  <2> QED
    BY <1>2, <1>3, <2>1, <2>2, <2>3, <2>4 DEF Times
<1>6. IsFiniteSet(S)
  <2>1. IsFiniteSet(Times)
    BY <1>3, FS_Interval DEF Times
  <2> QED
    BY <2>1, FS_Subset
<1> HIDE DEF S, T
<1>7. f \in Bijection(S, T)
  <2>1. f \in [S -> T]
    BY <1>4
  <2>2. \A a, b \in S : f[a] = f[b] => a = b
    <3> SUFFICES ASSUME NEW a \in S, NEW b \in S, f[a] = f[b] PROVE a = b
      OBVIOUS
    <3>1. a \in Int /\ b \in Int
      BY <1>4
    <3>2. a + s = b + s
      OBVIOUS
    <3> QED
      BY <3>1, <3>2
  <2>3. \A m \in T : \E a \in S : f[a] = m
    <3> TAKE m \in T
    <3>1. m - s \in S /\ f[m - s] = m
      BY <1>5
    <3> QED
      BY <3>1
  <2> HIDE DEF f
  <2>4. f \in Injection(S, T)
    BY <2>1, <2>2 DEF Injection, IsInjective
  <2>5. f \in Surjection(S, T)
    BY <2>1, <2>3 DEF Surjection
  <2> QED
    BY <2>4, <2>5 DEF Bijection
<1>8. Cardinality(T) = Cardinality(S)
  <2>1. ExistsBijection(S, T)
    BY <1>7 DEF ExistsBijection
  <2> QED
    BY <1>6, <2>1, FS_Bijection
<1>9. WorkedMinutes(B) = Cardinality(S) /\ WorkedMinutes(d) = Cardinality(T)
  BY MinutesOfWork DEF SameDayLater, S, T
<1> QED
  BY <1>8, <1>9

(* The first and last minutes of the work of a day.                        *)
FirstOf(day) == Min({x[1] : x \in WorkStretches(day)})
LastOf(day) == Max({x[2] : x \in WorkStretches(day)})

LEMMA SameLength ==
    ASSUME NEW B, NEW d, NEW s, s \in Int, SameDayLater(B, d, s), WorkStretches(B) # {}
    PROVE  LastOf(d) - FirstOf(d) = LastOf(B) - FirstOf(B)
<1> DEFINE W == WorkStretches(B)
           V == WorkStretches(d)
           SW == {x[1] : x \in W}
           EW == {x[2] : x \in W}
           SV == {x[1] : x \in V}
           EV == {x[2] : x \in V}
           zero == 0
<1>1. /\ \A x \in W : /\ x \in Int \X Int /\ 0 <= x[1] /\ x[2] <= DayMinutes
                      /\ <<x[1] + s, x[2] + s>> \in V
      /\ \A y \in V : /\ y \in Int \X Int /\ 0 <= y[1] /\ y[2] <= DayMinutes
                      /\ <<y[1] - s, y[2] - s>> \in W
  BY SameStretches
<1>2. DayMinutes \in Int /\ W # {}
  BY Lengths
<1> HIDE DEF W, V
<1>3. \A n \in SW : n \in Int /\ 0 <= n /\ n + s \in SV
  <2> TAKE n \in SW
  <2>1. PICK x \in W : n = x[1]
    OBVIOUS
  <2>2. n \in Int /\ 0 <= n /\ <<n + s, x[2] + s>> \in V
    BY <1>1, <2>1
  <2> QED
    BY <2>2
<1>4. \A n \in EW : n \in Int /\ n <= DayMinutes /\ n + s \in EV
  <2> TAKE n \in EW
  <2>1. PICK x \in W : n = x[2]
    OBVIOUS
  <2>2. n \in Int /\ n <= DayMinutes /\ <<x[1] + s, n + s>> \in V
    BY <1>1, <2>1
  <2> QED
    BY <2>2
<1>5. \A n \in SV : n \in Int /\ 0 <= n /\ n - s \in SW
  <2> TAKE n \in SV
  <2>1. PICK x \in V : n = x[1]
    OBVIOUS
  <2>2. n \in Int /\ 0 <= n /\ <<n - s, x[2] - s>> \in W
    BY <1>1, <2>1
  <2> QED
    BY <2>2
<1>6. \A n \in EV : n \in Int /\ n <= DayMinutes /\ n - s \in EW
  <2> TAKE n \in EV
  <2>1. PICK x \in V : n = x[2]
    OBVIOUS
  <2>2. n \in Int /\ n <= DayMinutes /\ <<x[1] - s, n - s>> \in W
    BY <1>1, <2>1
  <2> QED
    BY <2>2
<1>7. SW # {} /\ EW # {}
  BY <1>2
<1> HIDE DEF SW, EW, SV, EV
<1>8. SV # {} /\ EV # {}
  BY <1>3, <1>4, <1>7
<1>9. Min(SW) \in SW /\ \A n \in SW : Min(SW) <= n
  <2>1. zero \in Int /\ \A n \in SW : zero <= n
    BY <1>3
  <2> HIDE DEF zero
  <2> QED
    BY <1>3, <1>7, <2>1, LeastTime
<1>10. Min(SV) \in SV /\ \A n \in SV : Min(SV) <= n
  <2>1. zero \in Int /\ \A n \in SV : zero <= n
    BY <1>5
  <2> HIDE DEF zero
  <2> QED
    BY <1>5, <1>8, <2>1, LeastTime
<1>11. Max(EW) \in EW /\ \A n \in EW : n <= Max(EW)
  BY <1>2, <1>4, <1>7, GreatestTime
<1>12. Max(EV) \in EV /\ \A n \in EV : n <= Max(EV)
  BY <1>2, <1>6, <1>8, GreatestTime
<1> DEFINE a == Min(SW)
           b == Min(SV)
           y == Max(EW)
           z == Max(EV)
<1>13. a \in Int /\ b \in Int /\ b <= a + s /\ a <= b - s
  <2>1. a \in Int /\ a + s \in SV /\ b \in Int /\ b - s \in SW
    BY <1>3, <1>5, <1>9, <1>10
  <2> QED
    BY <1>9, <1>10, <2>1
<1>14. y \in Int /\ z \in Int /\ y + s <= z /\ z - s <= y
  <2>1. y \in Int /\ y + s \in EV /\ z \in Int /\ z - s \in EW
    BY <1>4, <1>6, <1>11, <1>12
  <2> QED
    BY <1>11, <1>12, <2>1
<1>15. LastOf(d) = z /\ FirstOf(d) = b /\ LastOf(B) = y /\ FirstOf(B) = a
  BY DEF LastOf, FirstOf, SW, EW, SV, EV, W, V
<1> HIDE DEF a, b, y, z
<1>16. z - b = y - a
  BY <1>13, <1>14
<1> QED
  BY <1>15, <1>16

(* A day with no issues has none when it begins later, and its breaks are  *)
(* outside its no-break zones.                                             *)
LEMMA SameIssues ==
    ASSUME NEW B, NEW d, NEW s, s \in Int, SameDayLater(B, d, s), NEW c, CheckWorkDay(B, c) = {},
           \A b \in d.breaks : ~(b.start < d.start + NoBreak(d)[1] \/ b.end > d.end - NoBreak(d)[2])
    PROVE  CheckWorkDay(d, c) = {}
<1> DEFINE W == WorkStretches(B)
           V == WorkStretches(d)
           inShift(day) == {b \in day.breaks : b.start < day.end /\ b.end > day.start}
           long(day) == {h \in c.breakAfter : LastOf(day) - FirstOf(day) >= h /\ inShift(day) = {}}
           on(day) == {h \in c.maxContinuous : \E x \in WorkStretches(day) : x[2] - x[1] > h}
           lunch(day) == {h \in c.lunchAfter : WorkedMinutes(day) > h
                            /\ ~\E b \in inShift(day) : b.kind = "lunch" /\ b.end - b.start >= c.minLunch}
           zones(day) == {b \in inShift(day) :
                            b.start < day.start + NoBreak(day)[1] \/ b.end > day.end - NoBreak(day)[2]}
           found(day) == {"breakInNoBreakZone" : b \in zones(day)} \cup {"breakRequired" : h \in long(day)}
                           \cup {"maxContinuousWork" : h \in on(day)} \cup {"lunchRequired" : h \in lunch(day)}
<1>1. ~IsWeekOff(B) /\ ~IsWeekOff(d)
  BY DEF IsWeekOff, SameDayLater
<1>2. /\ CheckWorkDay(B, c) = IF W = {} THEN {} ELSE found(B)
      /\ CheckWorkDay(d, c) = IF V = {} THEN {} ELSE found(d)
  BY <1>1 DEF CheckWorkDay, LastOf, FirstOf
<1>3. /\ \A x \in W : x \in Int \X Int /\ <<x[1] + s, x[2] + s>> \in V
      /\ \A y \in V : y \in Int \X Int /\ <<y[1] - s, y[2] - s>> \in W
  BY SameStretches
<1>4. W = {} => V = {}
  BY <1>3
<1>5. CASE V = {}
  BY <1>2, <1>5
<1>6. CASE V # {}
  <2>1. W # {} /\ found(B) = {}
    BY <1>2, <1>4, <1>6
  <2>2. long(B) = {} /\ on(B) = {} /\ lunch(B) = {}
    <3> HIDE DEF zones, long, on, lunch
    <3> QED
      BY <2>1
  <2>3. /\ \A x \in B.breaks : x.start \in Int /\ x.end \in Int
        /\ B.start \in Int /\ B.end \in Int /\ d.start = B.start + s /\ d.end = B.end + s
    BY DEF SameDayLater, Numbered, Layers, Inner
  <2>4. MovedBlocks(inShift(B), inShift(d), s)
    <3>1. MovedBlocks(B.breaks, d.breaks, s)
      BY DEF SameDayLater
    <3>2. ASSUME NEW y \in inShift(d)
          PROVE  \E x \in inShift(B) : y.kind = x.kind /\ y.start = x.start + s /\ y.end = x.end + s
      <4>1. PICK x \in B.breaks : y.kind = x.kind /\ y.start = x.start + s /\ y.end = x.end + s
        BY <3>1 DEF MovedBlocks
      <4>2. x \in inShift(B)
        BY <2>3, <3>2, <4>1
      <4> QED
        BY <4>1, <4>2
    <3>3. ASSUME NEW x \in inShift(B)
          PROVE  \E y \in inShift(d) : y.kind = x.kind /\ y.start = x.start + s /\ y.end = x.end + s
      <4>1. PICK y \in d.breaks : y.kind = x.kind /\ y.start = x.start + s /\ y.end = x.end + s
        BY <3>1 DEF MovedBlocks
      <4>2. y \in inShift(d)
        BY <2>3, <3>3, <4>1
      <4> QED
        BY <4>1, <4>2
    <3> HIDE DEF inShift
    <3> QED
      BY <3>2, <3>3 DEF MovedBlocks
  <2>5. zones(d) = {}
    OBVIOUS
  <2>6. \A x \in inShift(B) : x.start \in Int /\ x.end \in Int
    BY <2>3
  <2> HIDE DEF inShift
  <2>7. LastOf(d) - FirstOf(d) = LastOf(B) - FirstOf(B)
    BY <2>1, SameLength
  <2>8. inShift(d) = {} <=> inShift(B) = {}
    BY <2>4 DEF MovedBlocks
  <2>9. long(d) = long(B)
    BY <2>7, <2>8
  <2>10. on(d) = {}
    <3> SUFFICES ASSUME NEW h \in c.maxContinuous, NEW y \in V, y[2] - y[1] > h PROVE FALSE
      OBVIOUS
    <3> DEFINE x == <<y[1] - s, y[2] - s>>
    <3>1. x \in W /\ y[1] \in Int /\ y[2] \in Int
      BY <1>3
    <3>2. x[2] - x[1] = y[2] - y[1]
      BY <3>1
    <3>3. x[2] - x[1] > h
      BY <3>2
    <3> HIDE DEF x
    <3>4. h \in on(B)
      BY <3>1, <3>3
    <3> QED
      BY <2>2, <3>4
  <2>11. lunch(d) = {}
    <3> SUFFICES ASSUME NEW h \in c.lunchAfter, WorkedMinutes(d) > h,
                        ~\E b \in inShift(d) : b.kind = "lunch" /\ b.end - b.start >= c.minLunch
                 PROVE  FALSE
      OBVIOUS
    <3>1. WorkedMinutes(B) > h
      BY SameMinutes
    <3>2. ASSUME NEW x \in inShift(B), x.kind = "lunch", x.end - x.start >= c.minLunch PROVE FALSE
      <4>1. PICK y \in inShift(d) : y.kind = x.kind /\ y.start = x.start + s /\ y.end = x.end + s
        BY <2>4 DEF MovedBlocks
      <4>2. y.end - y.start = x.end - x.start
        BY <2>6, <4>1
      <4> QED
        BY <3>2, <4>1, <4>2
    <3>3. h \in lunch(B)
      BY <3>1, <3>2
    <3> QED
      BY <2>2, <3>3
  <2> HIDE DEF zones, long, on, lunch
  <2>12. found(d) = {}
    BY <2>2, <2>5, <2>9, <2>10, <2>11
  <2> QED
    BY <1>2, <1>6, <2>12
<1> QED
  BY <1>5, <1>6

-----------------------------------------------------------------------------
(* What a rule makes of a day *)

(* Days whose breaks may be of more kinds than a team's.                   *)
Widest(t, K) ==
    [kinds |-> [l \in Layers |-> IF l = "breaks" THEN t.kinds[l] \cup K ELSE t.kinds[l]]]

LEMMA WiderKinds ==
    ASSUME NEW t, NEW K
    PROVE  /\ TeamDays(t) \subseteq TeamDays(Widest(t, K))
           /\ [id : Nat, kind : K, start : Nat, end : Nat] \subseteq Blocks(Widest(t, K), "breaks")
<1> DEFINE w == Widest(t, K)
<1>1. \A l \in Layers : /\ t.kinds[l] \subseteq w.kinds[l]
                        /\ l = "breaks" => K \subseteq w.kinds[l]
  BY DEF Widest
<1>2. {"channels", "breaks", "activities", "ot"} \subseteq Layers
  BY DEF Layers, Inner
<1> HIDE DEF w
<1>3. \A l \in Layers : Blocks(t, l) \subseteq Blocks(w, l)
  <2> SUFFICES ASSUME NEW l \in Layers PROVE Blocks(t, l) \subseteq Blocks(w, l)
    OBVIOUS
  <2>1. t.kinds[l] \cup WrittenKinds(l) \subseteq w.kinds[l] \cup WrittenKinds(l)
    BY <1>1
  <2> QED
    BY <2>1 DEF Blocks
<1>4. [id : Nat, kind : K, start : Nat, end : Nat] \subseteq Blocks(w, "breaks")
  <2>1. K \subseteq w.kinds["breaks"] \cup WrittenKinds("breaks")
    BY <1>1, <1>2
  <2>2. Nat \subseteq Int
    OBVIOUS
  <2> QED
    BY <2>1, <2>2 DEF Blocks
<1>5. /\ SUBSET Blocks(t, "channels") \subseteq SUBSET Blocks(w, "channels")
      /\ SUBSET Blocks(t, "breaks") \subseteq SUBSET Blocks(w, "breaks")
      /\ SUBSET Blocks(t, "activities") \subseteq SUBSET Blocks(w, "activities")
      /\ SUBSET Blocks(t, "ot") \subseteq SUBSET Blocks(w, "ot")
  BY <1>2, <1>3
<1>6. TeamDays(t) \subseteq TeamDays(w)
  BY <1>5 DEF TeamDays
<1> QED
  BY <1>4, <1>6 DEF w

(* A day with the no-break zones of another rule.                          *)
LEMMA Zoned ==
    ASSUME NEW t, NEW day, Ready(t, day), NEW z \in Nat \X Nat
    PROVE  LET zoned == [day EXCEPT !.noBreak = z]
           IN  /\ Ready(t, zoned) /\ zoned.noBreak = z
               /\ zoned.activities = day.activities /\ zoned.ot = day.ot
<1> DEFINE zoned == [day EXCEPT !.noBreak = z]
<1>1. zoned \in TeamDays(t) /\ day \in TeamDays(t)
  BY DEF Ready, TeamDays
<1>2. /\ zoned.start = day.start /\ zoned.end = day.end /\ zoned.channels = day.channels
      /\ zoned.breaks = day.breaks /\ zoned.activities = day.activities /\ zoned.ot = day.ot
      /\ zoned.noBreak = z
  BY DEF Ready, TeamDays
<1> HIDE DEF zoned
<1>3. ValidDay(zoned)
  <2>1. ValidDay(day)
    BY DEF Ready
  <2> QED
    BY <1>2, <2>1, ValidLayers
<1>4. LongBreaks(zoned)
  BY <1>2 DEF Ready, LongBreaks
<1> QED
  BY <1>1, <1>2, <1>3, <1>4 DEF Ready, zoned

(* A rule whose breaks and zones fit it, as checkWorkRule finds.           *)
FittingRule(K, rule) ==
    /\ AnyRule(K, 1, rule) /\ rule.length >= ShiftMin
    /\ rule.breaks # <<>> => Minutes(rule) + rule.zones[1] + rule.zones[2] <= rule.length

(* Its breaks are inside its shift and outside its zones.                  *)
LEMMA FittingBreaks ==
    ASSUME NEW K, NEW rule, FittingRule(K, rule)
    PROVE  /\ PlaceBreaks(rule) \subseteq [id : Nat, kind : K, start : Nat, end : Nat]
           /\ Apart(PlaceBreaks(rule))
           /\ \A x \in PlaceBreaks(rule) :
                 /\ x.start \in Nat /\ x.end \in Nat /\ x.start < x.end
                 /\ rule.zones[1] <= x.start /\ x.end <= rule.length - rule.zones[2]
           /\ rule.zones \in Nat \X Nat /\ rule.length \in Nat
<1> DEFINE one == 1
<1>1. one > 0 /\ one \in Nat
  OBVIOUS
<1>2. AnyRule(K, one, rule) /\ (rule.breaks # <<>> => Minutes(rule) + rule.zones[1] + rule.zones[2] <= rule.length)
  BY DEF FittingRule
<1> HIDE DEF one
<1>3. /\ PlaceBreaks(rule) \subseteq [id : Nat, kind : K, start : Nat, end : Nat] /\ Apart(PlaceBreaks(rule))
      /\ \A x \in PlaceBreaks(rule) : x.start \in Nat /\ rule.zones[1] <= x.start /\ x.end - x.start >= one
  BY <1>2, BreaksPlaced
<1>4. \A x \in PlaceBreaks(rule) : x.end <= rule.length - rule.zones[2]
  BY <1>2, BreaksEnd
<1>5. rule.zones \in Nat \X Nat /\ rule.length \in Nat
  BY <1>2 DEF AnyRule
<1>6. \A x \in PlaceBreaks(rule) : x.start \in Nat /\ x.end \in Nat
  BY <1>3
<1>7. \A x \in PlaceBreaks(rule) : x.start < x.end
  BY <1>1, <1>3, <1>6
<1> QED
  BY <1>3, <1>4, <1>5, <1>6, <1>7

LEMMA NothingFits ==
    ASSUME NEW l, NEW s, NEW e
    PROVE  Fit(l, {}, s, e)
BY DEF Fit, Apart

(* A valid day without activities and overtime.                            *)
PlainDay(d, s, e, breaks) ==
    /\ Numbered(d) /\ ValidDay(d) /\ d.activities = {} /\ d.ot = {}
    /\ d.start = s /\ d.end = e /\ d.breaks = breaks

(* The sample day of a rule.                                               *)
LEMMA SampleDay ==
    ASSUME NEW K, NEW rule, FittingRule(K, rule), rule.length <= DayMinutes,
           NEW B, B = BareDay(0, rule.length, PlaceBreaks(rule))
    PROVE  PlainDay(B, 0, rule.length, PlaceBreaks(rule))
<1>1. /\ B.start = 0 /\ B.end = rule.length /\ B.breaks = PlaceBreaks(rule)
      /\ B.channels = {} /\ B.activities = {} /\ B.ot = {}
      /\ B["channels"] = {} /\ B["activities"] = {} /\ B["ot"] = {}
      /\ B["breaks"] = PlaceBreaks(rule)
  BY DEF BareDay
<1>2. /\ Apart(PlaceBreaks(rule)) /\ rule.zones[1] \in Nat /\ rule.zones[2] \in Nat /\ rule.length \in Nat
      /\ \A x \in PlaceBreaks(rule) :
            /\ x.start \in Nat /\ x.end \in Nat /\ x.start < x.end
            /\ rule.zones[1] <= x.start /\ x.end <= rule.length - rule.zones[2]
  BY FittingBreaks
<1>3. rule.length >= ShiftMin /\ DayMinutes \in Nat /\ ShiftMin \in Nat
  BY Lengths DEF FittingRule
<1>4. Numbered(B)
  BY <1>1, <1>2 DEF Numbered, Layers, Inner
<1>5. ValidDay(B)
  <2>1. Frame(B.start, B.end)
    BY <1>1, <1>2, <1>3 DEF Frame
  <2>2. Fit("breaks", B.breaks, B.start, B.end)
    BY <1>1, <1>2, <1>3 DEF Fit, Inner
  <2>3. /\ Fit("channels", B.channels, B.start, B.end) /\ Fit("activities", B.activities, B.start, B.end)
        /\ Fit("ot", B.ot, B.start, B.end)
    BY <1>1, NothingFits
  <2> QED
    BY <2>1, <2>2, <2>3, ValidLayers
<1> QED
  BY <1>1, <1>4, <1>5 DEF PlainDay

(* A pattern whose breaks, N, fit the day it starts in.                    *)
FittingPattern(t, p, N) ==
    /\ p.start \in Int /\ p.end \in Int /\ 0 <= p.start /\ p.start < p.end /\ p.end <= DayMinutes
    /\ p.end - p.start >= ShiftMin
    /\ N = Shifted(p.breaks, p.start) /\ LayerOf(t, "breaks", N) /\ Fit("breaks", N, p.start, p.end)

(* The day it makes of one without activities and overtime.                *)
LEMMA PatternDay ==
    ASSUME NEW t, NEW day, Ready(t, day), day.activities = {}, day.ot = {},
           NEW p, NEW N, FittingPattern(t, p, N),
           NEW P, P = {p}, NEW off, ~off, NEW d, d = ApplyWorkRule(day, P, off)
    PROVE  PlainDay(d, p.start, p.end, N) /\ NoBreak(d) = day.noBreak
<1> DEFINE q == CHOOSE x \in P : TRUE
           s == IF P = {} THEN day.start ELSE q.start
           e == IF P = {} THEN day.end ELSE q.end
           breaks == IF P = {} THEN day.breaks ELSE Shifted(q.breaks, s)
           channels == IF day.start = s /\ day.end = e THEN day.channels ELSE FitChannels(day.channels, s, e)
           activities == FittedActivities(day, s, e, off)
           ot == {o \in day.ot : o.end <= s \/ o.start >= e}
           none == {}
<1> USE DEF FittingPattern
<1>1. P # {} /\ q = p
  OBVIOUS
<1>2. d = Rebuilt(day, s, e, channels, breaks, activities, ot)
  BY DEF ApplyWorkRule, Rebuilt, FittedActivities, CutTo
<1>3. s = p.start /\ e = p.end /\ breaks = N
  <2> HIDE DEF q
  <2> QED
    BY <1>1
<1> HIDE DEF s, e, breaks
<1>11. activities = none /\ ot = none
  BY DEF FittedActivities, CutTo
<1>4. /\ LayerOf(t, "channels", day.channels) /\ Fit("channels", day.channels, day.start, day.end)
      /\ day \in TeamDays(t)
  BY TeamDay, ValidLayers DEF Ready, Layers, Inner, LayerOf
<1> HIDE DEF activities, ot
<1>5. LayerOf(t, "channels", channels) /\ Fit("channels", channels, s, e)
  <2>1. LayerOf(t, "channels", FitChannels(day.channels, s, e)) /\ Fit("channels", FitChannels(day.channels, s, e), s, e)
    BY <1>3, <1>4, ChannelsFitted
  <2> QED
    BY <1>4, <2>1
<1> HIDE DEF channels
<1>6. LayerOf(t, "activities", none) /\ LayerOf(t, "ot", none)
  BY DEF LayerOf
<1>7. d = Rebuilt(day, s, e, channels, N, none, none)
  BY <1>2, <1>3, <1>11
<1>12. none = {}
  OBVIOUS
<1> HIDE DEF none
<1>8. /\ d \in TeamDays(t) /\ d.noBreak = day.noBreak /\ d.start = s /\ d.end = e
      /\ d.channels = channels /\ d.breaks = N /\ d.activities = none /\ d.ot = none
  BY <1>3, <1>5, <1>6, <1>7, RebuiltDay
<1>9. ValidDay(d)
  <2>1. Frame(s, e)
    BY <1>3 DEF Frame
  <2>2. Fit("channels", d.channels, d.start, d.end) /\ Fit("breaks", d.breaks, d.start, d.end)
    BY <1>3, <1>5, <1>8
  <2>3. Fit("activities", d.activities, d.start, d.end) /\ Fit("ot", d.ot, d.start, d.end)
    BY <1>8, <1>12, NothingFits
  <2>4. Frame(d.start, d.end)
    BY <1>8, <2>1
  <2> QED
    BY <2>2, <2>3, <2>4, ValidLayers
<1>10. Numbered(d) /\ NoBreak(d) = d.noBreak
  BY <1>8, TeamDayNumbered, TeamDay
<1> QED
  BY <1>3, <1>8, <1>9, <1>10, <1>12 DEF PlainDay

(* The day a rule makes, from a start that does not run past midnight.     *)
LEMMA RuleMakesDay ==
    ASSUME NEW K, NEW rule, FittingRule(K, rule), NEW s \in Nat, s + rule.length <= DayMinutes,
           NEW t, NEW day, Ready(t, day), day.noBreak = rule.zones, day.activities = {}, day.ot = {},
           NEW p, p = WorkRulePattern(rule, s), NEW P, P = {p}, NEW off, ~off, NEW d, d = ApplyWorkRule(day, P, off)
    PROVE  /\ PlainDay(d, s, s + rule.length, Shifted(PlaceBreaks(rule), s))
           /\ NoBreak(d) = rule.zones
<1> DEFINE w == Widest(t, K)
           S == PlaceBreaks(rule)
           N == Shifted(S, s)
           none == 0
           length == rule.length
<1>1. /\ S \subseteq [id : Nat, kind : K, start : Nat, end : Nat] /\ Apart(S)
      /\ \A x \in S : /\ x.start \in Nat /\ x.end \in Nat /\ x.start < x.end
                      /\ rule.zones[1] <= x.start /\ x.end <= rule.length - rule.zones[2]
      /\ rule.zones \in Nat \X Nat /\ rule.length \in Nat
  BY FittingBreaks
<1>2. length \in Nat /\ length >= ShiftMin /\ DayMinutes \in Nat /\ ShiftMin \in Nat /\ ShiftMin > 0
  BY <1>1, Lengths DEF FittingRule
<1>3. /\ p.start = s /\ p.breaks = S /\ p.end = Min({DayMinutes, s + length})
  BY DEF WorkRulePattern
<1>4. Min({DayMinutes, s + length}) = s + length
  <2> DEFINE to == s + length
  <2>1. to \in Int /\ to <= DayMinutes /\ DayMinutes \in Int
    BY <1>2
  <2> HIDE DEF to
  <2>2. Min({DayMinutes, to}) = to
    BY <2>1, MinOfTwo
  <2> QED
    BY <2>2 DEF to
<1>5. /\ TeamDays(t) \subseteq TeamDays(w)
      /\ [id : Nat, kind : K, start : Nat, end : Nat] \subseteq Blocks(w, "breaks")
  BY WiderKinds
<1> HIDE DEF w, S
<1>6. Ready(w, day)
  BY <1>5 DEF Ready
<1>8. LayerOf(w, "breaks", S)
  BY <1>1, <1>5 DEF LayerOf
<1>9. Fit("breaks", S, none, length)
  <2>1. rule.zones[1] \in Nat /\ rule.zones[2] \in Nat
    BY <1>1
  <2>2. \A x \in S : /\ x.start < x.end /\ 0 <= x.start /\ x.end <= DayMinutes
                     /\ none <= x.start /\ x.end <= length
    BY <1>1, <1>2, <2>1
  <2> HIDE DEF none, length
  <2> QED
    BY <1>1, <2>2 DEF Fit, Inner
<1>10. none \in Int /\ length \in Int /\ s \in Int
  BY <1>2
<1>11. \A x \in S : 0 <= x.start + s /\ x.end + s <= DayMinutes
  <2>1. rule.zones[2] \in Nat
    BY <1>1
  <2> QED
    BY <1>1, <1>2, <2>1
<1>12. none + s = s /\ length + s = s + length
  BY <1>2
<1> HIDE DEF none, length, N
<1>13. LayerOf(w, "breaks", N) /\ Fit("breaks", N, s, s + length)
  <2>1. "breaks" \in Layers
    BY DEF Layers, Inner
  <2>2. Fit("breaks", Shifted(S, s), none + s, length + s)
    BY <1>8, <1>9, <1>10, <1>11, <2>1, ShiftedFits
  <2>3. LayerOf(w, "breaks", Shifted(S, s))
    BY <1>8, <1>10, ShiftedBlocks
  <2> QED
    BY <1>12, <2>2, <2>3 DEF N
<1>14. p.start \in Int /\ p.end \in Int /\ 0 <= p.start /\ p.start < p.end /\ p.end <= DayMinutes
       /\ p.end - p.start >= ShiftMin
  <2>1. p.start = s /\ p.end = s + length /\ s + length <= DayMinutes
    BY <1>3, <1>4 DEF length
  <2> QED
    BY <1>2, <2>1
<1>15. N = Shifted(p.breaks, p.start) /\ p.end = s + length
  BY <1>3, <1>4 DEF N
<1>16. Fit("breaks", N, p.start, p.end)
  BY <1>3, <1>13, <1>15
<1>18. FittingPattern(w, p, N)
  BY <1>13, <1>14, <1>15, <1>16 DEF FittingPattern
<1>17. PlainDay(d, p.start, p.end, N) /\ NoBreak(d) = day.noBreak
  BY <1>6, <1>18, PatternDay
<1> QED
  BY <1>3, <1>15, <1>17 DEF N, S, length

(* What checkWorkRule looks at, when it finds nothing.                     *)
LEMMA RuleWithoutIssues ==
    ASSUME NEW rule \in WorkRules, NEW c, CheckWorkRule(rule, c) = {}
    PROVE  /\ FittingRule({"break", "lunch"}, rule)
           /\ CheckWorkDay(BareDay(0, rule.length, PlaceBreaks(rule)), c) = {}
<1>1. /\ rule.length \in Nat /\ rule.zones \in Nat \X Nat /\ rule.length >= ShiftMin
      /\ rule.breaks \in Seq([kind : {"break", "lunch"}, minutes : Nat \ {0}])
  BY DEF WorkRules
<1> DEFINE R == [kind : {"break", "lunch"}, minutes : Nat \ {0}]
           Q == [kind : {"break", "lunch"}, minutes : Nat]
<1>2. R \subseteq Q /\ \A x \in R : x.minutes >= 1
  OBVIOUS
<1>3. rule.breaks \in Seq(Q)
  <2>1. rule.breaks \in Seq(R)
    BY <1>1
  <2> HIDE DEF R, Q
  <2> QED
    BY <1>2, <2>1
<1>4. \A i \in DOMAIN rule.breaks : rule.breaks[i].minutes >= 1
  <2>1. rule.breaks \in Seq(R)
    BY <1>1
  <2> HIDE DEF R
  <2>2. \A i \in DOMAIN rule.breaks : rule.breaks[i] \in R
    BY <2>1
  <2> QED
    BY <1>2, <2>2
<1>5. AnyRule({"break", "lunch"}, 1, rule)
  BY <1>1, <1>3, <1>4 DEF AnyRule
<1>6. /\ ~(rule.breaks # <<>> /\ Minutes(rule) + rule.zones[1] + rule.zones[2] > rule.length)
      /\ CheckWorkDay(BareDay(0, rule.length, PlaceBreaks(rule)), c) = {}
  <2> DEFINE wide == rule.breaks # <<>> /\ Minutes(rule) + rule.zones[1] + rule.zones[2] > rule.length
             full == Minutes(rule) >= rule.length
             issues == CheckWorkDay(BareDay(0, rule.length, PlaceBreaks(rule)), c)
  <2>1. (IF wide THEN {"breakInNoBreakZone"} ELSE IF full THEN {"breakRequired"} ELSE issues) = {}
    BY DEF CheckWorkRule
  <2> HIDE DEF wide, full, issues
  <2>2. ~wide /\ issues = {}
    BY <2>1
  <2> QED
    BY <2>2 DEF wide, issues
<1>7. rule.breaks # <<>> => Minutes(rule) + rule.zones[1] + rule.zones[2] <= rule.length
  <2>1. Minutes(rule) \in Nat
    BY <1>5, BreakMinutes
  <2> QED
    BY <1>1, <1>6, <2>1
<1> QED
  BY <1>1, <1>5, <1>6, <1>7 DEF FittingRule

(* The breaks of a fitting rule, wherever its shift begins.                *)
LEMMA LaterBreaks ==
    ASSUME NEW K, NEW rule, FittingRule(K, rule), NEW s, s \in Int,
           NEW d, PlainDay(d, s, s + rule.length, Shifted(PlaceBreaks(rule), s)), NoBreak(d) = rule.zones
    PROVE  /\ MovedBlocks(PlaceBreaks(rule), d.breaks, s)
           /\ \A b \in d.breaks : ~(b.start < d.start + NoBreak(d)[1] \/ b.end > d.end - NoBreak(d)[2])
<1>1. /\ PlaceBreaks(rule) \subseteq [id : Nat, kind : K, start : Nat, end : Nat]
      /\ \A x \in PlaceBreaks(rule) :
            /\ x.start \in Nat /\ x.end \in Nat
            /\ rule.zones[1] <= x.start /\ x.end <= rule.length - rule.zones[2]
      /\ rule.zones \in Nat \X Nat /\ rule.length \in Nat
  BY FittingBreaks
<1>2. d.start = s /\ d.end = s + rule.length /\ d.breaks = Shifted(PlaceBreaks(rule), s)
  BY DEF PlainDay
<1>3. MovedBlocks(PlaceBreaks(rule), d.breaks, s)
  BY <1>1, <1>2, ShiftedAreMoved
<1>4. ASSUME NEW b \in d.breaks PROVE ~(b.start < d.start + rule.zones[1] \/ b.end > d.end - rule.zones[2])
  <2>1. PICK x \in PlaceBreaks(rule) : b.start = x.start + s /\ b.end = x.end + s
    BY <1>3 DEF MovedBlocks
  <2>2. rule.zones[1] \in Nat /\ rule.zones[2] \in Nat
    BY <1>1
  <2> QED
    BY <1>1, <1>2, <2>1, <2>2
<1> QED
  BY <1>3, <1>4

(* A rule without issues makes a day without issues, whichever day of the  *)
(* team's it is applied to.                                                *)
LEMMA RuleKeepsItsWord ==
    ASSUME NEW rule \in WorkRules, NEW c, CheckWorkRule(rule, c) = {},
           NEW s, s \in Nat, s + rule.length <= DayMinutes,
           NEW t, NEW day, Ready(t, day), day.activities = {}, day.ot = {}, day.noBreak = rule.zones,
           NEW p, p = WorkRulePattern(rule, s), NEW P, P = {p}, NEW off, ~off,
           NEW d, d = ApplyWorkRule(day, P, off)
    PROVE  ValidDay(d) /\ CheckWorkDay(d, c) = {}
<1> DEFINE K == {"break", "lunch"}
           none == 0
           length == rule.length
           B == BareDay(none, length, PlaceBreaks(rule))
<1>1. FittingRule(K, rule) /\ CheckWorkDay(B, c) = {}
  BY RuleWithoutIssues
<1>2. s \in Int /\ length \in Nat /\ length <= DayMinutes /\ none + s = s /\ length + s = s + length
  <2>1. length \in Nat
    BY DEF WorkRules
  <2>2. DayMinutes \in Nat
    BY Lengths
  <2> QED
    BY <2>1, <2>2
<1>3. PlainDay(B, none, length, PlaceBreaks(rule))
  <2> HIDE DEF K
  <2> QED
    BY <1>1, <1>2, SampleDay
<1>4. PlainDay(d, s, s + length, Shifted(PlaceBreaks(rule), s)) /\ NoBreak(d) = rule.zones
  <2> HIDE DEF K
  <2> QED
    BY <1>1, <1>2, RuleMakesDay
<1>5. /\ MovedBlocks(PlaceBreaks(rule), d.breaks, s)
      /\ \A b \in d.breaks : ~(b.start < d.start + NoBreak(d)[1] \/ b.end > d.end - NoBreak(d)[2])
  <2> HIDE DEF K
  <2> QED
    BY <1>1, <1>2, <1>4, LaterBreaks
<1> HIDE DEF K, none, length, B
<1>6. SameDayLater(B, d, s)
  BY <1>2, <1>3, <1>4, <1>5 DEF SameDayLater, PlainDay
<1>7. CheckWorkDay(d, c) = {}
  BY <1>1, <1>2, <1>5, <1>6, SameIssues
<1> QED
  BY <1>4, <1>7 DEF PlainDay

(* A work rule that has no issues of its own makes, of any of the team's   *)
(* days without activities and overtime and from any start that does not   *)
(* run past midnight, a valid day without issues (workRules.ts:139).       *)
THEOREM RulesAlwaysKeepTheirWord == EditsSpec => []RulesKeepTheirWord
<1>1. EditsInit => EditsInv
  BY InitialDays
<1>2. EditsInv /\ [EditsNext]_editVars => EditsInv'
  BY InvariantKept
<1>3. EditsInv => RulesKeepTheirWord
  <2> SUFFICES ASSUME EditsInv, stored = team.days,
                      NEW r \in Rules, CheckWorkRule(r, Compliance) = {},
                      NEW s \in 0 .. DayMinutes - r.length,
                      NEW a \in Staff, stored[a].activities \cup stored[a].ot = {}
               PROVE  LET zoned == [stored[a] EXCEPT !.noBreak = r.zones]
                          day   == ApplyWorkRule(zoned, {WorkRulePattern(r, s)}, FALSE)
                      IN  ValidDay(day) /\ CheckWorkDay(day, Compliance) = {}
    BY DEF RulesKeepTheirWord
  <2> DEFINE zoned == [stored[a] EXCEPT !.noBreak = r.zones]
             p == WorkRulePattern(r, s)
             P == {p}
             off == FALSE
             day == ApplyWorkRule(zoned, P, off)
  <2>1. r \in WorkRules /\ r.length \in Nat /\ r.zones \in Nat \X Nat
    BY EditsAssumption DEF WorkRules
  <2>2. s \in Nat /\ s + r.length <= DayMinutes
    BY <2>1, Lengths
  <2>3. Ready(team, stored[a]) /\ stored[a].activities = {} /\ stored[a].ot = {}
    <3>1. team \in Teams
      BY DEF EditsInv, EditsTypeOK
    <3>2. team.days[a] \in TeamDays(team) /\ ValidDay(team.days[a]) /\ LongBreaks(team.days[a])
      BY <3>1, TeamsData
    <3> QED
      BY <3>2 DEF Ready
  <2>4. Ready(team, zoned) /\ zoned.noBreak = r.zones /\ zoned.activities = {} /\ zoned.ot = {}
    BY <2>1, <2>3, Zoned
  <2>5. ~off
    OBVIOUS
  <2>6. ValidDay(day) /\ CheckWorkDay(day, Compliance) = {}
    <3> HIDE DEF zoned, p, off
    <3>1. p = WorkRulePattern(r, s)
      BY DEF p
    <3>2. P = {p}
      OBVIOUS
    <3> HIDE DEF P, day
    <3>3. day = ApplyWorkRule(zoned, P, off)
      BY DEF day
    <3> QED
      BY <2>1, <2>2, <2>4, <2>5, <3>1, <3>2, <3>3, RuleKeepsItsWord
  <2> QED
    BY <2>6
<1> QED
  BY <1>1, <1>2, <1>3, PTL DEF EditsSpec

-----------------------------------------------------------------------------
(* The first few of an order *)

(* A strict order R of the elements of S, in which any two are comparable. *)
Ordered(R, S) ==
    /\ \A x, y \in S : <<x, y>> \in R => <<y, x>> \notin R /\ x # y
    /\ \A x, y, z \in S : <<x, y>> \in R /\ <<y, z>> \in R => <<x, z>> \in R
    /\ \A x, y \in S : x # y => <<x, y>> \in R \/ <<y, x>> \in R

BeforeIn(R, S, x) == {y \in S : <<y, x>> \in R}

(* n, kept between 0 and m.                                                *)
UpTo(n, m) == IF n < 0 THEN 0 ELSE IF n > m THEN m ELSE n

LEMMA FirstFew ==
    ASSUME NEW R, NEW S, IsFiniteSet(S), Ordered(R, S), NEW n, n \in Int
    PROVE  Cardinality({x \in S : Cardinality(BeforeIn(R, S, x)) < n}) = UpTo(n, Cardinality(S))
<1> DEFINE N == Cardinality(S)
           f == [x \in S |-> Cardinality(BeforeIn(R, S, x))]
           few == {x \in S : Cardinality(BeforeIn(R, S, x)) < n}
           k == UpTo(n, N)
           last == N - 1
           top == k - 1
<1>1. N \in Nat /\ (N = 0 <=> S = {})
  BY FS_CardinalityType, FS_EmptySet
<1>2. \A x \in S : /\ IsFiniteSet(BeforeIn(R, S, x)) /\ Cardinality(BeforeIn(R, S, x)) \in Nat
                   /\ BeforeIn(R, S, x) \subseteq S /\ x \notin BeforeIn(R, S, x)
  <2> TAKE x \in S
  <2>1. BeforeIn(R, S, x) \subseteq S /\ x \notin BeforeIn(R, S, x)
    BY DEF BeforeIn, Ordered
  <2> QED
    BY <2>1, FS_Subset, FS_CardinalityType
<1>3. \A x \in S : f[x] \in Nat /\ f[x] = Cardinality(BeforeIn(R, S, x))
  BY <1>2
<1>4. ASSUME NEW x \in S, NEW y \in S, <<x, y>> \in R PROVE f[x] < f[y]
  <2>1. BeforeIn(R, S, x) \subseteq BeforeIn(R, S, y)
    BY <1>4 DEF BeforeIn, Ordered
  <2>2. x \in BeforeIn(R, S, y) /\ x \notin BeforeIn(R, S, x)
    BY <1>2, <1>4 DEF BeforeIn
  <2>3. Cardinality(BeforeIn(R, S, x)) <= Cardinality(BeforeIn(R, S, y))
        /\ Cardinality(BeforeIn(R, S, x)) # Cardinality(BeforeIn(R, S, y))
    BY <1>2, <2>1, <2>2, FS_Subset
  <2> QED
    BY <1>2, <1>3, <2>3
<1>5. \A x \in S : f[x] < N
  <2> TAKE x \in S
  <2>1. Cardinality(BeforeIn(R, S, x)) <= N /\ Cardinality(BeforeIn(R, S, x)) # N
    BY <1>2, FS_Subset
  <2> QED
    BY <1>1, <1>3, <2>1
<1>6. DOMAIN f = S
  OBVIOUS
<1>7. few = {x \in S : f[x] < n}
  OBVIOUS
<1> HIDE DEF f, few
<1>8. ASSUME NEW x \in S, NEW y \in S, f[x] = f[y] PROVE x = y
  <2> SUFFICES ASSUME x # y PROVE FALSE
    OBVIOUS
  <2>1. <<x, y>> \in R \/ <<y, x>> \in R
    BY DEF Ordered
  <2> QED
    BY <1>3, <1>4, <1>8, <2>1
<1>9. last \in Int /\ IsFiniteSet(0 .. last) /\ Cardinality(0 .. last) = N
  <2>1. last \in Int /\ (0 > last <=> N = 0) /\ last - 0 + 1 = N
    BY <1>1
  <2> DEFINE none == 0
  <2>2. none \in Int /\ (none > last <=> N = none) /\ last - none + 1 = N
    BY <2>1
  <2> HIDE DEF none, last
  <2>3. IsFiniteSet(none .. last) /\ Cardinality(none .. last) = IF none > last THEN 0 ELSE last - none + 1
    BY <2>1, <2>2, FS_Interval
  <2> QED
    BY <1>1, <2>1, <2>2, <2>3 DEF none
<1>10. f \in [S -> 0 .. last]
  <2>1. \A x \in S : f[x] \in 0 .. last
    BY <1>1, <1>3, <1>5
  <2>2. f = [x \in S |-> f[x]]
    BY DEF f
  <2> QED
    BY <2>1, <2>2
<1>11. f \in Surjection(S, 0 .. last)
  <2>1. f \in Injection(S, 0 .. last)
    BY <1>8, <1>10 DEF Injection, IsInjective
  <2> HIDE DEF last
  <2> QED
    BY <1>9, <2>1, FS_Injection
<1>12. \A i \in 0 .. last : \E x \in S : f[x] = i
  BY <1>11 DEF Surjection
<1>13. k \in Nat /\ k <= N /\ \A i \in Nat : i < k <=> i < n /\ i < N
  BY <1>1 DEF UpTo
<1> HIDE DEF k
<1>14. \A x \in S : x \in few <=> f[x] < k
  BY <1>3, <1>5, <1>7, <1>13
<1>15. few \subseteq S /\ IsFiniteSet(few)
  BY <1>7, FS_Subset
<1>16. top \in Int /\ IsFiniteSet(0 .. top) /\ Cardinality(0 .. top) = k
  <2>1. top \in Int /\ (0 > top <=> k = 0) /\ top - 0 + 1 = k
    BY <1>13
  <2> DEFINE none == 0
  <2>2. none \in Int /\ (none > top <=> k = none) /\ top - none + 1 = k
    BY <2>1
  <2> HIDE DEF none, top
  <2>3. IsFiniteSet(none .. top) /\ Cardinality(none .. top) = IF none > top THEN 0 ELSE top - none + 1
    BY <2>1, <2>2, FS_Interval
  <2> QED
    BY <1>13, <2>1, <2>2, <2>3 DEF none
<1> DEFINE h == [x \in few |-> f[x]]
<1>17. h \in Bijection(few, 0 .. top)
  <2>1. h \in [few -> 0 .. top]
    BY <1>3, <1>13, <1>14, <1>15
  <2>2. \A x, y \in few : h[x] = h[y] => x = y
    BY <1>8, <1>15
  <2>3. \A i \in 0 .. top : \E x \in few : h[x] = i
    <3> TAKE i \in 0 .. top
    <3>1. i \in 0 .. last /\ i < k
      BY <1>1, <1>13
    <3>2. PICK x \in S : f[x] = i
      BY <1>12, <3>1
    <3>3. x \in few
      BY <1>14, <3>1, <3>2
    <3> QED
      BY <3>2, <3>3
  <2> HIDE DEF h, top
  <2> QED
    BY <2>1, <2>2, <2>3 DEF Bijection, Injection, IsInjective, Surjection
<1>18. Cardinality(0 .. top) = Cardinality(few)
  <2>1. ExistsBijection(few, 0 .. top)
    BY <1>17 DEF ExistsBijection
  <2> HIDE DEF top
  <2> QED
    BY <1>15, <2>1, FS_Bijection
<1> QED
  BY <1>16, <1>18 DEF few, k

-----------------------------------------------------------------------------
(* Folds over sets *)

(* What a fold has for each part of S, where F makes the values V.         *)
Folded(S, V, base, F, g) ==
    /\ g \in [SUBSET S -> V] /\ g[{}] = base
    /\ \A T \in SUBSET S : T # {} =>
          LET x == CHOOSE x \in T : TRUE IN g[T] = F[<<x, g[T \ {x}]>>]

LEMMA FoldExists ==
    ASSUME NEW S, IsFiniteSet(S), NEW V, NEW base \in V, NEW F \in [S \X V -> V]
    PROVE  \E g : Folded(S, V, base, F, g)
<1> DEFINE Small(k) == {T \in SUBSET S : Cardinality(T) <= k}
           step(T, g) == IF T = {} THEN base
                         ELSE LET x == CHOOSE x \in T : TRUE IN F[<<x, g[T \ {x}]>>]
           Upto(k, g) == \A T \in Small(k) : g[T] = step(T, g)
           G == {k \in Nat : \E g \in [SUBSET S -> V] : Upto(k, g)}
<1>1. \A T \in SUBSET S : Cardinality(T) \in Nat /\ IsFiniteSet(T) /\ (Cardinality(T) = 0 <=> T = {})
  BY FS_Subset, FS_CardinalityType, FS_EmptySet
<1>2. \A T \in SUBSET S : T # {} =>
         LET x == CHOOSE x \in T : TRUE
         IN  x \in T /\ T \ {x} \in SUBSET S /\ Cardinality(T \ {x}) = Cardinality(T) - 1
  BY <1>1, FS_RemoveElement
<1>3. \A g \in [SUBSET S -> V] : \A T \in SUBSET S : step(T, g) \in V
  BY <1>2
<1>4. 0 \in G
  <2> DEFINE g == [T \in SUBSET S |-> base]
  <2>1. \A T \in Small(0) : T = {}
    BY <1>1
  <2>2. Upto(0, g)
    BY <2>1
  <2>3. g \in [SUBSET S -> V]
    OBVIOUS
  <2> HIDE DEF g, Upto
  <2> QED
    BY <2>2, <2>3
<1>5. ASSUME NEW k \in G PROVE k + 1 \in G
  <2>1. PICK g \in [SUBSET S -> V] : Upto(k, g)
    BY <1>5
  <2> DEFINE h == [T \in SUBSET S |-> IF Cardinality(T) <= k THEN g[T] ELSE step(T, g)]
  <2>2. ASSUME NEW T \in Small(k + 1) PROVE h[T] = step(T, h)
    <3>1. CASE T = {}
      <4>1. h[T] = g[T]
        BY <1>1, <1>5, <3>1
      <4> QED
        BY <1>1, <1>5, <2>1, <3>1, <4>1
    <3>2. CASE T # {}
      <4> DEFINE x == CHOOSE x \in T : TRUE
      <4>1. T \ {x} \in SUBSET S /\ Cardinality(T \ {x}) <= k
        BY <1>1, <1>2, <1>5, <3>2
      <4>2. h[T \ {x}] = g[T \ {x}]
        BY <4>1
      <4>3. h[T] = F[<<x, g[T \ {x}]>>]
        <5>1. CASE Cardinality(T) <= k
          BY <2>1, <3>2, <5>1
        <5>2. CASE ~(Cardinality(T) <= k)
          BY <3>2, <5>2
        <5> QED
          BY <5>1, <5>2
      <4> HIDE DEF h
      <4> QED
        BY <3>2, <4>2, <4>3
    <3> QED
      BY <3>1, <3>2
  <2>3. h \in [SUBSET S -> V]
    <3> HIDE DEF step
    <3> QED
      BY <1>3, <2>1
  <2> HIDE DEF h
  <2>4. Upto(k + 1, h)
    BY <2>2
  <2> HIDE DEF Upto
  <2> QED
    BY <1>5, <2>3, <2>4
<1>6. G = Nat
  <2> HIDE DEF G
  <2>1. G \in SUBSET Nat
    BY DEF G
  <2> QED
    BY <1>4, <1>5, <2>1, NatSetInduction
<1>7. PICK g \in [SUBSET S -> V] : Upto(Cardinality(S), g)
  BY <1>1, <1>6
<1>8. \A T \in SUBSET S : g[T] = step(T, g)
  <2>1. \A T \in SUBSET S : Cardinality(T) <= Cardinality(S)
    BY FS_Subset
  <2> QED
    BY <1>7, <2>1
<1>9. g[{}] = base
  BY <1>8
<1> QED
  BY <1>8, <1>9 DEF Folded

-----------------------------------------------------------------------------
(* The planner's passes: overtime on a channel *)

(* An agent's overtime on a channel.                                       *)
OnOt(crew, a, channel, t) == Cardinality({o \in crew[a].ot : o.kind = channel /\ Covers(o, t)})

CountsOf(g, crew, channel, t) ==
    g = [T \in SUBSET DOMAIN crew |->
           IF T = {} THEN 0
           ELSE LET x == CHOOSE x \in T : TRUE IN g[T \ {x}] + OnOt(crew, x, channel, t)]

LEMMA CountsExist ==
    ASSUME NEW crew, IsFiniteSet(DOMAIN crew), NEW channel, NEW t,
           \A a \in DOMAIN crew : OnOt(crew, a, channel, t) \in Nat
    PROVE  \E g : CountsOf(g, crew, channel, t)
<1> DEFINE A == DOMAIN crew
           on(a) == OnOt(crew, a, channel, t)
           F == [p \in A \X Nat |-> p[2] + on(p[1])]
<1>1. F \in [A \X Nat -> Nat] /\ \A a \in A : \A n \in Nat : F[<<a, n>>] = n + on(a)
  <2> HIDE DEF on
  <2>1. \A a \in A : on(a) \in Nat
    BY DEF on
  <2> QED
    BY <2>1
<1> HIDE DEF F
<1> DEFINE none == 0
<1>2. none \in Nat /\ none = 0
  OBVIOUS
<1> HIDE DEF none
<1>3. PICK g : Folded(A, Nat, none, F, g)
  BY <1>1, <1>2, FoldExists
<1>4. g \in [SUBSET A -> Nat] /\ g[{}] = 0
  BY <1>2, <1>3 DEF Folded
<1>5. ASSUME NEW T \in SUBSET A, T # {}
      PROVE  LET x == CHOOSE x \in T : TRUE IN g[T] = g[T \ {x}] + on(x)
  <2> DEFINE x == CHOOSE x \in T : TRUE
  <2>1. x \in T
    BY <1>5
  <2>2. g[T] = F[<<x, g[T \ {x}]>>]
    BY <1>3, <1>5 DEF Folded
  <2> HIDE DEF x, on
  <2>3. x \in A /\ g[T \ {x}] \in Nat
    BY <1>4, <2>1
  <2>4. g[T] = g[T \ {x}] + on(x)
    BY <1>1, <2>2, <2>3
  <2> QED
    BY <2>4 DEF x
<1> DEFINE step(T) == IF T = {} THEN 0 ELSE LET x == CHOOSE x \in T : TRUE IN g[T \ {x}] + on(x)
<1>6. \A T \in SUBSET A : g[T] = step(T)
  <2> HIDE DEF on
  <2> QED
    BY <1>4, <1>5
<1> HIDE DEF step
<1>7. g = [T \in SUBSET A |-> step(T)]
  BY <1>4, <1>6
<1> QED
  BY <1>7 DEF CountsOf, step

(* The count is of the overtime alone, and a number.                       *)
LEMMA OtOnCounts ==
    ASSUME NEW crew, NEW later, IsFiniteSet(DOMAIN crew), DOMAIN later = DOMAIN crew, NEW channel, NEW t,
           \A a \in DOMAIN crew : later[a].ot = crew[a].ot /\ OnOt(crew, a, channel, t) \in Nat
    PROVE  OtOn(crew, channel, t) \in Nat /\ OtOn(later, channel, t) = OtOn(crew, channel, t)
<1> DEFINE A == DOMAIN crew
           g == CHOOSE c : CountsOf(c, crew, channel, t)
           h == CHOOSE c : CountsOf(c, later, channel, t)
           Good(T) == g[T] \in Nat /\ h[T] = g[T]
           G == {k \in Nat : \A T \in SUBSET A : Cardinality(T) = k => Good(T)}
<1>1. OtOn(crew, channel, t) = g[A]
  BY DEF OtOn, FoldSet, MapThenFoldSet, CountsOf, OnOt
<1>2. OtOn(later, channel, t) = h[DOMAIN later]
  BY DEF OtOn, FoldSet, MapThenFoldSet, CountsOf, OnOt
<1>3. \A a \in A : OnOt(later, a, channel, t) = OnOt(crew, a, channel, t)
  BY DEF OnOt
<1>4. CountsOf(g, crew, channel, t)
  BY CountsExist
<1>5. CountsOf(h, later, channel, t)
  <2>1. \A a \in A : OnOt(later, a, channel, t) \in Nat
    BY <1>3
  <2> QED
    BY <2>1, CountsExist
<1> HIDE DEF g, h
<1>6. \A T \in SUBSET A : Cardinality(T) \in Nat /\ IsFiniteSet(T) /\ (Cardinality(T) = 0 <=> T = {})
  BY FS_Subset, FS_CardinalityType, FS_EmptySet
<1>7. 0 \in G
  <2>1. g[{}] = 0 /\ h[{}] = 0
    BY <1>4, <1>5 DEF CountsOf
  <2> QED
    BY <1>6, <2>1
<1>8. ASSUME NEW k \in G PROVE k + 1 \in G
  <2> SUFFICES ASSUME NEW T \in SUBSET A, Cardinality(T) = k + 1 PROVE Good(T)
    BY <1>8
  <2> DEFINE x == CHOOSE x \in T : TRUE
             R == T \ {x}
  <2>1. T # {}
    BY <1>6, <1>8
  <2>2. x \in T /\ R \in SUBSET A /\ Cardinality(R) = k
    <3>1. x \in T
      BY <2>1
    <3> HIDE DEF x
    <3>2. Cardinality(T \ {x}) = Cardinality(T) - 1
      BY <1>6, <3>1, FS_RemoveElement
    <3> QED
      BY <1>8, <3>1, <3>2
  <2>3. g[T] = g[R] + OnOt(crew, x, channel, t)
    BY <1>4, <2>1 DEF CountsOf
  <2>4. h[T] = h[R] + OnOt(later, x, channel, t)
    BY <1>5, <2>1 DEF CountsOf
  <2> HIDE DEF x, R
  <2>5. Good(R)
    BY <1>8, <2>2
  <2>6. OnOt(later, x, channel, t) = OnOt(crew, x, channel, t) /\ OnOt(crew, x, channel, t) \in Nat
    BY <1>3, <2>2
  <2> QED
    BY <2>3, <2>4, <2>5, <2>6
<1>9. G = Nat
  <2> HIDE DEF G
  <2>1. G \in SUBSET Nat
    BY DEF G
  <2> QED
    BY <1>7, <1>8, <2>1, NatSetInduction
<1>10. Good(A)
  <2> HIDE DEF Good
  <2> QED
    BY <1>6, <1>9
<1> QED
  BY <1>1, <1>2, <1>10

-----------------------------------------------------------------------------
(* The planner's passes: an interval *)

(* As many of a pool are picked for a channel as are asked for, or all.    *)
AskedOf(pool, n) == IsFiniteSet(pool) /\ pool \in SUBSET Int /\ n \in Int

LEMMA SuitedAreFew ==
    ASSUME NEW crew, NEW last, NEW pool, NEW channel, NEW n, AskedOf(pool, n), NEW t
    PROVE  /\ Suited(crew, last, pool, channel, n, t) \subseteq pool
           /\ Cardinality(Suited(crew, last, pool, channel, n, t)) = UpTo(n, Cardinality(pool))
<1> DEFINE rank(a) == (IF last[a] = {channel} THEN 0 ELSE 2)
                      + (IF ChannelAt(crew[a].channels, t) = {channel} THEN 0 ELSE 1)
           before(a, b) == rank(a) < rank(b) \/ (rank(a) = rank(b) /\ a < b)
           R == {p \in pool \X pool : before(p[1], p[2])}
           few == Suited(crew, last, pool, channel, n, t)
<1> USE DEF AskedOf
<1>1. few = {a \in pool : Cardinality({b \in pool : before(b, a)}) < n}
  BY DEF Suited
<1>2. \A a \in pool : rank(a) \in Int /\ a \in Int
  OBVIOUS
<1> HIDE DEF rank, few
<1>3. \A a, b \in pool : <<a, b>> \in R <=> before(a, b)
  OBVIOUS
<1> HIDE DEF R
<1>4. \A a \in pool : BeforeIn(R, pool, a) = {b \in pool : before(b, a)}
  BY <1>3 DEF BeforeIn
<1>5. Ordered(R, pool)
  <2>1. \A x, y \in pool : <<x, y>> \in R => <<y, x>> \notin R /\ x # y
    BY <1>2, <1>3
  <2>2. \A x, y, z \in pool : <<x, y>> \in R /\ <<y, z>> \in R => <<x, z>> \in R
    BY <1>2, <1>3
  <2>3. \A x, y \in pool : x # y => <<x, y>> \in R \/ <<y, x>> \in R
    BY <1>2, <1>3
  <2> QED
    BY <2>1, <2>2, <2>3 DEF Ordered
<1> HIDE DEF before
<1>6. few = {a \in pool : Cardinality(BeforeIn(R, pool, a)) < n}
  BY <1>1, <1>4
<1>7. Cardinality(few) = UpTo(n, Cardinality(pool))
  BY <1>5, <1>6, FirstFew
<1> QED
  BY <1>6, <1>7 DEF few

(* The free agents that an interval's picks p put on a channel.            *)
OnChannel(p, free, channel) == {a \in free : p[a] = {channel}}

(* What is picked in an interval in which the agents free are free, where  *)
(* phones and chats heads of overtime count already.                       *)
WellPicked(p, free, n, phones, chatMin, chats) ==
    LET rest == free \ OnChannel(p, free, "phone")
    IN  /\ Cardinality(OnChannel(p, free, "phone")) = UpTo(n - phones, Cardinality(free))
        /\ OnChannel(p, free, "chat") \subseteq rest
        /\ Cardinality(OnChannel(p, free, "chat")) = UpTo(chatMin - chats, Cardinality(rest))
        /\ OnChannel(p, free, "email") = rest \ OnChannel(p, free, "chat")
        /\ \A a \in DOMAIN p : p[a] # {} <=> a \in free

FreeAt(crew, t) == {a \in DOMAIN crew : AvailableAt(crew[a], t)}

LEMMA IntervalPicked ==
    ASSUME NEW crew, IsFiniteSet(DOMAIN crew), DOMAIN crew \in SUBSET Int, NEW last, NEW n, n \in Nat,
           NEW chatMin, chatMin \in Nat, NEW t,
           OtOn(crew, "phone", t) \in Nat, OtOn(crew, "chat", t) \in Nat
    PROVE  WellPicked(Picked(crew, last, n, chatMin, t), FreeAt(crew, t), n, OtOn(crew, "phone", t),
                      chatMin, OtOn(crew, "chat", t))
<1> DEFINE free == FreeAt(crew, t)
           phones == OtOn(crew, "phone", t)
           chats == OtOn(crew, "chat", t)
           phone == Suited(crew, last, free, "phone", n - phones, t)
           rest == free \ phone
           chat == Suited(crew, last, rest, "chat", chatMin - chats, t)
           p == Picked(crew, last, n, chatMin, t)
<1>1. p = [a \in DOMAIN crew |-> IF a \in phone THEN {"phone"} ELSE IF a \in chat THEN {"chat"}
                                 ELSE IF a \in free THEN {"email"} ELSE {}]
  BY DEF Picked, FreeAt
<1>2. free \subseteq DOMAIN crew /\ free \in SUBSET Int /\ IsFiniteSet(free)
  <2>1. free \subseteq DOMAIN crew
    BY DEF FreeAt
  <2> QED
    BY <2>1, FS_Subset
<1>3. rest \in SUBSET Int /\ IsFiniteSet(rest)
  BY <1>2, FS_Subset
<1>4. n - phones \in Int /\ chatMin - chats \in Int
  OBVIOUS
<1> HIDE DEF free, phones, chats
<1>5. phone \subseteq free /\ Cardinality(phone) = UpTo(n - phones, Cardinality(free))
  <2> DEFINE asked == n - phones
  <2>1. AskedOf(free, asked)
    BY <1>2, <1>4 DEF AskedOf
  <2> HIDE DEF asked
  <2>2. phone = Suited(crew, last, free, "phone", asked, t)
    BY DEF asked
  <2> HIDE DEF phone
  <2>3. phone \subseteq free /\ Cardinality(phone) = UpTo(asked, Cardinality(free))
    BY <2>1, <2>2, SuitedAreFew
  <2> QED
    BY <2>3 DEF asked
<1> HIDE DEF phone
<1>6. chat \subseteq rest /\ Cardinality(chat) = UpTo(chatMin - chats, Cardinality(rest))
  <2> DEFINE asked == chatMin - chats
  <2>1. AskedOf(rest, asked)
    BY <1>3, <1>4 DEF AskedOf
  <2> HIDE DEF rest, asked
  <2>2. /\ Suited(crew, last, rest, "chat", asked, t) \subseteq rest
        /\ Cardinality(Suited(crew, last, rest, "chat", asked, t)) = UpTo(asked, Cardinality(rest))
    BY <2>1, SuitedAreFew
  <2> QED
    BY <2>2 DEF asked
<1> HIDE DEF chat, p
<1>7. OnChannel(p, free, "phone") = phone
  BY <1>1, <1>2, <1>5 DEF OnChannel
<1>8. OnChannel(p, free, "chat") = chat
  BY <1>1, <1>2, <1>6 DEF OnChannel
<1>9. OnChannel(p, free, "email") = rest \ chat
  BY <1>1, <1>2 DEF OnChannel
<1>10. \A a \in DOMAIN p : p[a] # {} <=> a \in free
  BY <1>1, <1>2, <1>5, <1>6
<1>11. WellPicked(p, free, n, phones, chatMin, chats)
  BY <1>5, <1>6, <1>7, <1>8, <1>9, <1>10 DEF WellPicked
<1> QED
  BY <1>11 DEF p, free, phones, chats

(* The picks of interval i are those of Picked, for some latest picks.     *)
PickedAt(crew, need, first, chatMin, i) ==
    \E last : Picks(crew, need, first, chatMin)[i]
                  = Picked(crew, last, need[i], chatMin, first + (i - 1) * Interval)

LEMMA PickedInOrder ==
    ASSUME NEW crew, NEW need, Len(need) \in Nat, NEW first, NEW chatMin, NEW i, i \in 1 .. Len(need)
    PROVE  PickedAt(crew, need, first, chatMin, i)
<1> DEFINE n == Len(need)
           S == PickStates(DOMAIN crew)
           g == CHOOSE h : PickLoop(h, crew, need, first, chatMin, n)
           step(k) == PickStep(crew, g[k - 1], need[k], chatMin, first + (k - 1) * Interval)
           s0 == [picks |-> <<>>, last |-> [a \in DOMAIN crew |-> {}]]
           pick(k) == Picked(crew, g[k - 1].last, need[k], chatMin, first + (k - 1) * Interval)
           Kept(k) == /\ g[k] \in S /\ Len(g[k].picks) = k
                      /\ k >= i => g[k].picks[i] = pick(i)
           G == {k \in Nat : k <= n => Kept(k)}
<1>1. Picks(crew, need, first, chatMin) = g[n].picks
  BY DEF Picks, PickLoop, PickStep
<1>2. PickLoop(g, crew, need, first, chatMin, n)
  <2>1. \E h : PickLoop(h, crew, need, first, chatMin, n)
    BY PickLoopExists
  <2> QED
    BY <2>1
<1> HIDE DEF g
<1>3. g = [k \in 0 .. n |-> IF k = 0 THEN s0 ELSE step(k)]
  BY <1>2 DEF PickLoop
<1>4. s0 \in S /\ Len(s0.picks) = 0
  BY DEF PickStates, Channels
<1> HIDE DEF s0
<1>5. 0 \in G
  BY <1>3, <1>4
<1>6. ASSUME NEW k \in G PROVE k + 1 \in G
  <2> SUFFICES ASSUME k + 1 <= n PROVE Kept(k + 1)
    BY <1>6
  <2>1. k \in Nat /\ k + 1 \in 0 .. n /\ k + 1 # 0 /\ (k + 1) - 1 = k /\ Kept(k)
    BY <1>6
  <2>2. g[k + 1] = step(k + 1)
    <3> HIDE DEF step
    <3> QED
      BY <1>3, <2>1
  <2>3. step(k + 1) = PickStep(crew, g[k], need[k + 1], chatMin, first + k * Interval)
    BY <2>1
  <2>4. g[k + 1] \in S /\ Len(g[k + 1].picks) = k + 1
    BY <2>1, <2>2, <2>3, PickStepType
  <2>5. g[k + 1].picks = Append(g[k].picks, pick(k + 1))
    <3>1. pick(k + 1) = Picked(crew, g[k].last, need[k + 1], chatMin, first + k * Interval)
      BY <2>1
    <3> HIDE DEF pick, step
    <3> QED
      BY <2>2, <2>3, <3>1 DEF PickStep
  <2> HIDE DEF pick
  <2>6. k + 1 >= i => g[k + 1].picks[i] = pick(i)
    <3> SUFFICES ASSUME k + 1 >= i PROVE g[k + 1].picks[i] = pick(i)
      OBVIOUS
    <3>1. \E A : g[k].picks \in Seq(A)
      BY <2>1 DEF PickStates
    <3> DEFINE q == g[k].picks
    <3>2. Len(q) = k
      BY <2>1
    <3> HIDE DEF q
    <3>3. CASE i = k + 1
      BY <2>1, <2>5, <3>1, <3>2, <3>3 DEF q
    <3>4. CASE i <= k
      <4>1. q[i] = pick(i)
        BY <2>1, <3>4 DEF q
      <4> QED
        BY <2>1, <2>5, <3>1, <3>2, <3>4, <4>1 DEF q
    <3> QED
      BY <2>1, <3>3, <3>4
  <2> QED
    BY <2>4, <2>6
<1>7. G = Nat
  <2> HIDE DEF G
  <2>1. G \in SUBSET Nat
    BY DEF G
  <2> QED
    BY <1>5, <1>6, <2>1, NatSetInduction
<1>8. n \in G
  <2> HIDE DEF G
  <2> QED
    BY <1>7
<1>9. g[n].picks[i] = pick(i)
  <2> HIDE DEF pick
  <2> QED
    BY <1>8
<1> QED
  BY <1>1, <1>9 DEF PickedAt

-----------------------------------------------------------------------------
(* The planner's blocks *)

(* The cuts from s on at which what on holds changes, and s.               *)
Changes(s, cuts, on) == {c \in cuts : c = s \/ on[c] # on[Max({x \in cuts : x < c})]}

Cuts(s, e, cuts) == s \in Int /\ e \in Int /\ s < e /\ s \in cuts /\ \A c \in cuts : c \in Int /\ s <= c /\ c < e

IsLastUpTo(b, bounds, m) == b \in bounds /\ b <= m /\ \A x \in bounds : x <= m => x <= b

LEMMA LastUpTo ==
    ASSUME NEW s, NEW e, NEW cuts, Cuts(s, e, cuts), NEW m, m \in Int, s <= m
    PROVE  \E b \in cuts : IsLastUpTo(b, cuts, m)
<1> DEFINE S == {c \in cuts : c <= m}
<1>1. S \in SUBSET Int /\ S # {} /\ \A c \in S : c <= m
  BY DEF Cuts
<1>2. \A c \in S : c \in cuts /\ c <= m
  OBVIOUS
<1>3. \A c \in cuts : c <= m => c \in S
  OBVIOUS
<1> HIDE DEF S
<1>4. Max(S) \in S /\ \A c \in S : c <= Max(S)
  BY <1>1, GreatestTime
<1> QED
  BY <1>2, <1>3, <1>4 DEF IsLastUpTo

(* Between two changes nothing changes.                                    *)
LEMMA NoChangeBetween ==
    ASSUME NEW s, NEW e, NEW cuts, Cuts(s, e, cuts), NEW on, NEW m, NEW b, m \in Int,
           IsLastUpTo(b, Changes(s, cuts, on), m), NEW c, IsLastUpTo(c, cuts, m)
    PROVE  on[b] = on[c]
<1> DEFINE bounds == Changes(s, cuts, on)
           Other == {x \in cuts : b <= x /\ x <= m /\ on[x] # on[b]}
           x == Min(Other)
           before == {y \in cuts : y < x}
           y == Max(before)
<1>1. /\ b \in cuts /\ b \in Int /\ b <= m /\ s <= b
      /\ c \in cuts /\ c \in Int /\ c <= m
      /\ \A z \in bounds : z <= m => z <= b
      /\ \A z \in cuts : z \in Int /\ s <= z
  BY DEF IsLastUpTo, Cuts, Changes
<1>2. b <= c
  BY <1>1 DEF IsLastUpTo
<1> SUFFICES ASSUME on[b] # on[c] PROVE FALSE
  OBVIOUS
<1>3. /\ Other \in SUBSET Int /\ Other # {} /\ (\A z \in Other : b <= z)
      /\ \A z \in Other : z \in cuts /\ z <= m /\ on[z] # on[b]
  BY <1>1, <1>2
<1>4. \A z \in cuts : b <= z /\ z <= m /\ on[z] # on[b] => z \in Other
  OBVIOUS
<1> HIDE DEF Other
<1>5. Min(Other) \in Other /\ \A z \in Other : Min(Other) <= z
  BY <1>1, <1>3, LeastTime
<1>6. x \in Other /\ \A z \in Other : x <= z
  BY <1>5
<1> HIDE DEF x
<1>7. x \in cuts /\ x \in Int /\ b < x /\ x <= m /\ on[x] # on[b] /\ x # s
  BY <1>1, <1>3, <1>6
<1>8. x \notin bounds
  BY <1>1, <1>7
<1>9. on[x] = on[y]
  BY <1>7, <1>8 DEF Changes
<1>10. before \in SUBSET Int /\ b \in before /\ (\A z \in before : z <= x) /\ \A z \in before : z \in cuts /\ z < x
  <2>1. \A z \in before : z \in cuts /\ z < x
    OBVIOUS
  <2>2. \A z \in before : z \in Int /\ z <= x
    BY <1>1, <1>7, <2>1
  <2>3. b \in before
    BY <1>1, <1>7
  <2> HIDE DEF before
  <2> QED
    BY <2>1, <2>2, <2>3
<1> HIDE DEF before
<1>11. Max(before) \in before /\ \A z \in before : z <= Max(before)
  BY <1>7, <1>10, GreatestTime
<1>12. y \in cuts /\ y \in Int /\ b <= y /\ y < x
  BY <1>1, <1>10, <1>11
<1> HIDE DEF y
<1>13. y \in Other
  BY <1>4, <1>7, <1>9, <1>12
<1> QED
  BY <1>1, <1>6, <1>7, <1>12, <1>13

(* The blocks that begin at the bounds and end at the next: a minute is in *)
(* the block of the last bound up to it.                                   *)
UpToNext(bounds, e, b) == Min({e} \cup {x \in bounds : x > b})

LEMMA BlockOfMinute ==
    ASSUME NEW s, NEW e, NEW bounds, Cuts(s, e, bounds), NEW m, m \in Int, s <= m, m < e,
           NEW b, IsLastUpTo(b, bounds, m)
    PROVE  {x \in bounds : x <= m /\ m < UpToNext(bounds, e, x)} = {b}
<1> DEFINE U(x) == {e} \cup {y \in bounds : y > x}
<1>1. /\ b \in bounds /\ b \in Int /\ b <= m /\ e \in Int
      /\ \A x \in bounds : x \in Int /\ x < e /\ (x <= m => x <= b)
  BY DEF IsLastUpTo, Cuts
<1>2. ASSUME NEW x \in bounds
      PROVE  /\ Min(U(x)) \in U(x) /\ \A y \in U(x) : Min(U(x)) <= y
  <2>1. \A y \in U(x) : y \in Int /\ x <= y
    <3>1. x \in Int /\ x <= e
      BY <1>1
    <3> QED
      BY <1>1, <3>1
  <2>2. e \in U(x) /\ x \in Int
    BY <1>1
  <2> HIDE DEF U
  <2>3. U(x) \in SUBSET Int /\ U(x) # {}
    BY <2>1, <2>2
  <2> QED
    BY <2>1, <2>2, <2>3, LeastTime
<1>3. \A x : UpToNext(bounds, e, x) = Min(U(x))
  BY DEF UpToNext
<1>4. m < Min(U(b))
  <2>1. \A y \in U(b) : m < y
    BY <1>1
  <2> HIDE DEF U
  <2> QED
    BY <1>1, <1>2, <2>1
<1>5. \A x \in bounds : x <= m /\ x # b => Min(U(x)) <= m
  <2> SUFFICES ASSUME NEW x \in bounds, x <= m, x # b PROVE Min(U(x)) <= m
    OBVIOUS
  <2>1. b \in U(x)
    BY <1>1
  <2>2. Min(U(x)) <= b /\ Min(U(x)) \in Int
    <3>1. U(x) \subseteq Int
      BY <1>1
    <3> HIDE DEF U
    <3> QED
      BY <1>2, <2>1, <3>1
  <2> HIDE DEF U
  <2> QED
    BY <1>1, <2>2
<1>6. \A x \in bounds : Min(U(x)) \in Int
  <2> TAKE x \in bounds
  <2>1. U(x) \subseteq Int
    BY <1>1
  <2> HIDE DEF U
  <2> QED
    BY <1>2, <2>1
<1> HIDE DEF U
<1>7. \A x \in bounds : x <= m /\ m < UpToNext(bounds, e, x) <=> x = b
  BY <1>1, <1>3, <1>4, <1>5, <1>6
<1> QED
  BY <1>1, <1>7

(* The interval a boundary belongs to.                                     *)
LEMMA IntervalOf ==
    ASSUME NEW i, i \in Nat
    PROVE  ((i - 1) * Interval + Interval) \div Interval = i
<1> DEFINE I == Interval
           a == (i - 1) * I + I
           q == a \div I
<1>1. I \in Nat /\ I > 0
  BY GridAssumption
<1> HIDE DEF I
<1>2. a = i * I /\ a \in Int
  BY <1>1
<1> HIDE DEF a
<1>3. q \in Int /\ I * q <= a /\ a < I * q + I
  BY <1>1, <1>2
<1> HIDE DEF q
<1>4. I * q <= I * i /\ I * i < I * (q + 1)
  BY <1>1, <1>2, <1>3
<1>5. ~(q + 1 <= i)
  <2> SUFFICES ASSUME q + 1 <= i PROVE FALSE
    OBVIOUS
  <2>1. I * (q + 1) <= I * i
    BY <1>1, <1>3
  <2> QED
    BY <1>1, <1>3, <1>4, <2>1
<1>6. ~(i + 1 <= q)
  <2> SUFFICES ASSUME i + 1 <= q PROVE FALSE
    OBVIOUS
  <2>1. I * (i + 1) <= I * q /\ I * (i + 1) = I * i + I
    BY <1>1, <1>3
  <2> QED
    BY <1>1, <1>3, <1>4, <2>1
<1>7. q = i
  BY <1>3, <1>5, <1>6
<1> QED
  BY <1>7 DEF q, a, I

-----------------------------------------------------------------------------
(* The channels that are planned *)

(* A plan that changes a day's channels leaves no minute of the shift      *)
(* without one, and in an interval with a pick it begins with the pick.    *)
LEMMA PlannedMinutes ==
    ASSUME NEW t, NEW day, Ready(t, day), NEW n, n \in Nat, NEW mine, mine \in [1 .. n -> Channels],
           NEW m, m \in Int, day.start <= m, m < day.end
    PROVE  /\ PlannedChannels(day, mine, 0) # day.channels => ChannelAt(PlannedChannels(day, mine, 0), m) # {}
           /\ \A i \in 1 .. n : m = (i - 1) * Interval /\ mine[i] # {}
                 => ChannelAt(PlannedChannels(day, mine, 0), m) = mine[i]
<1> DEFINE s == day.start
           e == day.end
           N == Len(mine)
           picked == PickedIn(mine)
           filled(i) == FilledAt(mine, i)
           at(x) == Max({1, Min({N, (x - 0 + Interval) \div Interval})})
           channel(x) == filled(at(x))
           cuts == {s} \cup {x \in {0 + (i - 1) * Interval : i \in 1 .. N} : s < x /\ x < e}
           bounds == {c \in cuts : c = s \/ channel(c) # channel(Max({x \in cuts : x < c}))}
           passed(x) == {y \in bounds : y <= x}
           block(x) == [id |-> Cardinality(passed(x)), kind |-> CHOOSE k \in channel(x) : TRUE,
                        start |-> x, end |-> UpToNext(bounds, e, x)]
           after == {block(x) : x \in bounds}
           same == \A x \in 0 .. DayMinutes - 1 : ChannelAt(after, x) = ChannelAt(day.channels, x)
           P == PlannedChannels(day, mine, 0)
<1>1. P = IF picked = {} \/ same THEN day.channels ELSE after
  BY DEF PlannedChannels, PickedIn, FilledAt, UpToNext
<1> HIDE DEF P
<1>2. N = n /\ \A i \in 1 .. n : mine[i] # {} <=> i \in picked
  BY DEF PickedIn
<1>3. /\ s \in Int /\ e \in Int /\ 0 <= s /\ e <= DayMinutes /\ s < e
      /\ DayMinutes \in Nat /\ Interval \in Nat
  BY DayNumbers, Lengths, GridAssumption DEF Ready
<1>4. s <= m /\ m < e /\ m \in Int
  OBVIOUS
<1> HIDE DEF N, s, e, picked
<1> SUFFICES ASSUME picked # {}
             PROVE  /\ ChannelAt(after, m) # {}
                    /\ \A i \in 1 .. n : m = (i - 1) * Interval /\ i \in picked => ChannelAt(after, m) = mine[i]
  <2>1. CASE picked = {}
    BY <1>1, <1>2, <2>1 DEF P
  <2>2. CASE picked # {} /\ same
    <3>1. P = day.channels
      BY <1>1, <2>2
    <3>2. ChannelAt(after, m) = ChannelAt(P, m)
      <4>1. m \in 0 .. DayMinutes - 1
        BY <1>3, <1>4
      <4> HIDE DEF after
      <4> QED
        BY <2>2, <3>1, <4>1
    <3> HIDE DEF after
    <3> QED
      BY <1>2, <2>2, <3>1, <3>2 DEF P
  <2>3. CASE picked # {} /\ ~same
    <3>1. P = after
      BY <1>1, <2>3
    <3> HIDE DEF after
    <3> QED
      BY <1>2, <2>3, <3>1 DEF P
  <2> QED
    BY <2>1, <2>2, <2>3
<1>5. \A x : channel(x) \in {{"phone"}, {"chat"}, {"email"}}
  BY FilledIsPicked DEF picked
<1>6. \A i \in picked : filled(i) = mine[i]
  BY FilledIsPicked DEF picked
<1> HIDE DEF filled
<1>7. ASSUME NEW i \in 1 .. n PROVE at((i - 1) * Interval) = i
  <2> DEFINE z == (i - 1) * Interval
             q == (z + Interval) \div Interval
  <2>1. q = i
    <3>1. i \in Nat
      OBVIOUS
    <3>2. ((i - 1) * Interval + Interval) \div Interval = i
      BY <3>1, IntervalOf
    <3> QED
      BY <3>2
  <2>2. z \in Int
    BY <1>3
  <2>3. z - 0 + Interval = z + Interval
    <3> HIDE DEF z
    <3> QED
      BY <1>3, <2>2
  <2>4. at(z) = Max({1, Min({N, q})})
    BY <2>3
  <2> HIDE DEF q, z, at
  <2>5. Min({N, q}) = i
    BY <1>2, <2>1, MinOfTwo
  <2> DEFINE one == 1
  <2>6. one \in Int /\ one <= i /\ i \in Int
    OBVIOUS
  <2>7. at(z) = Max({one, i})
    BY <2>4, <2>5
  <2> HIDE DEF one
  <2>8. Max({one, i}) = i
    BY <2>6, MaxOfTwo
  <2> QED
    BY <2>7, <2>8 DEF z
<1> HIDE DEF at
<1>8. Cuts(s, e, cuts)
  BY <1>2, <1>3 DEF Cuts
<1>9. \A i \in 1 .. n : m = (i - 1) * Interval => m \in cuts
  BY <1>2, <1>3, <1>4
<1> HIDE DEF cuts
<1> DEFINE on == [x \in cuts |-> channel(x)]
<1>10. \A x \in cuts : on[x] = channel(x)
  OBVIOUS
<1>11. ASSUME NEW c \in cuts, c # s PROVE Max({x \in cuts : x < c}) \in cuts
  <2> DEFINE before == {x \in cuts : x < c}
  <2>1. s \in before /\ c \in Int
    BY <1>8, <1>11 DEF Cuts
  <2>2. \A x \in before : x \in Int /\ x <= c /\ x \in cuts
    BY <1>8, <2>1 DEF Cuts
  <2> HIDE DEF before
  <2>3. before \in SUBSET Int /\ before # {} /\ \A x \in before : x <= c
    BY <2>1, <2>2
  <2>4. Max(before) \in before
    BY <2>1, <2>3, GreatestTime
  <2> QED
    BY <2>2, <2>4 DEF before
<1> HIDE DEF channel, on
<1>12. bounds = Changes(s, cuts, on)
  BY <1>10, <1>11 DEF Changes
<1>13. Cuts(s, e, bounds)
  BY <1>8 DEF Cuts
<1> HIDE DEF bounds
<1>14. PICK b \in bounds : IsLastUpTo(b, bounds, m)
  BY <1>4, <1>13, LastUpTo
<1>15. PICK c \in cuts : IsLastUpTo(c, cuts, m)
  BY <1>4, <1>8, LastUpTo
<1>16. b \in cuts
  BY <1>12, <1>14 DEF Changes
<1>17. on[b] = on[c]
  BY <1>4, <1>8, <1>12, <1>14, <1>15, NoChangeBetween
<1>18. channel(b) = channel(c)
  BY <1>10, <1>15, <1>16, <1>17
<1>19. {x \in bounds : x <= m /\ m < UpToNext(bounds, e, x)} = {b}
  BY <1>4, <1>13, <1>14, BlockOfMinute
<1>20. ChannelAt(after, m) = {CHOOSE k \in channel(b) : TRUE}
  <2> DEFINE end(x) == UpToNext(bounds, e, x)
             id(x) == Cardinality(passed(x))
             kind(x) == CHOOSE k \in channel(x) : TRUE
  <2>1. ChannelAt(after, m) = {block(x).kind : x \in {y \in bounds : y <= m /\ m < end(y)}}
    <3>1. \A x : block(x).start = x /\ block(x).end = end(x)
      OBVIOUS
    <3>2. ChannelAt(after, m) = {y.kind : y \in {x \in after : x.start <= m /\ m < x.end}}
      BY DEF ChannelAt, Covers
    <3> HIDE DEF block, end
    <3> QED
      BY <3>1, <3>2
  <2> QED
    BY <1>19, <2>1
<1> HIDE DEF after
<1>21. ChannelAt(after, m) = channel(c)
  <2>1. channel(b) \in {{"phone"}, {"chat"}, {"email"}}
    BY <1>5
  <2> QED
    BY <1>18, <1>20, <2>1
<1>22. ASSUME NEW i \in 1 .. n, m = (i - 1) * Interval, i \in picked PROVE channel(c) = mine[i]
  <2>1. m \in cuts
    BY <1>9, <1>22
  <2>2. c = m
    <3>1. c \in Int /\ c <= m /\ m <= c
      BY <1>8, <1>15, <2>1 DEF IsLastUpTo, Cuts
    <3> QED
      BY <1>4, <3>1
  <2>3. at(m) = i
    BY <1>7, <1>22
  <2>4. channel(m) = filled(i)
    BY <2>3 DEF channel
  <2> QED
    BY <1>6, <1>22, <2>2, <2>4
<1>23. channel(c) # {}
  <2>1. channel(c) \in {{"phone"}, {"chat"}, {"email"}}
    BY <1>5
  <2> QED
    BY <2>1
<1> HIDE DEF channel
<1> QED
  BY <1>21, <1>22, <1>23

-----------------------------------------------------------------------------
(* The heads of an interval *)

LEMMA HeadsServed ==
    ASSUME NEW o \in Nat, NEW n \in Nat, NEW m \in Nat
    PROVE  /\ o + UpTo(n - o, m) = Max({o, Min({n, o + m})})
           /\ o + UpTo(n - o, m) < n => UpTo(n - o, m) = m
<1> DEFINE most == o + m
<1>1. most \in Int /\ o \in Int /\ n \in Int
  OBVIOUS
<1>2. Min({n, most}) = IF n <= most THEN n ELSE most
  <2> HIDE DEF most
  <2> QED
    BY <1>1, MinOfTwo
<1> DEFINE least == Min({n, most})
<1>3. least \in Int
  BY <1>1, <1>2
<1>4. Max({o, least}) = IF o >= least THEN o ELSE least
  <2> HIDE DEF least
  <2> QED
    BY <1>1, <1>3, MaxOfTwo
<1>5. o + UpTo(n - o, m) = IF o >= least THEN o ELSE least
  BY <1>2 DEF UpTo
<1>6. o + UpTo(n - o, m) < n => UpTo(n - o, m) = m
  BY DEF UpTo
<1> QED
  BY <1>4, <1>5, <1>6

(* The demand of an interval: n phone heads and chatMin chat heads, from   *)
(* the agents that are free and the heads of overtime.                     *)
Demand(free, n, phones, chatMin, chats) ==
    IsFiniteSet(free) /\ n \in Nat /\ phones \in Nat /\ chatMin \in Nat /\ chats \in Nat

MeetsDemand(p, free, n, phones, chatMin, chats) ==
    /\ phones + Cardinality(OnChannel(p, free, "phone"))
          = Max({phones, Min({n, phones + Cardinality(free)})})
    /\ chats + Cardinality(OnChannel(p, free, "chat")) < chatMin
          => Cardinality(OnChannel(p, free, "email")) = 0

LEMMA IntervalServed ==
    ASSUME NEW p, NEW free, NEW n, NEW phones, NEW chatMin, NEW chats,
           Demand(free, n, phones, chatMin, chats), WellPicked(p, free, n, phones, chatMin, chats)
    PROVE  MeetsDemand(p, free, n, phones, chatMin, chats)
<1> USE DEF Demand
<1> DEFINE rest == free \ OnChannel(p, free, "phone")
           chat == OnChannel(p, free, "chat")
           email == OnChannel(p, free, "email")
<1>1. /\ Cardinality(OnChannel(p, free, "phone")) = UpTo(n - phones, Cardinality(free))
      /\ chat \subseteq rest /\ Cardinality(chat) = UpTo(chatMin - chats, Cardinality(rest))
      /\ email = rest \ chat
  BY DEF WellPicked
<1>2. IsFiniteSet(rest) /\ Cardinality(rest) \in Nat /\ Cardinality(free) \in Nat
  BY FS_Subset, FS_CardinalityType
<1> HIDE DEF rest, chat, email
<1>3. phones + Cardinality(OnChannel(p, free, "phone")) = Max({phones, Min({n, phones + Cardinality(free)})})
  <2> DEFINE m == Cardinality(free)
  <2>1. m \in Nat
    BY <1>2
  <2> HIDE DEF m
  <2>2. phones + UpTo(n - phones, m) = Max({phones, Min({n, phones + m})})
    BY <2>1, HeadsServed
  <2> QED
    BY <1>1, <2>2 DEF m
<1>4. ASSUME chats + Cardinality(chat) < chatMin PROVE Cardinality(email) = 0
  <2>1. Cardinality(chat) = Cardinality(rest)
    BY <1>1, <1>2, <1>4, HeadsServed
  <2>2. chat = rest
    BY <1>1, <1>2, <2>1, FS_Subset
  <2>3. email = {}
    BY <1>1, <2>2
  <2> QED
    BY <2>3, FS_EmptySet
<1> QED
  BY <1>3, <1>4 DEF chat, email, MeetsDemand

LEMMA StaffNumbered ==
    ASSUME team \in Teams
    PROVE  IsFiniteSet(Staff) /\ Staff \in SUBSET Int
<1>1. PICK n \in Nat : Staff = 1 .. n
  <2>1. team.days \in Seq(TeamDays(team))
    BY TeamsAssumption
  <2> QED
    BY <2>1 DEF Staff
<1> DEFINE one == 1
<1>2. one \in Int /\ n \in Int /\ Staff = one .. n
  BY <1>1
<1> HIDE DEF one
<1>3. IsFiniteSet(one .. n)
  BY <1>2, FS_Interval
<1> QED
  BY <1>2, <1>3

(* The overtime of a valid day on a channel is finite.                     *)
LEMMA OvertimeCounted ==
    ASSUME NEW t, NEW crew, NEW a, Ready(t, crew[a]), NEW channel, NEW m
    PROVE  OnOt(crew, a, channel, m) \in Nat
<1> DEFINE day == crew[a]
           S == {o \in day.ot : o.kind = channel /\ Covers(o, m)}
<1>1. Numbered(day) /\ ValidDay(day)
  BY TeamDayNumbered DEF Ready
<1>2. IsFiniteSet(day.ot)
  <2> HIDE DEF day
  <2> QED
    BY <1>1, DayFacts DEF Layers
<1>3. S \subseteq day.ot
  OBVIOUS
<1> HIDE DEF S
<1>4. Cardinality(S) \in Nat
  BY <1>2, <1>3, FS_Subset, FS_CardinalityType
<1> QED
  BY <1>4 DEF S, OnOt

(* The days a plan makes of valid days.                                    *)
Replanned(day, d, channels) ==
    /\ d.channels = channels /\ d.start = day.start /\ d.end = day.end
    /\ d.breaks = day.breaks /\ d.activities = day.activities /\ d.ot = day.ot
    /\ d # day => channels # day.channels

LEMMA DayReplanned ==
    ASSUME NEW t, NEW day \in TeamDays(t), NEW channels
    PROVE  Replanned(day, WithLayer(day, "channels", channels), channels)
<1> DEFINE d == WithLayer(day, "channels", channels)
<1>1. /\ d.channels = channels /\ d.start = day.start /\ d.end = day.end
      /\ d.breaks = day.breaks /\ d.activities = day.activities /\ d.ot = day.ot
  BY DEF WithLayer, TeamDays
<1>2. channels = day.channels => d = day
  BY DEF WithLayer, TeamDays
<1> HIDE DEF d
<1> QED
  BY <1>1, <1>2 DEF Replanned, d

(* The picks of a crew, and of one interval.                               *)
PicksMade(crew, need, first, chatMin) ==
    /\ Picks(crew, need, first, chatMin) \in Seq([DOMAIN crew -> Channels])
    /\ Len(Picks(crew, need, first, chatMin)) = Len(need)
    /\ \A i \in 1 .. Len(need) : PickedAt(crew, need, first, chatMin, i)

LEMMA AllPicksMade ==
    ASSUME NEW crew, NEW need, Len(need) \in Nat, NEW first, NEW chatMin
    PROVE  PicksMade(crew, need, first, chatMin)
<1>1. /\ Picks(crew, need, first, chatMin) \in Seq([DOMAIN crew -> Channels])
      /\ Len(Picks(crew, need, first, chatMin)) = Len(need)
  BY PicksType
<1>2. \A i \in 1 .. Len(need) : PickedAt(crew, need, first, chatMin, i)
  BY PickedInOrder
<1> QED
  BY <1>1, <1>2 DEF PicksMade

(* What the planner makes of the stored days.                              *)
Planned(need, picks, mine, after) ==
    /\ Len(need) \in Nat /\ picks = Picks(stored, need, 0, ChatMin)
    /\ DOMAIN after = Staff
    /\ \A a \in Staff : /\ mine[a] \in [1 .. Len(need) -> Channels]
                        /\ \A i \in 1 .. Len(need) : mine[a][i] = picks[i][a]
                        /\ Replanned(stored[a], after[a], PlannedChannels(stored[a], mine[a], 0))

LEMMA TeamPlanned ==
    ASSUME Editable, NEW need, need \in Needs
    PROVE  \E picks, mine : Planned(need, picks, mine, PlanChannelDay(stored, need, 0, ChatMin))
<1> DEFINE zero == 0
           n == Len(need)
           picks == Picks(stored, need, zero, ChatMin)
           mine == [a \in Staff |-> [i \in 1 .. n |-> picks[i][a]]]
           d(a) == WithLayer(stored[a], "channels", PlannedChannels(stored[a], mine[a], zero))
           after == PlanChannelDay(stored, need, zero, ChatMin)
<1>1. DOMAIN stored = Staff /\ \A a \in Staff : Ready(team, stored[a])
  BY EditableDays
<1>2. n \in Nat
  BY EditsAssumption
<1>3. picks \in Seq([Staff -> Channels]) /\ Len(picks) = n
  <2> HIDE DEF zero
  <2>1. /\ Picks(stored, need, zero, ChatMin) \in Seq([DOMAIN stored -> Channels])
        /\ Len(Picks(stored, need, zero, ChatMin)) = Len(need)
    <3>1. PicksMade(stored, need, zero, ChatMin)
      BY <1>2, AllPicksMade
    <3> QED
      BY <3>1 DEF PicksMade
  <2> QED
    BY <1>1, <2>1
<1>4. after = [a \in Staff |-> d(a)]
  BY <1>1 DEF PlanChannelDay, WithLayer
<1> HIDE DEF picks, n
<1>5. ASSUME NEW a \in Staff
      PROVE  mine[a] \in [1 .. n -> Channels] /\ \A i \in 1 .. n : mine[a][i] = picks[i][a]
  <2>1. \A i \in 1 .. n : picks[i] \in [Staff -> Channels]
    BY <1>2, <1>3
  <2> QED
    BY <2>1
<1> HIDE DEF mine
<1>6. ASSUME NEW a \in Staff PROVE Replanned(stored[a], d(a), PlannedChannels(stored[a], mine[a], zero))
  BY <1>1, DayReplanned DEF Ready
<1> HIDE DEF d, after
<1>7. Planned(need, picks, mine, after)
  <2>1. DOMAIN after = Staff /\ \A a \in Staff : after[a] = d(a)
    BY <1>4
  <2> QED
    BY <1>2, <1>5, <1>6, <2>1 DEF Planned, picks, n, zero
<1> QED
  BY <1>7 DEF after, zero

(* The heads of an interval that begins at t, where p is picked and n      *)
(* phone heads are needed.                                                 *)
HeadsPlanned(p, n, after, t) ==
    /\ OtOn(after, "phone", t) = OtOn(stored, "phone", t) /\ OtOn(stored, "phone", t) \in Nat
    /\ OtOn(after, "chat", t) = OtOn(stored, "chat", t) /\ OtOn(stored, "chat", t) \in Nat
    /\ OtOn(after, "email", t) = OtOn(stored, "email", t) /\ OtOn(stored, "email", t) \in Nat
    /\ {a \in Staff : AvailableAt(after[a], t)} = FreeAt(stored, t) /\ IsFiniteSet(FreeAt(stored, t))
    /\ \A k : {a \in FreeAt(stored, t) : ChannelAt(after[a].channels, t) = {k}}
                 = OnChannel(p, FreeAt(stored, t), k)
    /\ n \in Nat
    /\ WellPicked(p, FreeAt(stored, t), n, OtOn(stored, "phone", t), ChatMin, OtOn(stored, "chat", t))

LEMMA PlannedHeads ==
    ASSUME Editable, NEW need, need \in Needs, NEW picks, NEW mine, NEW after, Planned(need, picks, mine, after),
           NEW i, i \in 1 .. Len(need), NEW t, t = (i - 1) * Interval
    PROVE  HeadsPlanned(picks[i], need[i], after, t)
<1> DEFINE free == FreeAt(stored, t)
           p == picks[i]
<1>1. team \in Teams /\ DOMAIN stored = Staff /\ \A a \in Staff : Ready(team, stored[a])
  BY EditableDays
<1>2. /\ Len(need) \in Nat /\ picks = Picks(stored, need, 0, ChatMin) /\ DOMAIN after = Staff
      /\ \A a \in Staff : /\ mine[a] \in [1 .. Len(need) -> Channels] /\ mine[a][i] = p[a]
                          /\ Replanned(stored[a], after[a], PlannedChannels(stored[a], mine[a], 0))
  BY DEF Planned
<1>3. IsFiniteSet(Staff) /\ Staff \in SUBSET Int
  BY <1>1, StaffNumbered
<1>4. ASSUME NEW channel
      PROVE  OtOn(stored, channel, t) \in Nat /\ OtOn(after, channel, t) = OtOn(stored, channel, t)
  <2>1. ASSUME NEW a \in DOMAIN stored
        PROVE  after[a].ot = stored[a].ot /\ OnOt(stored, a, channel, t) \in Nat
    <3>1. a \in Staff /\ Ready(team, stored[a])
      BY <1>1
    <3>2. after[a].ot = stored[a].ot
      BY <1>2, <3>1 DEF Replanned
    <3>3. OnOt(stored, a, channel, t) \in Nat
      BY <3>1, OvertimeCounted
    <3> QED
      BY <3>2, <3>3
  <2>2. IsFiniteSet(DOMAIN stored) /\ DOMAIN after = DOMAIN stored
    BY <1>1, <1>2, <1>3
  <2> QED
    BY <2>1, <2>2, OtOnCounts
<1>5. free \subseteq Staff /\ IsFiniteSet(free) /\ \A a \in Staff : a \in free <=> AvailableAt(stored[a], t)
  <2>1. free \subseteq Staff /\ \A a \in Staff : a \in free <=> AvailableAt(stored[a], t)
    BY <1>1 DEF FreeAt
  <2> QED
    BY <1>3, <2>1, FS_Subset
<1>6. \A a \in Staff : AvailableAt(after[a], t) <=> AvailableAt(stored[a], t)
  BY <1>2 DEF Replanned, AvailableAt, Covers
<1>7. need[i] \in Nat /\ ChatMin \in Nat /\ t \in Int
  BY <1>2, EditsAssumption, GridAssumption
<1>8. WellPicked(p, free, need[i], OtOn(stored, "phone", t), ChatMin, OtOn(stored, "chat", t))
  <2> DEFINE none == 0
  <2>1. none + (i - 1) * Interval = t
    BY <1>7
  <2> HIDE DEF none
  <2>2. PICK last : Picks(stored, need, none, ChatMin)[i]
                       = Picked(stored, last, need[i], ChatMin, none + (i - 1) * Interval)
    <3>1. Len(need) \in Nat /\ i \in 1 .. Len(need)
      BY <1>2
    <3>2. \E last : Picks(stored, need, none, ChatMin)[i]
                       = Picked(stored, last, need[i], ChatMin, none + (i - 1) * Interval)
      <4>1. PicksMade(stored, need, none, ChatMin)
        BY <3>1, AllPicksMade
      <4> QED
        BY <3>1, <4>1 DEF PicksMade, PickedAt
    <3> QED
      BY <3>2
  <2>3. p = Picked(stored, last, need[i], ChatMin, t)
    BY <1>2, <2>1, <2>2 DEF none
  <2>4. WellPicked(Picked(stored, last, need[i], ChatMin, t), FreeAt(stored, t), need[i],
                   OtOn(stored, "phone", t), ChatMin, OtOn(stored, "chat", t))
    BY <1>1, <1>3, <1>4, <1>7, IntervalPicked
  <2> QED
    BY <2>3, <2>4
<1>9. ASSUME NEW a \in free PROVE ChannelAt(after[a].channels, t) = p[a]
  <2>1. a \in Staff /\ AvailableAt(stored[a], t)
    BY <1>5
  <2>2. stored[a].start <= t /\ t < stored[a].end
    BY <2>1 DEF AvailableAt, Covers
  <2>3. p[a] # {}
    <3>1. p = Picks(stored, need, 0, ChatMin)[i]
      BY <1>2
    <3>2. p \in [Staff -> Channels]
      <4> DEFINE none == 0
      <4> HIDE DEF none
      <4>1. /\ Picks(stored, need, none, ChatMin) \in Seq([DOMAIN stored -> Channels])
            /\ Len(Picks(stored, need, none, ChatMin)) = Len(need)
        <5>1. Len(need) \in Nat
          BY <1>2
        <5>2. PicksMade(stored, need, none, ChatMin)
          BY <5>1, AllPicksMade
        <5> QED
          BY <5>2 DEF PicksMade
      <4>2. Picks(stored, need, none, ChatMin)[i] \in [DOMAIN stored -> Channels]
        BY <1>2, <4>1
      <4> QED
        BY <1>1, <3>1, <4>2 DEF none
    <3> HIDE DEF p, free
    <3> QED
      BY <1>8, <1>9, <2>1, <3>2 DEF WellPicked
  <2>4. mine[a][i] = p[a] /\ mine[a] \in [1 .. Len(need) -> Channels]
    BY <1>2, <2>1
  <2>5. ChannelAt(PlannedChannels(stored[a], mine[a], 0), t) = mine[a][i]
    BY <1>1, <1>2, <1>7, <2>1, <2>2, <2>3, <2>4, PlannedMinutes
  <2>6. after[a].channels = PlannedChannels(stored[a], mine[a], 0)
    BY <1>2, <2>1 DEF Replanned
  <2> QED
    BY <2>4, <2>5, <2>6
<1>10. \A k : {a \in free : ChannelAt(after[a].channels, t) = {k}} = OnChannel(p, free, k)
  BY <1>9 DEF OnChannel
<1>11. {a \in Staff : AvailableAt(after[a], t)} = free
  BY <1>5, <1>6
<1> QED
  BY <1>4, <1>5, <1>7, <1>8, <1>10, <1>11 DEF HeadsPlanned

(* The planner serves the phones first and exactly, then the chat minimum, *)
(* with overtime counted, whatever the team, its days and the need, and    *)
(* what it plans leaves no minute of a shift unassigned (planChannelDay).  *)
THEOREM PhonesAlwaysFirst == EditsSpec => []PhonesFirst
<1>1. EditsInit => EditsInv
  BY InitialDays
<1>2. EditsInv /\ [EditsNext]_editVars => EditsInv'
  BY InvariantKept
<1>3. EditsInv => PhonesFirst
  <2> SUFFICES ASSUME EditsInv PROVE PhonesFirst
    OBVIOUS
  <2> DEFINE free(after, t) == {a \in Staff : AvailableAt(after[a], t)}
             heads(after, k, t) == OtOn(after, k, t) +
                 Cardinality({a \in free(after, t) : ChannelAt(after[a].channels, t) = {k}})
             most(after, t) == OtOn(stored, "phone", t) + Cardinality(free(after, t))
             Served(n, after, t) ==
                 /\ heads(after, "phone", t) = Max({OtOn(stored, "phone", t), Min({n, most(after, t)})})
                 /\ heads(after, "chat", t) < ChatMin
                       => heads(after, "email", t) = OtOn(stored, "email", t)
  <2> SUFFICES ASSUME NEW need, need \in Needs, \A a \in Staff : ValidDay(stored[a]),
                      NEW after, after = PlanChannelDay(stored, need, 0, ChatMin)
               PROVE  /\ \A i \in DOMAIN need : Served(need[i], after, (i - 1) * Interval)
                      /\ \A a \in Staff : after[a] # stored[a] =>
                            \A m \in after[a].start .. after[a].end - 1 : ChannelAt(after[a].channels, m) # {}
    BY DEF PhonesFirst
  <2>1. Editable
    BY DEF Editable
  <2>2. PICK picks, mine : Planned(need, picks, mine, after)
    BY <2>1, TeamPlanned
  <2>3. ASSUME NEW i \in DOMAIN need, NEW t, t = (i - 1) * Interval
        PROVE  Served(need[i], after, t)
    <3> DEFINE all == FreeAt(stored, t)
               phones == OtOn(stored, "phone", t)
               chats == OtOn(stored, "chat", t)
               emails == OtOn(stored, "email", t)
               p == picks[i]
    <3>1. i \in 1 .. Len(need) /\ ChatMin \in Nat
      BY EditsAssumption
    <3>2. /\ OtOn(after, "phone", t) = phones /\ phones \in Nat
          /\ OtOn(after, "chat", t) = chats /\ chats \in Nat
          /\ OtOn(after, "email", t) = emails /\ emails \in Nat /\ need[i] \in Nat
          /\ free(after, t) = all /\ IsFiniteSet(all)
          /\ \A k : {a \in all : ChannelAt(after[a].channels, t) = {k}} = OnChannel(p, all, k)
          /\ WellPicked(p, all, need[i], phones, ChatMin, chats)
      <4>1. HeadsPlanned(p, need[i], after, t)
        BY <2>1, <2>2, <2>3, <3>1, PlannedHeads
      <4> QED
        BY <4>1 DEF HeadsPlanned
    <3> HIDE DEF all, phones, chats, emails, p
    <3>3. /\ heads(after, "phone", t) = phones + Cardinality(OnChannel(p, all, "phone"))
          /\ heads(after, "chat", t) = chats + Cardinality(OnChannel(p, all, "chat"))
          /\ heads(after, "email", t) = emails + Cardinality(OnChannel(p, all, "email"))
          /\ most(after, t) = phones + Cardinality(all)
      <4> HIDE DEF free
      <4> QED
        BY <3>2 DEF phones
    <3> HIDE DEF heads, most
    <3>4. MeetsDemand(p, all, need[i], phones, ChatMin, chats)
      <4>1. Demand(all, need[i], phones, ChatMin, chats)
        BY <3>1, <3>2 DEF Demand
      <4> QED
        BY <3>2, <4>1, IntervalServed
    <3> DEFINE none == 0
    <3>5. emails + none = emails
      <4>1. emails \in Nat
        BY <3>2
      <4> QED
        BY <4>1
    <3>6. heads(after, "chat", t) < ChatMin => heads(after, "email", t) = emails
      <4>1. chats + Cardinality(OnChannel(p, all, "chat")) < ChatMin
               => Cardinality(OnChannel(p, all, "email")) = none
        BY <3>4 DEF MeetsDemand
      <4> HIDE DEF none
      <4> QED
        BY <3>3, <3>5, <4>1
    <3>7. heads(after, "phone", t) = Max({phones, Min({need[i], most(after, t)})})
      BY <3>3, <3>4 DEF MeetsDemand
    <3> QED
      BY <3>6, <3>7 DEF phones, emails
  <2>4. ASSUME NEW a \in Staff, after[a] # stored[a], NEW m \in after[a].start .. after[a].end - 1
        PROVE  ChannelAt(after[a].channels, m) # {}
    <3> DEFINE n == Len(need)
               P == PlannedChannels(stored[a], mine[a], 0)
    <3>1. Ready(team, stored[a])
      BY <2>1, EditableDays
    <3>2. n \in Nat /\ mine[a] \in [1 .. n -> Channels] /\ Replanned(stored[a], after[a], P)
      BY <2>2 DEF Planned
    <3>3. after[a].start = stored[a].start /\ after[a].end = stored[a].end
          /\ after[a].channels = P /\ P # stored[a].channels
      BY <2>4, <3>2 DEF Replanned
    <3>4. stored[a].start \in Int /\ stored[a].end \in Int
      BY <3>1, TeamDay DEF Ready
    <3>5. m \in Int /\ stored[a].start <= m /\ m < stored[a].end
      BY <3>3, <3>4
    <3> HIDE DEF n
    <3>6. P # stored[a].channels => ChannelAt(P, m) # {}
      BY <3>1, <3>2, <3>5, PlannedMinutes
    <3> QED
      BY <3>3, <3>6
  <2> HIDE DEF Served
  <2> QED
    BY <2>3, <2>4
<1> QED
  BY <1>1, <1>2, <1>3, PTL DEF EditsSpec
=============================================================================
