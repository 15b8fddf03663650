----------------------------- MODULE MCDayPlans -----------------------------
(* Instances of DayPlans for TLC.  A day has two columns, the shift (0: up *)
(* to the evening, 1: cut short) and the activities (0: none, 1: a late    *)
(* meeting); the meeting lies outside the short shift.                     *)
EXTENDS DayPlans, TLC

MCCols == {"shift", "activities"}
MCVals == {0, 1}
MCDay == [MCCols -> MCVals]
MCValid == {d \in MCDay : ~(d["shift"] = 1 /\ d["activities"] = 1)}

\* A work rule: the short shift may not replace the long one while free.
MCZones == {<<[c \in MCCols |-> 0], [c \in MCCols |-> IF c = "shift" THEN 1 ELSE 0]>>}

\* Without that rule: the long shift cut short beside a meeting put into it.
MCNoZones == {}

\* resize_shift, mark_aux and unmark; a repeated mark is refused.
MCEdits == {"shorten", "mark", "unmark"}
MCEdit(e, k, source, d) ==
    CASE e = "shorten" -> [d EXCEPT !["shift"] = 1]
      [] e = "mark"    -> IF d["activities"] = 1 THEN Skip ELSE [d EXCEPT !["activities"] = 1]
      [] e = "unmark"  -> [d EXCEPT !["activities"] = 0]

\* The clients are interchangeable; only safety is checked.
MCSymmetry == Permutations(Clients)

\* So are the agents: what an edit does to a day is the same for all.
MCBothSymmetry == Permutations(Clients) \cup Permutations(Keys)
=============================================================================
