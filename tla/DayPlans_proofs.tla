--------------------------- MODULE DayPlans_proofs ---------------------------
(***************************************************************************)
(* Proofs about DayPlans, for any clients, agent-days, days and edits: the *)
(* types and what overlapping requests cannot break, then what holds while *)
(* requests do not overlap.                                                *)
(***************************************************************************)
EXTENDS DayPlans, TLAPS

-----------------------------------------------------------------------------
(* Types *)

LEMMA WrittenIsRow ==
    ASSUME NEW r \in Row \cup {None}, NEW d \in Day
    PROVE  Written(r, d) \in Row
<1>1. CASE r = None
  BY <1>1 DEF Written, Row
<1>2. CASE r # None
  <2>1. r \in Row
    BY <1>2
  <2>2. r.version + 1 \in Nat
    BY <2>1 DEF Row
  <2>3. [r EXCEPT !.version = r.version + 1, !.day = d] \in Row
    BY <2>1, <2>2 DEF Row
  <2> QED
    BY <1>2, <2>3 DEF Written
<1> QED
  BY <1>1, <1>2

(* A Begin whose arguments have their types keeps the types.               *)
LEMMA BeginTypes ==
    ASSUME TypeOK, NEW c \in Clients, NEW after \in [Keys -> Row \cup {None}],
           NEW tell \in SUBSET Keys, NEW answer \in SUBSET Keys,
           NEW relied \in [Keys -> Loaded \cup {None}],
           \A k \in answer : after[k] # None,
           Begin(c, after, tell, answer, relied)
    PROVE  TypeOK'
<1>1. [seen |-> rows, after |-> after, tell |-> tell, answer |-> answer, relied |-> relied]
         \in Request
  BY DEF TypeOK, Request
<1> QED
  BY <1>1 DEF TypeOK, Begin

LEMMA FlushedIsRow ==
    ASSUME TypeOK, NEW q \in Request, CanFlush(q), NEW k \in Keys
    PROVE  Flushed(q, k) \in Row \cup {None}
<1>1. /\ rows[k] \in Row \cup {None} /\ q.seen[k] \in Row \cup {None}
      /\ q.after[k] \in Row \cup {None} /\ born[k] \in Nat
  BY DEF TypeOK, Request
<1>2. CASE k \notin Touched(q)
  BY <1>1, <1>2 DEF Flushed
<1>3. CASE k \in Touched(q) /\ q.seen[k] = None
  <2>1. q.after[k] \in Row
    BY <1>1, <1>3 DEF Touched
  <2> QED
    BY <1>1, <1>3, <2>1 DEF Flushed, Row
<1>4. CASE k \in Touched(q) /\ q.seen[k] # None /\ q.after[k] = None
  BY <1>1, <1>4 DEF Flushed
<1>5. CASE k \in Touched(q) /\ q.seen[k] # None /\ q.after[k] # None
  <2>1. rows[k] \in Row /\ q.seen[k] \in Row /\ q.after[k] \in Row
    BY <1>1, <1>5 DEF CanFlush, SameRow
  <2>2. Updated(q.seen[k], q.after[k], rows[k]) \in Row
    BY <2>1 DEF Updated, Net, Row, Day
  <2> QED
    BY <1>5, <2>2 DEF Flushed
<1> QED
  BY <1>2, <1>3, <1>4, <1>5

LEMMA CommitTypes ==
    ASSUME TypeOK, NEW c \in Clients, Commit(c)
    PROVE  TypeOK'
<1> DEFINE q == req[c]
<1>1. q \in Request /\ CanFlush(q)
  BY DEF Commit, TypeOK
<1>2. rows' \in [Keys -> Row \cup {None}]
  BY <1>1, FlushedIsRow DEF Commit
<1>3. born' \in [Keys -> Nat] /\ bell' \subseteq Keys /\ req' \in [Clients -> Request \cup {None}]
  BY <1>1 DEF Commit, TypeOK, Request
<1>4. \A k \in q.answer : Carried(q, k) \in Loaded
  <2> TAKE k \in q.answer
  <2>1. q.seen[k] \in Row \cup {None} /\ q.after[k] \in Row /\ born[k] \in Nat
    BY <1>1 DEF TypeOK, Request
  <2> QED
    BY <2>1 DEF Carried, Loaded, Row
<1>5. known' \in [Clients -> [Keys -> Loaded \cup {None}]]
  <2>1. [k \in Keys |-> IF k \in q.answer THEN Carried(q, k) ELSE known[c][k]]
           \in [Keys -> Loaded \cup {None}]
    BY <1>4 DEF TypeOK
  <2> QED
    BY <2>1 DEF Commit, TypeOK
<1> QED
  BY <1>2, <1>3, <1>5 DEF TypeOK

LEMMA TypesPreserved ==
    ASSUME TypeOK, [Next]_vars
    PROVE  TypeOK'
<1>0. rows \in [Keys -> Row \cup {None}] /\ NoBase \in [Keys -> Loaded \cup {None}]
  BY DEF TypeOK, NoBase
<1>1. ASSUME NEW c \in Clients, NEW K \in SUBSET Keys, SaveDayPlans(c, K) PROVE TypeOK'
  <2> DEFINE base == [k \in Keys |-> IF k \in K THEN known[c][k] ELSE None]
  <2>1. PICK days \in [K -> Valid] :
           LET after == [k \in Keys |-> IF k \in K THEN Written(rows[k], days[k]) ELSE rows[k]]
           IN  Begin(c, after, Affected(K, after), K, base)
    BY <1>1 DEF SaveDayPlans
  <2> DEFINE after == [k \in Keys |-> IF k \in K THEN Written(rows[k], days[k]) ELSE rows[k]]
  <2>2. \A k \in K : Written(rows[k], days[k]) \in Row
    BY <1>0, WrittenIsRow, DayAssumption
  <2>3. after \in [Keys -> Row \cup {None}] /\ \A k \in K : after[k] # None
    BY <1>0, <2>2, NoneAssumption
  <2>4. base \in [Keys -> Loaded \cup {None}]
    BY DEF TypeOK
  <2>5. Affected(K, after) \in SUBSET Keys
    BY DEF Affected
  <2>6. Begin(c, after, Affected(K, after), K, base)
    BY <2>1
  <2> HIDE DEF after, base
  <2> QED
    BY <2>3, <2>4, <2>5, <2>6, BeginTypes
<1>2. ASSUME NEW c \in Clients, NEW k \in Keys, ResetDayPlan(c, k) PROVE TypeOK'
  <2> DEFINE after == [rows EXCEPT ![k] = None]
             tell == {x \in {k} : rows[x].published}
  <2>1. Begin(c, after, tell, {}, NoBase)
    BY <1>2 DEF ResetDayPlan
  <2>2. after \in [Keys -> Row \cup {None}] /\ tell \in SUBSET Keys
    BY <1>0
  <2> HIDE DEF after, tell
  <2> QED
    BY <1>0, <2>1, <2>2, BeginTypes
<1>3. ASSUME NEW c \in Clients, NEW K \in SUBSET Keys, NEW main \in K, NEW e \in Edits,
             ApplyEach(c, K, main, e)
      PROVE  TypeOK'
  <2> DEFINE result(k) == Edit(e, k, rows[main].day, rows[k].day)
             saved == {k \in K : /\ result(k) \in Valid
                                 /\ <<rows[k].day, result(k)>> \notin ZoneConflicts}
             after == [k \in Keys |-> IF k \in saved THEN Written(rows[k], result(k)) ELSE rows[k]]
  <2>1. Begin(c, after, Affected(saved, after), saved, NoBase)
    BY <1>3 DEF ApplyEach
  <2>2. \A k \in saved : Written(rows[k], result(k)) \in Row
    BY <1>0, WrittenIsRow, DayAssumption
  <2>3. saved \in SUBSET Keys
    OBVIOUS
  <2> HIDE DEF result, saved
  <2>4. after \in [Keys -> Row \cup {None}] /\ \A k \in saved : after[k] # None
    BY <1>0, <2>2, <2>3, NoneAssumption
  <2>5. Affected(saved, after) \in SUBSET Keys
    BY <2>3 DEF Affected
  <2> HIDE DEF after
  <2> QED
    BY <1>0, <2>1, <2>3, <2>4, <2>5, BeginTypes
<1>4. ASSUME NEW c \in Clients, NEW K \in SUBSET Keys, FillMissing(c, K) PROVE TypeOK'
  <2> DEFINE after(days) == [k \in Keys |-> IF k \in K /\ rows[k] = None
                                            THEN Written(None, days[k]) ELSE rows[k]]
  <2>1. PICK days \in [K -> Valid] : Begin(c, after(days), {}, {}, NoBase)
    BY <1>4 DEF FillMissing
  <2>2. \A k \in K : Written(None, days[k]) \in Row
    BY WrittenIsRow, DayAssumption
  <2>3. after(days) \in [Keys -> Row \cup {None}]
    BY <1>0, <2>2
  <2> HIDE DEF after
  <2> QED
    BY <1>0, <2>1, <2>3, BeginTypes
<1>5. ASSUME NEW c \in Clients, NEW K \in SUBSET Keys, Publish(c, K) PROVE TypeOK'
  <2> DEFINE drafts == {k \in K : rows[k] # None /\ ~rows[k].published}
             after == [k \in Keys |-> IF k \in drafts THEN [rows[k] EXCEPT !.published = TRUE]
                                                      ELSE rows[k]]
  <2>1. Begin(c, after, drafts, {}, NoBase)
    BY <1>5 DEF Publish
  <2>2. \A k \in drafts : [rows[k] EXCEPT !.published = TRUE] \in Row
    BY <1>0 DEF Row
  <2>3. drafts \in SUBSET Keys
    OBVIOUS
  <2> HIDE DEF drafts
  <2>4. after \in [Keys -> Row \cup {None}]
    BY <1>0, <2>2
  <2> HIDE DEF after
  <2> QED
    BY <1>0, <2>1, <2>3, <2>4, BeginTypes
<1>6. ASSUME NEW c \in Clients, Commit(c) PROVE TypeOK'
  BY <1>6, CommitTypes
<1>7. ASSUME NEW c \in Clients, RollBack(c) PROVE TypeOK'
  BY <1>7 DEF RollBack, TypeOK
<1>8. ASSUME NEW c \in Clients, ListDayPlans(c) PROVE TypeOK'
  <2> DEFINE load == [k \in Keys |-> IF rows[k] = None THEN None
                          ELSE [id |-> rows[k].id, version |-> rows[k].version,
                                day |-> rows[k].day]]
  <2>1. \A k \in Keys : load[k] \in Loaded \cup {None}
    <3> TAKE k \in Keys
    <3>1. rows[k] \in Row \cup {None}
      BY <1>0
    <3> QED
      BY <3>1 DEF Row, Loaded
  <2>2. load \in [Keys -> Loaded \cup {None}]
    BY <2>1
  <2>3. known' = [known EXCEPT ![c] = load]
    BY <1>8 DEF ListDayPlans
  <2> HIDE DEF load
  <2> QED
    BY <1>8, <2>2, <2>3 DEF ListDayPlans, TypeOK
<1>9. CASE UNCHANGED vars
  BY <1>9 DEF vars, TypeOK
<1> QED
  BY <1>1, <1>2, <1>3, <1>4, <1>5, <1>6, <1>7, <1>8, <1>9 DEF Next, Handler

(* Every variable keeps its type, whatever overlaps.                       *)
THEOREM TypeCorrect == Spec => []TypeOK
<1>1. Init => TypeOK
  BY DEF Init, TypeOK
<1> QED
  BY <1>1, TypesPreserved, PTL DEF Spec

-----------------------------------------------------------------------------
(* Requests that overlap *)

LEMMA BeginPlanned ==
    ASSUME TypeOK, RequestsWellPlanned, NEW c \in Clients,
           NEW after, NEW tell, NEW answer, NEW relied,
           \A k \in Keys : PlannedAt(k, rows[k], after[k], tell, relied[k]),
           Begin(c, after, tell, answer, relied)
    PROVE  RequestsWellPlanned'
<1> DEFINE q == [seen |-> rows, after |-> after, tell |-> tell, answer |-> answer,
                 relied |-> relied]
<1>1. WellPlanned(q)
  BY DEF WellPlanned
<1>2. req' = [req EXCEPT ![c] = q]
  BY DEF Begin
<1> HIDE DEF q
<1>3. ASSUME NEW x \in Clients, req'[x] # None PROVE WellPlanned(req'[x])
  BY <1>1, <1>2, <1>3 DEF RequestsWellPlanned, TypeOK
<1> QED
  BY <1>3 DEF RequestsWellPlanned, WellPlanned, PlannedAt, Shown

(* A write of day d to a row plans well if the agent is told where the day *)
(* is published and changes.                                               *)
LEMMA WrittenPlanned ==
    ASSUME NEW r \in Row \cup {None}, NEW d \in Valid, NEW k, NEW tell, NEW base,
           r # None /\ r.published /\ d # r.day => k \in tell,
           base # None /\ r # None => r.version = base.version
    PROVE  PlannedAt(k, r, Written(r, d), tell, base)
<1>1. Written(r, d) # None
  BY WrittenIsRow, DayAssumption, NoneAssumption
<1>2. CASE r = None
  BY <1>1, <1>2 DEF PlannedAt, Written, Shown
<1>3. CASE r # None
  <2>1. r \in Row
    BY <1>3
  <2>2. /\ Written(r, d).id = r.id /\ Written(r, d).day = d
        /\ Written(r, d).version = r.version + 1 /\ Written(r, d).published = r.published
    BY <1>3, <2>1 DEF Written, Row
  <2> QED
    BY <1>1, <1>3, <2>2 DEF PlannedAt, Shown
<1> QED
  BY <1>2, <1>3

LEMMA UntouchedPlanned ==
    ASSUME NEW r, NEW k, NEW tell
    PROVE  PlannedAt(k, r, r, tell, None)
  BY DEF PlannedAt

LEMMA WellPlannedPreserved ==
    ASSUME TypeOK, RequestsWellPlanned, [Next]_vars
    PROVE  RequestsWellPlanned'
<1>0. \A k \in Keys : rows[k] \in Row \cup {None}
  BY DEF TypeOK
<1>1. ASSUME NEW c \in Clients, NEW K \in SUBSET Keys, SaveDayPlans(c, K)
      PROVE  RequestsWellPlanned'
  <2> DEFINE base == [k \in Keys |-> IF k \in K THEN known[c][k] ELSE None]
  <2>1. PICK days \in [K -> Valid] :
           LET after == [k \in Keys |-> IF k \in K THEN Written(rows[k], days[k]) ELSE rows[k]]
           IN  Fresh(base) /\ Begin(c, after, Affected(K, after), K, base)
    BY <1>1 DEF SaveDayPlans
  <2> DEFINE after == [k \in Keys |-> IF k \in K THEN Written(rows[k], days[k]) ELSE rows[k]]
             tell == Affected(K, after)
  <2>2. ASSUME NEW k \in Keys PROVE PlannedAt(k, rows[k], after[k], tell, base[k])
    <3>1. CASE k \notin K
      <4>1. after[k] = rows[k] /\ base[k] = None
        BY <3>1
      <4> QED
        BY <4>1, UntouchedPlanned
    <3>2. CASE k \in K
      <4>1. after[k] = Written(rows[k], days[k]) /\ days[k] \in Valid
        BY <3>2
      <4>2. base[k] # None /\ rows[k] # None => rows[k].version = base[k].version
        BY <2>1 DEF Fresh
      <4>3. rows[k] # None /\ rows[k].published /\ days[k] # rows[k].day => k \in tell
        <5>1. rows[k] # None => after[k].day = days[k]
          BY <1>0, <4>1 DEF Written, Row
        <5> QED
          BY <3>2, <5>1 DEF Affected
      <4> HIDE DEF after, tell, base
      <4> QED
        BY <1>0, <4>1, <4>2, <4>3, WrittenPlanned
    <3> QED
      BY <3>1, <3>2
  <2>3. Begin(c, after, tell, K, base)
    BY <2>1
  <2> HIDE DEF after, tell, base
  <2> QED
    BY <2>2, <2>3, BeginPlanned
<1>2. ASSUME NEW c \in Clients, NEW y \in Keys, ResetDayPlan(c, y) PROVE RequestsWellPlanned'
  <2> DEFINE after == [rows EXCEPT ![y] = None]
             tell == {x \in {y} : rows[x].published}
  <2>1. Begin(c, after, tell, {}, NoBase)
    BY <1>2 DEF ResetDayPlan
  <2>2. ASSUME NEW k \in Keys PROVE PlannedAt(k, rows[k], after[k], tell, NoBase[k])
    <3>1. NoBase[k] = None
      BY DEF NoBase
    <3>2. CASE k # y
      <4>1. after[k] = rows[k]
        BY <3>2 DEF TypeOK
      <4> QED
        BY <3>1, <4>1, UntouchedPlanned
    <3>3. CASE k = y
      <4>1. after[k] = None /\ (rows[k] # None /\ rows[k].published => k \in tell)
        BY <3>3 DEF TypeOK
      <4> HIDE DEF after, tell
      <4> QED
        BY <3>1, <4>1 DEF PlannedAt, Shown
    <3> QED
      BY <3>2, <3>3
  <2> HIDE DEF after, tell
  <2> QED
    BY <2>1, <2>2, BeginPlanned
<1>3. ASSUME NEW c \in Clients, NEW K \in SUBSET Keys, NEW main \in K, NEW e \in Edits,
             ApplyEach(c, K, main, e)
      PROVE  RequestsWellPlanned'
  <2> DEFINE result(k) == Edit(e, k, rows[main].day, rows[k].day)
             saved == {k \in K : /\ result(k) \in Valid
                                 /\ <<rows[k].day, result(k)>> \notin ZoneConflicts}
             after == [k \in Keys |-> IF k \in saved THEN Written(rows[k], result(k)) ELSE rows[k]]
             tell == Affected(saved, after)
  <2>1. Begin(c, after, tell, saved, NoBase)
    BY <1>3 DEF ApplyEach
  <2>2. ASSUME NEW k \in Keys PROVE PlannedAt(k, rows[k], after[k], tell, NoBase[k])
    <3>1. NoBase[k] = None
      BY DEF NoBase
    <3>2. CASE k \notin saved
      <4>1. after[k] = rows[k]
        BY <3>2
      <4> HIDE DEF after, tell
      <4> QED
        BY <3>1, <4>1, UntouchedPlanned
    <3>3. CASE k \in saved
      <4>1. after[k] = Written(rows[k], result(k)) /\ result(k) \in Valid
        BY <3>3
      <4>2. rows[k] # None /\ rows[k].published /\ result(k) # rows[k].day => k \in tell
        <5>1. rows[k] # None => after[k].day = result(k)
          BY <1>0, <4>1 DEF Written, Row
        <5> QED
          BY <3>3, <5>1 DEF Affected
      <4> HIDE DEF result, after, tell
      <4> QED
        BY <1>0, <3>1, <4>1, <4>2, WrittenPlanned
    <3> QED
      BY <3>2, <3>3
  <2> HIDE DEF after, tell, saved
  <2> QED
    BY <2>1, <2>2, BeginPlanned
<1>4. ASSUME NEW c \in Clients, NEW K \in SUBSET Keys, FillMissing(c, K)
      PROVE  RequestsWellPlanned'
  <2>1. PICK days \in [K -> Valid] :
           Begin(c, [k \in Keys |-> IF k \in K /\ rows[k] = None THEN Written(None, days[k])
                                                                  ELSE rows[k]],
                 {}, {}, NoBase)
    BY <1>4 DEF FillMissing
  <2> DEFINE after == [k \in Keys |-> IF k \in K /\ rows[k] = None THEN Written(None, days[k])
                                                                    ELSE rows[k]]
  <2>2. ASSUME NEW k \in Keys PROVE PlannedAt(k, rows[k], after[k], {}, NoBase[k])
    <3>1. NoBase[k] = None
      BY DEF NoBase
    <3>2. CASE k \in K /\ rows[k] = None
      <4>1. after[k] = Written(rows[k], days[k]) /\ days[k] \in Valid
        BY <3>2
      <4> HIDE DEF after
      <4> QED
        BY <1>0, <3>1, <3>2, <4>1, WrittenPlanned
    <3>3. CASE ~ (k \in K /\ rows[k] = None)
      <4>1. after[k] = rows[k]
        BY <3>3
      <4> QED
        BY <3>1, <4>1, UntouchedPlanned
    <3> QED
      BY <3>2, <3>3
  <2> HIDE DEF after
  <2> QED
    BY <2>1, <2>2, BeginPlanned DEF after
<1>5. ASSUME NEW c \in Clients, NEW K \in SUBSET Keys, Publish(c, K) PROVE RequestsWellPlanned'
  <2> DEFINE drafts == {k \in K : rows[k] # None /\ ~rows[k].published}
             after == [k \in Keys |-> IF k \in drafts THEN [rows[k] EXCEPT !.published = TRUE]
                                                      ELSE rows[k]]
  <2>1. Begin(c, after, drafts, {}, NoBase)
    BY <1>5 DEF Publish
  <2>2. ASSUME NEW k \in Keys PROVE PlannedAt(k, rows[k], after[k], drafts, NoBase[k])
    <3>1. NoBase[k] = None
      BY DEF NoBase
    <3>2. CASE k \notin drafts
      <4>1. after[k] = rows[k]
        BY <3>2
      <4> HIDE DEF after, drafts
      <4> QED
        BY <3>1, <4>1, UntouchedPlanned
    <3>3. CASE k \in drafts
      <4>1. /\ rows[k] # None /\ rows[k] \in Row /\ after[k] = [rows[k] EXCEPT !.published = TRUE]
        BY <1>0, <3>3
      <4> HIDE DEF after, drafts
      <4> QED
        BY <3>1, <3>3, <4>1 DEF PlannedAt, Row
    <3> QED
      BY <3>2, <3>3
  <2> HIDE DEF after, drafts
  <2> QED
    BY <2>1, <2>2, BeginPlanned
<1>6. ASSUME NEW c \in Clients, Commit(c) \/ RollBack(c) PROVE RequestsWellPlanned'
  <2>1. \A x \in Clients : req'[x] # None => req'[x] = req[x]
    BY <1>6 DEF Commit, RollBack, TypeOK
  <2> QED
    BY <2>1 DEF RequestsWellPlanned, WellPlanned, PlannedAt, Shown
<1>7. ASSUME NEW c \in Clients, ListDayPlans(c) PROVE RequestsWellPlanned'
  BY <1>7 DEF ListDayPlans, RequestsWellPlanned, WellPlanned, PlannedAt, Shown
<1>8. CASE UNCHANGED vars
  BY <1>8 DEF vars, RequestsWellPlanned, WellPlanned, PlannedAt, Shown
<1> QED
  BY <1>1, <1>2, <1>3, <1>4, <1>5, <1>6, <1>7, <1>8 DEF Next, Handler

(* Whatever overlaps, no request undoes a publication or writes an invalid *)
(* day into the row it read.                                               *)
THEOREM RequestsStayWellPlanned == Spec => [](TypeOK /\ RequestsWellPlanned)
<1>1. Init => RequestsWellPlanned
  BY DEF Init, RequestsWellPlanned
<1> QED
  BY <1>1, WellPlannedPreserved, TypeCorrect, PTL DEF Spec

(* How one step changes one row: not at all, by an insert, a delete, or an *)
(* update of the row that was read.                                        *)
LEMMA RowSteps ==
    ASSUME TypeOK, RequestsWellPlanned, [Next]_vars, NEW k \in Keys
    PROVE  \/ rows'[k] = rows[k]
           \/ rows'[k] = None
           \/ /\ rows[k] = None /\ rows'[k].version = 1 /\ ~rows'[k].published
              /\ rows'[k].id = born[k] + 1
           \/ /\ rows[k] # None /\ rows'[k] # None /\ rows'[k].id = rows[k].id
              /\ rows[k].published => rows'[k].published
<1>1. ASSUME NEW c \in Clients, Commit(c)
      PROVE  \/ rows'[k] = rows[k]
             \/ rows'[k] = None
             \/ /\ rows[k] = None /\ rows'[k].version = 1 /\ ~rows'[k].published
                /\ rows'[k].id = born[k] + 1
             \/ /\ rows[k] # None /\ rows'[k] # None /\ rows'[k].id = rows[k].id
                /\ rows[k].published => rows'[k].published
  <2> DEFINE q == req[c]
  <2>1. q \in Request /\ CanFlush(q) /\ WellPlanned(q) /\ rows'[k] = Flushed(q, k)
    BY <1>1 DEF Commit, RequestsWellPlanned, TypeOK
  <2>2. /\ PlannedAt(k, q.seen[k], q.after[k], q.tell, q.relied[k])
        /\ q.seen[k] \in Row \cup {None} /\ q.after[k] \in Row \cup {None}
        /\ rows[k] \in Row \cup {None} /\ born[k] \in Nat
    BY <2>1 DEF WellPlanned, TypeOK, Request
  <2> HIDE DEF q
  <2>3. CASE k \notin Touched(q)
    BY <2>1, <2>3 DEF Flushed
  <2>4. CASE k \in Touched(q) /\ q.seen[k] = None
    <3>1. q.after[k] \in Row /\ rows[k] = None
      BY <2>1, <2>2, <2>4 DEF CanFlush, Touched
    <3>2. rows'[k] = [q.after[k] EXCEPT !.id = born[k] + 1]
      BY <2>1, <2>4 DEF Flushed
    <3>3. q.after[k].version = 1 /\ ~q.after[k].published
      BY <2>2, <2>4, <3>1, NoneAssumption DEF PlannedAt
    <3> QED
      BY <3>1, <3>2, <3>3 DEF Row
  <2>5. CASE k \in Touched(q) /\ q.seen[k] # None /\ q.after[k] = None
    BY <2>1, <2>5 DEF Flushed
  <2>6. CASE k \in Touched(q) /\ q.seen[k] # None /\ q.after[k] # None
    <3>1. rows[k] \in Row /\ rows'[k] = Updated(q.seen[k], q.after[k], rows[k])
      BY <2>1, <2>2, <2>6 DEF CanFlush, SameRow, Flushed
    <3>2. rows'[k] # None
      <4>1. rows'[k] \in Row
        BY <2>1, <2>2, <2>6, <3>1 DEF Updated, Net, Row, Day
      <4> QED
        BY <4>1, NoneAssumption
    <3>3. rows'[k].id = rows[k].id
      BY <3>1 DEF Updated
    <3>4. rows'[k].published = Net(q.seen[k].published, q.after[k].published, rows[k].published)
      BY <3>1 DEF Updated
    <3>5. q.seen[k].published => q.after[k].published
      BY <2>2, <2>6 DEF PlannedAt
    <3>6. /\ q.seen[k].published \in BOOLEAN /\ q.after[k].published \in BOOLEAN
          /\ rows[k].published \in BOOLEAN
      BY <2>2, <2>6, <3>1 DEF Row
    <3>7. rows[k].published => rows'[k].published
      BY <3>4, <3>5, <3>6 DEF Net
    <3> QED
      BY <3>1, <3>2, <3>3, <3>7, NoneAssumption
  <2> QED
    BY <2>3, <2>4, <2>5, <2>6
<1>2. ASSUME NEW c \in Clients, Handler(c) \/ RollBack(c) \/ ListDayPlans(c)
      PROVE  rows' = rows
  <2>1. Handler(c) => rows' = rows
    BY ZenonT(60) DEF Handler, SaveDayPlans, ResetDayPlan, ApplyEach, FillMissing, Publish, Begin
  <2> QED
    BY <1>2, <2>1 DEF RollBack, ListDayPlans
<1>3. UNCHANGED vars => rows' = rows
  BY DEF vars
<1> QED
  BY <1>1, <1>2, <1>3 DEF Next

(* Only a reset hides a published day, whatever saves, edits and publishes *)
(* overlap (publish, dayplan_service.py:562).                              *)
THEOREM PublicationIsKept == Spec => PublishedStaysPublished
<1>1. TypeOK /\ RequestsWellPlanned /\ [Next]_vars =>
        [\A k \in Keys : rows[k] # None /\ rows[k].published /\ rows'[k] # None
           => rows'[k].published]_vars
  BY RowSteps
<1> QED
  BY <1>1, RequestsStayWellPlanned, PTL DEF Spec, PublishedStaysPublished

(* A request's UPDATE of a row whose content is still the one it read, or   *)
(* whose content it does not change, stores a valid day or the old one.     *)
LEMMA UpdateIsValid ==
    ASSUME NEW old \in Row, NEW new \in Row, NEW current \in Row,
           new.day \in Valid \/ new.day = old.day,
           current.day = old.day \/ new.day = old.day
    PROVE  \/ Updated(old, new, current).day \in Valid
           \/ Updated(old, new, current).day = current.day
<1> DEFINE day == [c \in Cols |-> Net(old.day[c], new.day[c], current.day[c])]
<1>1. Updated(old, new, current).day = day
  BY DEF Updated
<1>2. old.day \in Day /\ new.day \in Day /\ current.day \in Day
  BY DEF Row
<1>3. CASE new.day = old.day
  <2>1. day = current.day
    BY <1>2, <1>3 DEF Net, Day
  <2> QED
    BY <1>1, <2>1
<1>4. CASE current.day = old.day
  <2>1. day = new.day
    BY <1>2, <1>4 DEF Net, Day
  <2> QED
    BY <1>1, <1>4, <2>1
<1> QED
  BY <1>3, <1>4

(* Whatever overlaps, only a commit that merges its columns into a content *)
(* stored since it read the row stores a day that breaks the rules.        *)
LEMMA InvalidSteps ==
    ASSUME TypeOK, RequestsWellPlanned, [Next]_vars, NEW k \in Keys,
           rows'[k] # None, rows'[k].day \notin Valid,
           rows[k] # None => rows[k].day # rows'[k].day
    PROVE  \E c \in Clients : MergesInto(c, k)
<1>1. rows'[k] # rows[k]
  OBVIOUS
<1>2. PICK c \in Clients : Commit(c)
  <2>1. ASSUME NEW c \in Clients, Handler(c) \/ RollBack(c) \/ ListDayPlans(c)
        PROVE  rows' = rows
    <3>1. Handler(c) => rows' = rows
      BY ZenonT(60) DEF Handler, SaveDayPlans, ResetDayPlan, ApplyEach, FillMissing, Publish, Begin
    <3> QED
      BY <2>1, <3>1 DEF RollBack, ListDayPlans
  <2>2. UNCHANGED vars => rows' = rows
    BY DEF vars
  <2> QED
    BY <1>1, <2>1, <2>2 DEF Next
<1> DEFINE q == req[c]
<1>3. /\ q # None /\ q \in Request /\ CanFlush(q) /\ WellPlanned(q)
      /\ rows'[k] = Flushed(q, k) /\ req'[c] = None
  BY <1>2 DEF Commit, RequestsWellPlanned, TypeOK
<1>4. /\ PlannedAt(k, q.seen[k], q.after[k], q.tell, q.relied[k])
      /\ q.seen[k] \in Row \cup {None} /\ q.after[k] \in Row \cup {None}
      /\ rows[k] \in Row \cup {None} /\ born[k] \in Nat
  BY <1>3 DEF WellPlanned, TypeOK, Request
<1>5. SUFFICES /\ q.seen[k] # None /\ rows[k] # None /\ rows[k].id = q.seen[k].id
               /\ rows[k].day # q.seen[k].day /\ q.after[k].day # q.seen[k].day
  BY <1>3 DEF MergesInto
<1> HIDE DEF q
<1>6. k \in Touched(q)
  BY <1>1, <1>3 DEF Flushed
<1>7. q.seen[k] # None
  <2> SUFFICES ASSUME q.seen[k] = None PROVE FALSE
    OBVIOUS
  <2>1. q.after[k] \in Row /\ rows'[k] = [q.after[k] EXCEPT !.id = born[k] + 1]
    BY <1>3, <1>4, <1>6 DEF Flushed, Touched
  <2>2. q.after[k].day \in Valid
    BY <1>4, <2>1, NoneAssumption DEF PlannedAt
  <2> QED
    BY <2>1, <2>2 DEF Row
<1>8. q.after[k] # None
  BY <1>1, <1>3, <1>6, <1>7 DEF Flushed
<1>9. /\ rows[k] \in Row /\ q.seen[k] \in Row /\ q.after[k] \in Row
      /\ rows[k] # None /\ rows[k].id = q.seen[k].id
      /\ rows'[k] = Updated(q.seen[k], q.after[k], rows[k])
  BY <1>3, <1>4, <1>6, <1>7, <1>8 DEF Flushed, CanFlush, SameRow
<1>10. q.after[k].day \in Valid \/ q.after[k].day = q.seen[k].day
  BY <1>4, <1>7, <1>8 DEF PlannedAt
<1>11. rows[k].day # q.seen[k].day /\ q.after[k].day # q.seen[k].day
  BY <1>9, <1>10, UpdateIsValid
<1> QED
  BY <1>7, <1>9, <1>11

(* The server enforces the scheduling rules (dayplan.py:3) on every write  *)
(* but one that merges columns: whatever overlaps, a stored day breaks the *)
(* rules only where two requests changed one row at once.                  *)
THEOREM InvalidDaysAreMerged == Spec => InvalidOnlyMerged
<1>1. TypeOK /\ RequestsWellPlanned /\ [Next]_vars =>
        [\A k \in Keys :
          /\ rows'[k] # None /\ rows'[k].day \notin Valid
          /\ rows[k] # None => rows[k].day # rows'[k].day
          => \E c \in Clients : MergesInto(c, k)]_vars
  BY InvalidSteps
<1> QED
  BY <1>1, RequestsStayWellPlanned, PTL DEF Spec, InvalidOnlyMerged

(* A reset day only comes back as a new draft, whatever was under way on   *)
(* the old row (reset_day_plan, dayplan_service.py:258).                   *)
THEOREM ResetCannotBeUndone == Spec => ResetIsFinal
<1>1. TypeOK /\ RequestsWellPlanned /\ [Next]_vars =>
        [\A k \in Keys : rows'[k] # None /\ (rows[k] = None \/ rows[k].id # rows'[k].id)
          => /\ rows[k] = None
             /\ rows'[k].version = 1 /\ ~rows'[k].published
             /\ rows'[k].id = born[k] + 1]_vars
  BY RowSteps
<1> QED
  BY <1>1, RequestsStayWellPlanned, PTL DEF Spec, ResetIsFinal

-----------------------------------------------------------------------------
(* Requests that do not overlap *)

(* A flush of a request whose rows are still as it read them stores what   *)
(* its session holds.                                                      *)
LEMMA SerialFlush ==
    ASSUME TypeOK, NEW q \in Request, q.seen = rows, WellPlanned(q), NEW k \in Keys
    PROVE  \/ q.after[k] = None /\ Flushed(q, k) = None
           \/ /\ rows[k] = None /\ q.after[k] # None /\ k \in Touched(q)
              /\ Flushed(q, k) = [q.after[k] EXCEPT !.id = born[k] + 1]
           \/ rows[k] # None /\ q.after[k] # None /\ Flushed(q, k) = q.after[k]
<1>1. /\ PlannedAt(k, rows[k], q.after[k], q.tell, q.relied[k]) /\ q.seen[k] = rows[k]
      /\ rows[k] \in Row \cup {None} /\ q.after[k] \in Row \cup {None}
  BY DEF WellPlanned, TypeOK, Request
<1>2. CASE k \notin Touched(q)
  BY <1>1, <1>2 DEF Flushed, Touched
<1>3. CASE k \in Touched(q) /\ rows[k] = None
  BY <1>1, <1>3 DEF Flushed, Touched
<1>4. CASE k \in Touched(q) /\ rows[k] # None /\ q.after[k] = None
  BY <1>1, <1>4 DEF Flushed, SameRow
<1>5. CASE k \in Touched(q) /\ rows[k] # None /\ q.after[k] # None
  <2> DEFINE old == rows[k]
             new == q.after[k]
  <2>1. old \in Row /\ new \in Row /\ new.id = old.id
    BY <1>1, <1>5 DEF PlannedAt
  <2>2. Flushed(q, k) = Updated(old, new, old)
    BY <1>1, <1>5 DEF Flushed
  <2> HIDE DEF old, new
  <2>3. [c \in Cols |-> Net(old.day[c], new.day[c], old.day[c])] = new.day
    BY <2>1 DEF Net, Row, Day
  <2>4. Updated(old, new, old) = new
    BY <2>1, <2>3 DEF Updated, Net, Row
  <2> QED
    BY <1>5, <2>2, <2>4 DEF old, new
<1> QED
  BY <1>2, <1>3, <1>4, <1>5

LEMMA SerialCommit ==
    ASSUME TypeOK, SerialInv, NEW c \in Clients, Commit(c)
    PROVE  /\ StoredDaysValid' /\ AloneInFlight' /\ VersionsName' /\ LoadedWasBorn'
           /\ \A k \in Keys : Shown(rows'[k]) # Shown(rows[k]) => k \in bell'
<1> DEFINE q == req[c]
<1>1. /\ q \in Request /\ q.seen = rows /\ WellPlanned(q) /\ CanFlush(q)
      /\ \A x \in Clients \ {c} : req[x] = None
  BY DEF Commit, TypeOK, SerialInv, AloneInFlight, RequestsWellPlanned
<1>2. /\ req' = [req EXCEPT ![c] = None] /\ bell' = q.tell
      /\ rows' = [k \in Keys |-> Flushed(q, k)]
      /\ born' = [k \in Keys |-> IF k \in Touched(q) /\ q.seen[k] = None
                                 THEN born[k] + 1 ELSE born[k]]
      /\ \A x \in Clients, k \in Keys :
            known'[x][k] = known[x][k] \/ (x = c /\ k \in q.answer /\ known'[x][k] = Carried(q, k))
  BY DEF Commit, TypeOK
<1>3. AloneInFlight'
  BY <1>1, <1>2 DEF AloneInFlight, TypeOK
<1> HIDE DEF q
<1>4. ASSUME NEW k \in Keys
      PROVE  /\ rows[k] \in Row \cup {None} /\ q.after[k] \in Row \cup {None}
             /\ born[k] \in Nat /\ q.seen[k] = rows[k]
             /\ PlannedAt(k, rows[k], q.after[k], q.tell, q.relied[k])
             /\ k \in q.answer => q.after[k] # None
  BY <1>1 DEF TypeOK, Request, WellPlanned
<1>5. ASSUME NEW k \in Keys
      PROVE  \/ q.after[k] = None /\ rows'[k] = None
             \/ /\ rows[k] = None /\ q.after[k] # None /\ k \in Touched(q)
                /\ rows'[k] = [q.after[k] EXCEPT !.id = born[k] + 1]
             \/ rows[k] # None /\ q.after[k] # None /\ rows'[k] = q.after[k]
  BY <1>1, <1>2, SerialFlush
<1>6. StoredDaysValid'
  <2> SUFFICES ASSUME NEW k \in Keys, rows'[k] # None PROVE rows'[k].day \in Valid
    BY DEF StoredDaysValid
  <2>1. q.after[k].day \in Valid /\ q.after[k] \in Row
    BY <1>4, <1>5 DEF PlannedAt, SerialInv, StoredDaysValid
  <2> QED
    BY <1>5, <2>1 DEF Row
<1>7. ASSUME NEW k \in Keys, Shown(rows'[k]) # Shown(rows[k]) PROVE k \in bell'
  <2>1. CASE rows'[k] = q.after[k]
    BY <1>2, <1>4, <1>7, <2>1 DEF PlannedAt
  <2>2. CASE rows[k] = None /\ q.after[k] # None /\ rows'[k] = [q.after[k] EXCEPT !.id = born[k] + 1]
    <3>1. ~q.after[k].published /\ q.after[k] \in Row
      BY <1>4, <2>2 DEF PlannedAt
    <3>2. Shown(rows'[k]) = None /\ Shown(rows[k]) = None
      BY <2>2, <3>1 DEF Shown, Row
    <3> QED
      BY <1>7, <3>2
  <2> QED
    BY <1>5, <2>1, <2>2
<1>8. ASSUME NEW x \in Clients, NEW k \in Keys, known[x][k] # None
      PROVE  /\ known[x][k].id \in Nat /\ known[x][k].version \in Nat
             /\ known[x][k].id <= born[k]
             /\ rows[k] # None /\ known[x][k].id = rows[k].id =>
                   /\ known[x][k].version <= rows[k].version
                   /\ known[x][k].version = rows[k].version => known[x][k].day = rows[k].day
  BY <1>8 DEF SerialInv, LoadedWasBorn, VersionsName, TypeOK, Loaded
<1>9. ASSUME NEW k \in Keys
      PROVE  /\ born'[k] = IF k \in Touched(q) /\ rows[k] = None THEN born[k] + 1 ELSE born[k]
             /\ rows[k] # None => rows[k].id <= born[k] /\ rows[k].id \in Nat
                                  /\ rows[k].version \in Nat
  BY <1>2, <1>4 DEF SerialInv, VersionsName, Row
<1>10. LoadedWasBorn'
  <2> SUFFICES ASSUME NEW x \in Clients, NEW k \in Keys, known'[x][k] # None
               PROVE  known'[x][k].id <= born'[k]
    BY DEF LoadedWasBorn
  <2>1. CASE known'[x][k] = known[x][k]
    BY <1>4, <1>8, <1>9, <2>1
  <2>2. CASE k \in q.answer /\ known'[x][k] = Carried(q, k)
    <3>1. known'[x][k].id = IF rows[k] = None THEN born[k] + 1 ELSE rows[k].id
      BY <1>4, <2>2 DEF Carried
    <3>2. rows[k] = None => k \in Touched(q)
      BY <1>4, <2>2 DEF Touched
    <3> QED
      BY <1>4, <1>9, <3>1, <3>2
  <2> QED
    BY <1>2, <2>1, <2>2
<1>11. VersionsName'
  <2> SUFFICES ASSUME NEW k \in Keys, rows'[k] # None
               PROVE  /\ rows'[k].id <= born'[k]
                      /\ \A x \in Clients : known'[x][k] # None /\ known'[x][k].id = rows'[k].id =>
                            /\ known'[x][k].version <= rows'[k].version
                            /\ known'[x][k].version = rows'[k].version =>
                                  known'[x][k].day = rows'[k].day
    BY DEF VersionsName
  <2>0. q.after[k] \in Row /\ q.after[k] # None
    BY <1>4, <1>5
  <2>1. CASE rows[k] = None
    <3>1. /\ rows'[k].id = born[k] + 1 /\ born'[k] = born[k] + 1
          /\ rows'[k].version = q.after[k].version /\ rows'[k].day = q.after[k].day
      BY <1>4, <1>5, <1>9, <2>0, <2>1 DEF Row
    <3>2. ASSUME NEW x \in Clients, known'[x][k] # None, known'[x][k].id = rows'[k].id
          PROVE  known'[x][k].version = rows'[k].version /\ known'[x][k].day = rows'[k].day
      <4>1. known'[x][k] # known[x][k]
        BY <1>4, <1>8, <3>1, <3>2
      <4>2. known'[x][k] = Carried(q, k)
        BY <1>2, <4>1
      <4> QED
        BY <3>1, <4>2 DEF Carried
    <3>3. rows'[k].version \in Nat
      BY <2>0, <3>1 DEF Row
    <3> QED
      BY <1>4, <3>1, <3>2, <3>3
  <2>2. CASE rows[k] # None
    <3>1. /\ rows'[k] = q.after[k] /\ rows'[k].id = rows[k].id /\ born'[k] = born[k]
          /\ \/ rows'[k].version = rows[k].version + 1
             \/ rows'[k].version = rows[k].version /\ rows'[k].day = rows[k].day
      BY <1>4, <1>5, <1>9, <2>0, <2>2, ZenonT(60) DEF PlannedAt
    <3>2. ASSUME NEW x \in Clients, known'[x][k] # None, known'[x][k].id = rows'[k].id
          PROVE  /\ known'[x][k].version <= rows'[k].version
                 /\ known'[x][k].version = rows'[k].version => known'[x][k].day = rows'[k].day
      <4>1. CASE known'[x][k] = known[x][k]
        BY <1>8, <1>9, <2>2, <3>1, <3>2, <4>1
      <4>2. CASE known'[x][k] = Carried(q, k)
        <5>1. rows'[k].version \in Nat
          BY <2>0, <3>1 DEF Row
        <5> QED
          BY <3>1, <4>2, <5>1 DEF Carried
      <4> QED
        BY <1>2, <4>1, <4>2
    <3> QED
      BY <1>9, <2>2, <3>1, <3>2
  <2> QED
    BY <2>1, <2>2
<1> QED
  BY <1>3, <1>6, <1>7, <1>10, <1>11

(* A request that begins while no other is in flight.                      *)
LEMMA SerialBegin ==
    ASSUME Overlap = FALSE, TypeOK, SerialInv, NEW c \in Clients,
           NEW after, NEW tell, NEW answer, NEW relied,
           \A k \in Keys : relied[k] \in {None, known[c][k]},
           Begin(c, after, tell, answer, relied)
    PROVE  StoredDaysValid' /\ AloneInFlight' /\ VersionsName' /\ LoadedWasBorn'
<1> DEFINE q == [seen |-> rows, after |-> after, tell |-> tell, answer |-> answer,
                 relied |-> relied]
<1>1. /\ req' = [req EXCEPT ![c] = q] /\ rows' = rows /\ born' = born /\ known' = known
      /\ \A x \in Clients : req[x] = None
  BY DEF Begin
<1>2. q.seen = rows /\ q.relied = relied
  OBVIOUS
<1> HIDE DEF q
<1>3. AloneInFlight'
  BY <1>1, <1>2 DEF AloneInFlight, TypeOK
<1> QED
  BY <1>1, <1>3 DEF SerialInv, StoredDaysValid, VersionsName, LoadedWasBorn

LEMMA SerialInvPreserved ==
    ASSUME Overlap = FALSE, TypeOK, SerialInv, [Next]_vars
    PROVE  SerialInv'
<1> SUFFICES StoredDaysValid' /\ AloneInFlight' /\ VersionsName' /\ LoadedWasBorn'
  BY WellPlannedPreserved DEF SerialInv
<1>0. \A c \in Clients, k \in Keys : NoBase[k] \in {None, known[c][k]}
  BY DEF NoBase
<1>1. ASSUME NEW c \in Clients, NEW K \in SUBSET Keys, SaveDayPlans(c, K)
      PROVE  StoredDaysValid' /\ AloneInFlight' /\ VersionsName' /\ LoadedWasBorn'
  <2> DEFINE base == [k \in Keys |-> IF k \in K THEN known[c][k] ELSE None]
  <2>1. PICK days \in [K -> Valid] :
           LET after == [k \in Keys |-> IF k \in K THEN Written(rows[k], days[k]) ELSE rows[k]]
           IN  Begin(c, after, Affected(K, after), K, base)
    BY <1>1 DEF SaveDayPlans
  <2>2. \A k \in Keys : base[k] \in {None, known[c][k]}
    OBVIOUS
  <2> HIDE DEF base
  <2> QED
    BY <2>1, <2>2, SerialBegin
<1>2. ASSUME NEW c \in Clients, NEW k \in Keys, ResetDayPlan(c, k)
      PROVE  StoredDaysValid' /\ AloneInFlight' /\ VersionsName' /\ LoadedWasBorn'
  BY <1>0, <1>2, SerialBegin DEF ResetDayPlan
<1>3. ASSUME NEW c \in Clients, NEW K \in SUBSET Keys, NEW main \in K, NEW e \in Edits,
             ApplyEach(c, K, main, e)
      PROVE  StoredDaysValid' /\ AloneInFlight' /\ VersionsName' /\ LoadedWasBorn'
  BY <1>0, <1>3, SerialBegin DEF ApplyEach
<1>4. ASSUME NEW c \in Clients, NEW K \in SUBSET Keys, FillMissing(c, K) \/ Publish(c, K)
      PROVE  StoredDaysValid' /\ AloneInFlight' /\ VersionsName' /\ LoadedWasBorn'
  BY <1>0, <1>4, SerialBegin DEF FillMissing, Publish
<1>5. ASSUME NEW c \in Clients, Commit(c)
      PROVE  StoredDaysValid' /\ AloneInFlight' /\ VersionsName' /\ LoadedWasBorn'
  BY <1>5, SerialCommit
<1>6. ASSUME NEW c \in Clients, RollBack(c)
      PROVE  StoredDaysValid' /\ AloneInFlight' /\ VersionsName' /\ LoadedWasBorn'
  <2>1. /\ rows' = rows /\ born' = born /\ known' = known
        /\ \A x \in Clients : req'[x] # None => req'[x] = req[x] /\ x # c
        /\ \A x \in Clients : req[x] = None => req'[x] = None
    BY <1>6 DEF RollBack, TypeOK
  <2> QED
    BY <2>1 DEF SerialInv, StoredDaysValid, AloneInFlight, VersionsName, LoadedWasBorn
<1>7. ASSUME NEW c \in Clients, ListDayPlans(c)
      PROVE  StoredDaysValid' /\ AloneInFlight' /\ VersionsName' /\ LoadedWasBorn'
  <2>1. /\ rows' = rows /\ born' = born /\ req' = req /\ req[c] = None
        /\ \A x \in Clients \ {c}, k \in Keys : known'[x][k] = known[x][k]
        /\ \A k \in Keys : known'[c][k] = IF rows[k] = None THEN None
                 ELSE [id |-> rows[k].id, version |-> rows[k].version, day |-> rows[k].day]
    BY <1>7 DEF ListDayPlans, TypeOK
  <2>2. \A k \in Keys : known'[c][k] # None =>
           /\ rows[k] # None /\ known'[c][k].id = rows[k].id
           /\ known'[c][k].version = rows[k].version /\ known'[c][k].day = rows[k].day
    <3> SUFFICES ASSUME NEW k \in Keys, known'[c][k] # None
                 PROVE  /\ rows[k] # None /\ known'[c][k].id = rows[k].id
                        /\ known'[c][k].version = rows[k].version
                        /\ known'[c][k].day = rows[k].day
      OBVIOUS
    <3>1. rows[k] # None
      BY <2>1
    <3>2. known'[c][k] = [id |-> rows[k].id, version |-> rows[k].version, day |-> rows[k].day]
      BY <2>1, <3>1
    <3> QED
      BY <3>1, <3>2
  <2>3. \A k \in Keys : rows[k] # None => rows[k].version \in Nat /\ rows[k].id <= born[k]
    BY DEF TypeOK, Row, SerialInv, VersionsName
  <2>4. AloneInFlight'
    <3>1. \A x \in Clients : req[x] # None => \A k \in Keys : known'[x][k] = known[x][k]
      BY <2>1
    <3> QED
      BY <2>1, <3>1 DEF SerialInv, AloneInFlight
  <2>5. VersionsName'
    <3> SUFFICES ASSUME NEW k \in Keys, rows[k] # None
                 PROVE  /\ rows[k].id <= born[k]
                        /\ \A x \in Clients : known'[x][k] # None /\ known'[x][k].id = rows[k].id =>
                              /\ known'[x][k].version <= rows[k].version
                              /\ known'[x][k].version = rows[k].version =>
                                    known'[x][k].day = rows[k].day
      BY <2>1 DEF VersionsName
    <3>1. ASSUME NEW x \in Clients, known'[x][k] # None, known'[x][k].id = rows[k].id
          PROVE  /\ known'[x][k].version <= rows[k].version
                 /\ known'[x][k].version = rows[k].version => known'[x][k].day = rows[k].day
      <4>1. CASE x = c
        BY <2>2, <2>3, <3>1, <4>1
      <4>2. CASE x # c
        BY <2>1, <3>1, <4>2 DEF SerialInv, VersionsName
      <4> QED
        BY <4>1, <4>2
    <3> QED
      BY <2>3, <3>1
  <2>6. LoadedWasBorn'
    BY <2>1, <2>2, <2>3 DEF SerialInv, LoadedWasBorn
  <2> QED
    BY <2>1, <2>4, <2>5, <2>6 DEF SerialInv, StoredDaysValid
<1>8. CASE UNCHANGED vars
  BY <1>8 DEF vars, SerialInv, StoredDaysValid, AloneInFlight, VersionsName, LoadedWasBorn
<1> QED
  BY <1>1, <1>2, <1>3, <1>4, <1>5, <1>6, <1>7, <1>8 DEF Next, Handler

LEMMA SerialInvHolds ==
    ASSUME Overlap = FALSE
    PROVE  Spec => [](TypeOK /\ SerialInv)
<1>1. Init => SerialInv
  BY DEF Init, SerialInv, StoredDaysValid, RequestsWellPlanned, AloneInFlight, VersionsName,
         LoadedWasBorn
<1>2. TypeOK /\ SerialInv /\ [Next]_vars => SerialInv'
  BY SerialInvPreserved
<1> QED
  BY <1>1, <1>2, TypeCorrect, PTL DEF Spec

(* One request at a time, then, the server only stores days that satisfy   *)
(* the rules: no request merges its columns into another's.                *)
LEMMA SerialDaysValid == Overlap = FALSE => (Spec => []StoredDaysValid)
<1> SUFFICES ASSUME Overlap = FALSE PROVE Spec => []StoredDaysValid
  OBVIOUS
<1>1. SerialInv => StoredDaysValid
  BY DEF SerialInv
<1> QED
  BY <1>1, SerialInvHolds, PTL

(* One request at a time, a save with a base version replaces what its     *)
(* client had loaded, for as long as the row lives (the version check of   *)
(* save_day_plans, dayplan_service.py:209).                                *)
THEOREM SerialSavesLoseNothing == Overlap = FALSE => (Spec => SaveReplacesWhatWasLoaded)
<1> SUFFICES ASSUME Overlap = FALSE PROVE Spec => SaveReplacesWhatWasLoaded
  OBVIOUS
<1>1. TypeOK /\ SerialInv =>
        \A c \in Clients, k \in Keys :
          SavesOver(c, k) /\ rows[k].id = req[c].relied[k].id
             => rows[k].day = req[c].relied[k].day
  <2> SUFFICES ASSUME TypeOK, SerialInv, NEW c \in Clients, NEW k \in Keys,
                      SavesOver(c, k), rows[k].id = req[c].relied[k].id
               PROVE  rows[k].day = req[c].relied[k].day
    OBVIOUS
  <2>1. /\ req[c] # None /\ req[c].relied[k] # None /\ rows[k] # None
        /\ req[c].seen = rows /\ req[c].relied[k] = known[c][k]
        /\ WellPlanned(req[c])
    BY DEF SavesOver, SerialInv, AloneInFlight, RequestsWellPlanned
  <2>2. rows[k].version = known[c][k].version
    BY <2>1 DEF WellPlanned, PlannedAt
  <2> QED
    BY <2>1, <2>2 DEF SerialInv, VersionsName
<1>2. TypeOK /\ SerialInv /\ [Next]_vars =>
        [\A c \in Clients, k \in Keys :
          SavesOver(c, k) /\ rows[k].id = req[c].relied[k].id
             => rows[k].day = req[c].relied[k].day]_vars
  BY <1>1
<1> QED
  BY <1>2, SerialInvHolds, PTL DEF Spec, SaveReplacesWhatWasLoaded

(* One request at a time, every change of what an agent sees is notified   *)
(* (models.py:91).                                                         *)
THEOREM SerialChangesAreTold == Overlap = FALSE => (Spec => ChangesAreTold)
<1> SUFFICES ASSUME Overlap = FALSE PROVE Spec => ChangesAreTold
  OBVIOUS
<1>1. TypeOK /\ SerialInv /\ [Next]_vars =>
        [\A k \in Keys : Shown(rows'[k]) # Shown(rows[k]) => k \in bell']_vars
  <2> SUFFICES ASSUME TypeOK, SerialInv, [Next]_vars, NEW k \in Keys,
                      Shown(rows'[k]) # Shown(rows[k])
               PROVE  k \in bell'
    OBVIOUS
  <2>1. ASSUME NEW c \in Clients, Handler(c) \/ RollBack(c) \/ ListDayPlans(c)
        PROVE  rows' = rows
    <3>1. Handler(c) => rows' = rows
      BY ZenonT(60) DEF Handler, SaveDayPlans, ResetDayPlan, ApplyEach, FillMissing, Publish, Begin
    <3> QED
      BY <2>1, <3>1 DEF RollBack, ListDayPlans
  <2>2. UNCHANGED vars => rows' = rows
    BY DEF vars
  <2>3. PICK c \in Clients : Commit(c)
    BY <2>1, <2>2 DEF Next
  <2> QED
    BY <2>3, SerialCommit
<1> QED
  BY <1>1, SerialInvHolds, PTL DEF Spec, ChangesAreTold
=============================================================================
