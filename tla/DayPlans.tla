------------------------------ MODULE DayPlans ------------------------------
(***************************************************************************)
(* The server's copy of the schedule: backend/app/modules/scheduling/      *)
(* dayplan_service.py, and who is told about it (schedule_notify.py).      *)
(*                                                                         *)
(* A request reads the rows it needs into its database session, computes   *)
(* the new ones from that snapshot, and flushes the difference before its  *)
(* transaction commits.  Nothing is locked on reading and an UPDATE names  *)
(* its row by primary key alone, so other requests may commit in between;  *)
(* an UPDATE sets only the columns whose value the session changed.        *)
(*                                                                         *)
(* A day is the function of its columns (shift_start, shift_end, breaks,   *)
(* channels, overtime, activities); which days satisfy the scheduling      *)
(* rules, and what the timeline edits do to a day, are constants here.     *)
(* A key is a plan date and an agent.                                      *)
(***************************************************************************)
EXTENDS Naturals

CONSTANTS
    Clients,           \* browser sessions, each with one request at a time
    Keys,              \* the agent-days of one organisation
    Cols, Vals,        \* the columns of a day and their contents
    Valid,             \* the days validate_day has no objection to
    ZoneConflicts,     \* <<before, after>> that move a break into no-break time
    Edits,             \* the timeline operations
    Edit(_, _, _, _),  \* Edit(e, k, source, d): what e makes of k's day d
    Skip,              \* the result of an edit that does not apply
    None,              \* SQL NULL, no row, no request
    Overlap,           \* whether requests of different clients may overlap
    MaxVersion,        \* bound: the writes of one row
    MaxRows            \* bound: how often a row is created for a key

Day == [Cols -> Vals]

(* A row of day_schedule_plans, and what a client keeps of one it loaded.  *)
Row == [id : Nat, version : Nat, published : BOOLEAN, day : Day]
Loaded == [id : Nat, version : Nat, day : Day]

ASSUME DayAssumption == Valid \subseteq Day /\ Skip \notin Day
ASSUME EditAssumption ==
    \A e \in Edits, k \in Keys, s \in Day, d \in Day : Edit(e, k, s, d) \in Day \cup {Skip}
ASSUME NoneAssumption == None \notin Row /\ None \notin Loaded
ASSUME BoundsAssumption == Overlap \in BOOLEAN /\ MaxVersion \in Nat /\ MaxRows \in Nat

VARIABLES
    rows,    \* the committed rows
    born,    \* how many rows each key has had: primary keys are never reused
    req,     \* the request each client has in flight
    known,   \* the rows each client has loaded, with the versions it will send
    bell     \* history: the keys whose agents the last step notified

vars == <<rows, born, req, known, bell>>

(* A request in flight: the rows as read, the rows as its session has them *)
(* now, the agents it will notify, the rows its answer carries, and, for a *)
(* save, the loaded rows its base versions came from (history).            *)
Request ==
    {q \in [seen : [Keys -> Row \cup {None}], after : [Keys -> Row \cup {None}],
            tell : SUBSET Keys, answer : SUBSET Keys,
            relied : [Keys -> Loaded \cup {None}]] : \A k \in q.answer : q.after[k] # None}

(* The types of all variables.                                             *)
TypeOK ==
    /\ rows \in [Keys -> Row \cup {None}]
    /\ born \in [Keys -> Nat]
    /\ req \in [Clients -> Request \cup {None}]
    /\ known \in [Clients -> [Keys -> Loaded \cup {None}]]
    /\ bell \subseteq Keys

-----------------------------------------------------------------------------
(* What a request makes of the rows it read *)

(* _write_day on a row of the session, or on a new one (version 0).        *)
Written(r, d) ==
    IF r = None THEN [id |-> 0, version |-> 1, published |-> FALSE, day |-> d]
    ELSE [r EXCEPT !.version = r.version + 1, !.day = d]

(* Room below the bounds for one more write of these keys.                 *)
Room(K) == \A k \in K : IF rows[k] = None THEN born[k] < MaxRows
                                          ELSE rows[k].version < MaxVersion

(* c's request has read the rows and computed what it will write.          *)
Begin(c, after, tell, answer, relied) ==
    /\ req[c] = None
    /\ Overlap \/ \A x \in Clients : req[x] = None
    /\ req' = [req EXCEPT ![c] = [seen |-> rows, after |-> after, tell |-> tell,
                                  answer |-> answer, relied |-> relied]]
    /\ bell' = {}
    /\ UNCHANGED <<rows, born, known>>

NoBase == [k \in Keys |-> None]

(* Mutant: any base version will do.                                       *)
FreshAny(base) == TRUE

(* The version check of save_day_plans: only for rows that exist, and only *)
(* where the client sent a base version.                                   *)
Fresh(base) ==
    \A k \in Keys : base[k] # None /\ rows[k] # None => rows[k].version = base[k].version

(* Mutant: the agents of the drafts are told.                              *)
AffectedDrafts(K, after) ==
    {k \in K : rows[k] # None /\ ~rows[k].published /\ after[k].day # rows[k].day}

(* Who a write of after tells: days already published whose content moves. *)
Affected(K, after) ==
    {k \in K : rows[k] # None /\ rows[k].published /\ after[k].day # rows[k].day}

(* save_day_plans: an upsert of the days a client sends, all or nothing;   *)
(* refused if one is invalid, moves a break into no-break time, or is      *)
(* based on an old version.                                                *)
SaveDayPlans(c, K) ==
    /\ Room(K)
    /\ \E days \in [K -> Valid] :
          LET base  == [k \in Keys |-> IF k \in K THEN known[c][k] ELSE None]
              after == [k \in Keys |-> IF k \in K THEN Written(rows[k], days[k]) ELSE rows[k]]
          IN  /\ \A k \in K : rows[k] # None => <<rows[k].day, days[k]>> \notin ZoneConflicts
              /\ Fresh(base)
              /\ Begin(c, after, Affected(K, after), K, base)

(* reset_day_plan: the row is deleted.                                     *)
ResetDayPlan(c, k) ==
    /\ rows[k] # None
    /\ Begin(c, [rows EXCEPT ![k] = None], {x \in {k} : rows[x].published}, {}, NoBase)

(* Mutants: edits that do not apply are written, and invalid results are.  *)
ApplyEachAll(c, K, main, e) ==
    /\ \A k \in K : rows[k] # None
    /\ Room(K)
    /\ LET result(k) == Edit(e, k, rows[main].day, rows[k].day)
           after == [k \in Keys |-> IF k \in K THEN Written(rows[k], result(k)) ELSE rows[k]]
       IN  Begin(c, after, Affected(K, after), K, NoBase)

ApplyEachUnchecked(c, K, main, e) ==
    /\ \A k \in K : rows[k] # None
    /\ Room(K)
    /\ LET result(k) == Edit(e, k, rows[main].day, rows[k].day)
           saved == {k \in K : result(k) # Skip}
           after == [k \in Keys |-> IF k \in saved THEN Written(rows[k], result(k)) ELSE rows[k]]
       IN  Begin(c, after, Affected(saved, after), saved, NoBase)

(* _apply_each, for every timeline operation: each day that has a valid    *)
(* result is written, the others are skipped.                              *)
ApplyEach(c, K, main, e) ==
    /\ \A k \in K : rows[k] # None
    /\ Room(K)
    /\ LET result(k) == Edit(e, k, rows[main].day, rows[k].day)
           saved == {k \in K : /\ result(k) \in Valid
                               /\ <<rows[k].day, result(k)>> \notin ZoneConflicts}
           after == [k \in Keys |-> IF k \in saved THEN Written(rows[k], result(k)) ELSE rows[k]]
       IN  Begin(c, after, Affected(saved, after), saved, NoBase)

(* fill_missing: days are created where none is saved.                     *)
FillMissing(c, K) ==
    /\ Room(K)
    /\ \E days \in [K -> Valid] :
          Begin(c, [k \in Keys |-> IF k \in K /\ rows[k] = None THEN Written(None, days[k])
                                                                ELSE rows[k]],
                {}, {}, NoBase)

(* publish: the drafts of a range become visible; versions stay.           *)
Publish(c, K) ==
    LET drafts == {k \in K : rows[k] # None /\ ~rows[k].published}
    IN  Begin(c, [k \in Keys |-> IF k \in drafts THEN [rows[k] EXCEPT !.published = TRUE]
                                                 ELSE rows[k]],
              drafts, {}, NoBase)

-----------------------------------------------------------------------------
(* The flush and commit of a session (SQLAlchemy's unit of work) *)

Touched(q) == {k \in Keys : q.after[k] # q.seen[k]}

SameRow(q, k) == rows[k] # None /\ rows[k].id = q.seen[k].id

(* Mutant: no unique key on date and agent.                                *)
CanFlushTwice(q) ==
    \A k \in Touched(q) : q.seen[k] # None /\ q.after[k] # None => SameRow(q, k)

(* An INSERT fails on the unique key, an UPDATE when its row has gone; a   *)
(* DELETE of a row that has gone does nothing.                             *)
CanFlush(q) ==
    \A k \in Touched(q) :
       /\ q.seen[k] = None => rows[k] = None
       /\ q.seen[k] # None /\ q.after[k] # None => SameRow(q, k)

(* Mutant: an UPDATE writes every column.                                  *)
NetWhole(old, new, current) == new

(* The value an UPDATE leaves in a column.                                 *)
Net(old, new, current) == IF new # old THEN new ELSE current

Updated(old, new, current) ==
    [id        |-> current.id,
     version   |-> Net(old.version, new.version, current.version),
     published |-> Net(old.published, new.published, current.published),
     day       |-> [c \in Cols |-> Net(old.day[c], new.day[c], current.day[c])]]

(* What the flush makes of a row: nothing, an INSERT, a DELETE, an UPDATE. *)
Flushed(q, k) ==
    IF k \notin Touched(q) THEN rows[k]
    ELSE IF q.seen[k] = None THEN [q.after[k] EXCEPT !.id = born[k] + 1]
    ELSE IF q.after[k] = None THEN IF SameRow(q, k) THEN None ELSE rows[k]
    ELSE Updated(q.seen[k], q.after[k], rows[k])

(* What c keeps of the rows an answer carries.                             *)
Carried(q, k) ==
    [id |-> IF q.seen[k] = None THEN born[k] + 1 ELSE q.seen[k].id,
     version |-> q.after[k].version, day |-> q.after[k].day]

Commit(c) ==
    /\ req[c] # None
    /\ CanFlush(req[c])
    /\ LET q == req[c]
       IN  /\ rows' = [k \in Keys |-> Flushed(q, k)]
           /\ born' = [k \in Keys |-> IF k \in Touched(q) /\ q.seen[k] = None
                                      THEN born[k] + 1 ELSE born[k]]
           /\ bell' = q.tell
           /\ \/ known' = [known EXCEPT ![c] = [k \in Keys |-> IF k \in q.answer
                                                               THEN Carried(q, k) ELSE @[k]]]
              \/ UNCHANGED known  \* the answer is lost
    /\ req' = [req EXCEPT ![c] = None]

(* The flush fails, or the request dies: everything is rolled back.        *)
RollBack(c) ==
    /\ req[c] # None
    /\ req' = [req EXCEPT ![c] = None]
    /\ bell' = {}
    /\ UNCHANGED <<rows, born, known>>

(* list_day_plans: a client opens the date, or reloads after a conflict.   *)
ListDayPlans(c) ==
    /\ req[c] = None
    /\ known' = [known EXCEPT ![c] =
          [k \in Keys |-> IF rows[k] = None THEN None
                          ELSE [id |-> rows[k].id, version |-> rows[k].version,
                                day |-> rows[k].day]]]
    /\ bell' = {}
    /\ UNCHANGED <<rows, born, req>>

-----------------------------------------------------------------------------
Init ==
    /\ rows = [k \in Keys |-> None]
    /\ born = [k \in Keys |-> 0]
    /\ req = [c \in Clients |-> None]
    /\ known = [c \in Clients |-> [k \in Keys |-> None]]
    /\ bell = {}

Handler(c) ==
    \/ \E K \in (SUBSET Keys) \ {{}} :
          \/ SaveDayPlans(c, K)
          \/ \E main \in K, e \in Edits : ApplyEach(c, K, main, e)
          \/ FillMissing(c, K)
          \/ Publish(c, K)
    \/ \E k \in Keys : ResetDayPlan(c, k)

Next == \E c \in Clients : Handler(c) \/ Commit(c) \/ RollBack(c) \/ ListDayPlans(c)

Spec == Init /\ [][Next]_vars

-----------------------------------------------------------------------------
(* Properties *)

(* "The server enforces exactly the rules the Scheduling UI does"          *)
(* (dayplan.py:3), and yet validates the day a request computed, not the   *)
(* one its UPDATE leaves: a step stores a day that breaks the rules only   *)
(* by merging the columns of a request into a content of the row that      *)
(* other requests have stored since this one read it.                      *)
MergesInto(c, k) ==
    /\ req[c] # None /\ req'[c] = None
    /\ req[c].seen[k] # None /\ rows[k] # None /\ rows[k].id = req[c].seen[k].id
    /\ rows[k].day # req[c].seen[k].day /\ req[c].after[k].day # req[c].seen[k].day

InvalidOnlyMerged ==
    [][\A k \in Keys :
          /\ rows'[k] # None /\ rows'[k].day \notin Valid
          /\ rows[k] # None => rows[k].day # rows'[k].day
          => \E c \in Clients : MergesInto(c, k)]_vars

(* So every stored day satisfies the rules while requests do not overlap.  *)
StoredDaysValid == \A k \in Keys : rows[k] # None => rows[k].day \in Valid

(* What an agent sees of a day: nothing until it is published.             *)
Shown(r) == IF r = None THEN None ELSE IF r.published THEN r.day ELSE None

(* "Changes to a published row notify them" (models.py:91): a step that    *)
(* changes what an agent sees of a day notifies that agent.                *)
ChangesAreTold == [][\A k \in Keys : Shown(rows'[k]) # Shown(rows[k]) => k \in bell']_vars

(* Only a reset hides a published day again, whatever saves, edits and     *)
(* publishes overlap.                                                      *)
PublishedStaysPublished ==
    [][\A k \in Keys : rows[k] # None /\ rows[k].published /\ rows'[k] # None
          => rows'[k].published]_vars

(* A day that was reset comes back as a new draft only: an edit that was   *)
(* under way on the old row cannot bring it back.                          *)
ResetIsFinal ==
    [][\A k \in Keys : rows'[k] # None /\ (rows[k] = None \/ rows[k].id # rows'[k].id)
          => /\ rows[k] = None
             /\ rows'[k].version = 1 /\ ~rows'[k].published
             /\ rows'[k].id = born[k] + 1]_vars

(* c's save commits over the row of k.                                     *)
SavesOver(c, k) ==
    /\ req[c] # None /\ req'[c] = None
    /\ req[c].relied[k] # None
    /\ rows[k] # None /\ rows'[k] # rows[k]

(* No lost update: a save that sent a base version replaces the content    *)
(* its client had loaded, as long as it is the row it had loaded.          *)
SaveReplacesWhatWasLoaded ==
    [][\A c \in Clients, k \in Keys :
          SavesOver(c, k) /\ rows[k].id = req[c].relied[k].id
             => rows[k].day = req[c].relied[k].day]_vars

(* Why these hold.  What a request makes of k's row as it read it (tell:   *)
(* whom it notifies; base: the loaded row its base version is from),       *)
PlannedAt(k, old, new, tell, base) ==
    /\ old = None /\ new # None =>
          new.version = 1 /\ ~new.published /\ new.day \in Valid
    /\ old # None /\ new # None =>
          /\ new.id = old.id
          /\ old.published => new.published
          /\ \/ new.version = old.version + 1 /\ new.day \in Valid
             \/ new.version = old.version /\ new.day = old.day
    /\ Shown(old) # Shown(new) => k \in tell
    /\ base # None /\ old # None => old.version = base.version

\* overlapping or not;
WellPlanned(q) ==
    \A k \in Keys : PlannedAt(k, q.seen[k], q.after[k], q.tell, q.relied[k])

RequestsWellPlanned == \A c \in Clients : req[c] # None => WellPlanned(req[c])

(* while requests do not overlap, it was computed from the present rows;   *)
AloneInFlight ==
    \A c \in Clients : req[c] # None =>
       /\ \A x \in Clients \ {c} : req[x] = None
       /\ req[c].seen = rows
       /\ \A k \in Keys : req[c].relied[k] \in {None, known[c][k]}

(* and a version names one content of a row.                               *)
VersionsName ==
    \A k \in Keys : rows[k] # None =>
       /\ rows[k].id <= born[k]
       /\ \A c \in Clients : known[c][k] # None /\ known[c][k].id = rows[k].id =>
             /\ known[c][k].version <= rows[k].version
             /\ known[c][k].version = rows[k].version => known[c][k].day = rows[k].day

LoadedWasBorn ==
    \A c \in Clients, k \in Keys : known[c][k] # None => known[c][k].id <= born[k]

(* The inductive invariant of requests that do not overlap.                *)
SerialInv ==
    StoredDaysValid /\ RequestsWellPlanned /\ AloneInFlight /\ VersionsName /\ LoadedWasBorn
=============================================================================
