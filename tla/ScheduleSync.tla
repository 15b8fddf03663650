---------------------------- MODULE ScheduleSync ----------------------------
(***************************************************************************)
(* A browser keeping the days of its Scheduling timeline in step with the  *)
(* server: frontend/src/lib/scheduleSync.ts, with the parts of             *)
(* store/wfm.ts that hold one date's days and park the others.             *)
(*                                                                         *)
(* JavaScript runs to its next await: an action is what happens between    *)
(* two of them, microtasks included.  A call in flight has a slot; the     *)
(* server (backend/app/modules/scheduling/dayplan_service.py) and the      *)
(* network act on it in between.  A day is abstracted to the set of edits  *)
(* it shows; 0 is in it when it breaks a rule the server checks.           *)
(***************************************************************************)
EXTENDS Naturals, Sequences, FiniteSetsExt

CONSTANTS
    Dates,        \* calendar days
    Today,        \* the day every page load opens
    Agents,       \* the roster
    Nothing,      \* JavaScript undefined
    SavedBefore,  \* the server has the days, and this browser has had them in sync
    Overlap,      \* whether the server's saves may overlap
    MaxCalls,     \* bound: calls in flight
    MaxEdits,     \* bound: edits in this browser
    MaxTroubles   \* bound: saves by others, requests and answers lost, reloads

ASSUME ConstantsAssumption ==
    /\ Today \in Dates
    /\ {SavedBefore, Overlap} \subseteq BOOLEAN
    /\ {MaxCalls, MaxEdits, MaxTroubles} \subseteq Nat
    /\ Nothing \notin Dates

VARIABLES
    stored,  \* per date and agent, the server's row of the day
    log,     \* history: the rows the server has stored or answered a save with
    page,    \* everything the page holds
    used     \* how much of each bound is spent

vars == <<stored, log, page, used>>

Slots == 1..MaxCalls
Content == SUBSET Nat
Version == Nat                      \* 0: no row, or no version known
Row == [version : Version, day : Content]
NoRow == [version |-> 0, day |-> {}]

(* What was last in sync, kept per date in localStorage too.               *)
Snapshot == [versions : [Agents -> Version],
             synced : [Agents -> Content \cup {Nothing}]]

(* `running'.  saving is the slot of the call r.saving stands for.         *)
Session == [on : BOOLEAN, ready : BOOLEAN, timer : {"none", "flush", "restart"},
            saving : 0..MaxCalls, snap : Snapshot]

(* A call in flight; gone is a PUT this page does not wait for.  mine: its *)
(* `r' is still `running'.  plans and base are the body of a PUT, rows the *)
(* ones the server has read for it or answers with, then the date a switch *)
(* waits to open, known the snapshot the call goes by.                     *)
Call == [kind : {"idle", "load", "law", "policy", "upload", "save", "wait",
                 "reload", "pull", "gone"},
         mine : BOOLEAN, phase : {"sent", "checked", "done", "refused", "failed"},
         date : Dates, plans : [Agents -> Content \cup {Nothing}],
         base : [Agents -> Version], rows : [Agents -> Row],
         owner : {"save", "upload"}, on : 0..MaxCalls,
         then : Dates \cup {Nothing}, over : BOOLEAN, known : Snapshot]

(* What the page holds: the open day, the days parked by date, the session,*)
(* the persisted snapshots, and timers that nothing points to.             *)
Page == [open : Dates, local : [Dates -> [Agents -> Content]], ses : Session,
         saved : [Dates -> Snapshot], calls : [Slots -> Call], orphans : Nat,
         status : {"idle", "loading", "saving", "synced", "offline", "conflict"}]

(* The types of all variables.                                             *)
TypeOK ==
    /\ stored \in [Dates -> [Agents -> Row]]
    /\ log \in [Dates -> [Agents -> SUBSET Row]]
    /\ page \in Page
    /\ used \in [edits : Nat, others : Nat, faults : Nat]

NoSnapshot == [versions |-> [a \in Agents |-> 0],
               synced |-> [a \in Agents |-> Nothing]]
NoPlans == [a \in Agents |-> Nothing]
NoBase == [a \in Agents |-> 0]
NoRows == [a \in Agents |-> NoRow]
NoSession == [on |-> FALSE, ready |-> FALSE, timer |-> "none", saving |-> 0,
              snap |-> NoSnapshot]
NewSession == [NoSession EXCEPT !.on = TRUE]

Idle == [kind |-> "idle", mine |-> FALSE, phase |-> "sent", date |-> Today,
         plans |-> NoPlans, base |-> NoBase, rows |-> NoRows,
         owner |-> "save", on |-> 0, then |-> Nothing, over |-> FALSE,
         known |-> NoSnapshot]

-----------------------------------------------------------------------------
(* What the page does between two awaits, as functions of the page *)

Plans(p) == p.local[p.open]

(* The agents whose day differs from what the snapshot holds.              *)
Dirty(p, snap) == {a \in Agents : snap.synced[a] # Plans(p)[a]}

Persisted(p) == [p EXCEPT !.saved[p.open] = p.ses.snap]

(* Mutant: the snapshot keeps the days the rows replaced.                  *)
ApplyRemoteBefore(p, rows) ==
    LET A == {a \in Agents : rows[a].version # 0}
    IN  IF ~p.ses.on THEN p
        ELSE Persisted([p EXCEPT
            !.local[p.open] = [a \in Agents |-> IF a \in A THEN rows[a].day ELSE @[a]],
            !.ses.snap.versions =
                [a \in Agents |-> IF a \in A THEN rows[a].version ELSE @[a]],
            !.ses.snap.synced = [a \in Agents |-> IF a \in A THEN Plans(p)[a] ELSE @[a]]])

(* Load rows into the open day and mark them in sync.                      *)
ApplyRemote(p, rows) ==
    LET A == {a \in Agents : rows[a].version # 0}
    IN  IF ~p.ses.on THEN p
        ELSE Persisted([p EXCEPT
            !.local[p.open] = [a \in Agents |-> IF a \in A THEN rows[a].day ELSE @[a]],
            !.ses.snap.versions =
                [a \in Agents |-> IF a \in A THEN rows[a].version ELSE @[a]],
            !.ses.snap.synced = [a \in Agents |-> IF a \in A THEN rows[a].day ELSE @[a]]])

(* stopScheduleSync.  What calls of the session go by stays as it is.      *)
Stopped(p) ==
    [p EXCEPT !.ses = NoSession, !.status = "idle",
              !.calls = [t \in Slots |->
                  IF p.calls[t].mine /\ p.calls[t].kind \in {"save", "wait", "reload"}
                  THEN [p.calls[t] EXCEPT !.mine = FALSE, !.known = p.ses.snap]
                  ELSE [p.calls[t] EXCEPT !.mine = FALSE]]]

(* startScheduleSync up to its first await: slot s fetches the open day.   *)
Started(p, s) ==
    [Stopped(p) EXCEPT
        !.ses = NewSession, !.status = "loading",
        !.calls[s] = [Idle EXCEPT !.kind = "load", !.mine = TRUE,
                          !.date = p.open, !.known = p.saved[p.open]]]

(* The end of switchScheduleDate, once the day that was open is flushed.   *)
Opened(p, s, d) == Started([Stopped(p) EXCEPT !.open = d], s)

(* A PUT of the agents in A, with the versions they were based on.         *)
Put(p, kind, A, plans) ==
    [Idle EXCEPT !.kind = kind, !.mine = TRUE, !.date = p.open,
                 !.plans = [a \in Agents |-> IF a \in A THEN plans[a] ELSE Nothing],
                 !.base = [a \in Agents |-> IF a \in A THEN p.ses.snap.versions[a] ELSE 0]]

NothingToSave(p) ==
    [p EXCEPT !.status = IF @ = "offline" THEN @ ELSE "synced"]

(* flush, called from a timer (then = Nothing) or from a switch to a date. *)
Flush(p, s, then) ==
    LET q == [p EXCEPT !.ses.timer = "none"]
        A == Dirty(q, q.ses.snap)
    IN  IF q.ses.saving # 0
        THEN [q EXCEPT !.calls[s] = [Idle EXCEPT !.kind = "wait", !.mine = TRUE,
                                         !.date = q.open, !.on = q.ses.saving,
                                         !.then = then]]
        ELSE IF A # {}
        THEN [q EXCEPT !.ses.saving = s, !.status = "saving",
                       !.calls[s] = [Put(q, "save", A, Plans(q)) EXCEPT !.then = then]]
        ELSE IF then = Nothing THEN NothingToSave(q)
        ELSE Opened(NothingToSave(q), s, then)

(* The call of slot s, which a flush awaited, has settled: that flush ends,*)
(* the flushes that waited for it go on, and a switch among those that     *)
(* ended goes on too, unless its session has been stopped.                 *)
FlushEnded(p, s) ==
    LET c == p.calls[s]
        q == [p EXCEPT !.calls[s] = Idle, !.ses.saving = IF c.mine THEN 0 ELSE @]
        W == {t \in Slots : q.calls[t].kind = "wait" /\ q.calls[t].on = s}
        A == Dirty(q, IF c.mine THEN q.ses.snap ELSE c.known)
        again == A # {} /\ q.ses.on
        resumed(t) ==
            IF ~again THEN Idle
            ELSE IF c.mine
            THEN [Put(q, "save", A, Plans(q)) EXCEPT !.then = q.calls[t].then]
            ELSE Put(q, "upload", A, Plans(q))
        r == IF W = {} THEN q
             ELSE [IF again THEN [q EXCEPT !.status = "saving"]
                   ELSE IF A = {} THEN NothingToSave(q) ELSE q
                   EXCEPT !.calls = [t \in Slots |-> IF t \in W THEN resumed(t) ELSE @[t]],
                          !.ses.saving = IF again /\ c.mine THEN Max(W) ELSE @]
        G == {t \in {s} \cup (IF again THEN {} ELSE W) : p.calls[t].then # Nothing}
    IN  IF c.mine /\ G # {}
        THEN Opened(r, s, p.calls[IF s \in G THEN s ELSE Min(G)].then)
        ELSE r

(* The upload of startScheduleSync has settled: what was overridden while  *)
(* loading is told now.                                                    *)
UploadEnded(p, s) ==
    LET c == p.calls[s]
    IN  [p EXCEPT !.calls[s] = Idle,
                  !.status = IF c.over /\ c.mine THEN "conflict" ELSE @]

PushEnded(p, s, owner) ==
    IF owner = "save" THEN FlushEnded(p, s) ELSE UploadEnded(p, s)

-----------------------------------------------------------------------------
(* The page's actions *)

FirstSnapshot ==
    IF SavedBefore THEN [versions |-> [a \in Agents |-> 1], synced |-> [a \in Agents |-> {}]]
    ELSE NoSnapshot

Init ==
    /\ stored = [d \in Dates |-> [a \in Agents |->
           IF SavedBefore THEN [version |-> 1, day |-> {}] ELSE NoRow]]
    /\ log = [d \in Dates |-> [a \in Agents |->
           IF SavedBefore THEN {[version |-> 1, day |-> {}]} ELSE {}]]
    /\ page = [open |-> Today, local |-> [d \in Dates |-> [a \in Agents |-> {}]],
               ses |-> NewSession, saved |-> [d \in Dates |-> FirstSnapshot],
               calls |-> [t \in Slots |->
                   IF t = 1 THEN [Idle EXCEPT !.kind = "load", !.mine = TRUE,
                                              !.known = FirstSnapshot]
                   ELSE Idle],
               orphans |-> 0, status |-> "loading"]
    /\ used = [edits |-> 0, others |-> 0, faults |-> 0]

Free(s) ==
    /\ page.calls[s].kind = "idle"
    /\ \A t \in 1..(s - 1) : page.calls[t].kind # "idle"

Untroubled == used.others + used.faults < MaxTroubles

Mutate(p) == page' = p /\ UNCHANGED <<stored, log, used>>

(* updateAgentDay and every other edit of the open day, which then breaks  *)
(* a rule the server checks or does not.  Only a session that has          *)
(* subscribed to the store arms the timer.                                 *)
Edit(a, broken) ==
    /\ used.edits < MaxEdits
    /\ used' = [used EXCEPT !.edits = @ + 1]
    /\ page' = [page EXCEPT
           !.local[page.open][a] =
               (@ \ {0}) \cup {used.edits + 1} \cup (IF broken THEN {0} ELSE {}),
           !.ses.timer = IF page.ses.ready THEN "flush" ELSE @,
           !.status = IF page.ses.ready THEN "saving" ELSE @]
    /\ UNCHANGED <<stored, log>>

TimerFires(s) ==
    /\ Free(s)
    /\ page.ses.timer = "flush"
    /\ Mutate(Flush(page, s, Nothing))

(* Mutant: a timer that was cleared fires.                                 *)
OrphanFiresCleared(s) ==
    /\ Free(s)
    /\ LET q == [page EXCEPT !.orphans = @ - 1]
       IN  Mutate(IF q.ses.on THEN Flush(q, s, Nothing) ELSE q)

(* A timer nothing points to any more: push set another without clearing it.*)
OrphanFires(s) ==
    /\ Free(s)
    /\ page.orphans > 0
    /\ LET q == [page EXCEPT !.orphans = @ - 1]
       IN  Mutate(IF q.ses.on THEN Flush(q, s, Nothing) ELSE q)

RestartFires(s) ==
    /\ Free(s)
    /\ page.ses.timer = "restart"
    /\ Mutate(Started(page, s))

(* pull, from the poll timer or a screen that asks for it.                 *)
PullStarts(s) ==
    /\ Free(s)
    /\ page.ses.ready
    /\ Dirty(page, page.ses.snap) = {}
    /\ page.ses.saving = 0
    /\ \A t \in Slots : page.calls[t].kind # "pull"
    /\ Mutate([page EXCEPT !.calls[s] = [Idle EXCEPT !.kind = "pull", !.mine = TRUE,
                                             !.date = page.open]])

(* The rows the page's session does not hold the version of.               *)
Newer(rows, snap) ==
    [a \in Agents |-> IF rows[a].version = snap.versions[a] THEN NoRow ELSE rows[a]]

PullEnds(s) ==
    LET c == page.calls[s]
        q == [page EXCEPT !.calls[s] = Idle]
    IN  /\ c.kind = "pull"
        /\ \/ /\ c.phase = "done"
              /\ LET rows == Newer(c.rows, q.ses.snap)
                 IN  Mutate(IF ~c.mine THEN q
                            ELSE [IF rows = NoRows THEN q ELSE ApplyRemote(q, rows)
                                  EXCEPT !.status = "synced"])
           \/ /\ c.phase = "failed"
              /\ Mutate([q EXCEPT !.status = "offline"])

(* The days to upload when the rows of a date have been fetched: the server*)
(* has none, or it still has the version an offline edit was based on.     *)
OfflineEdit(p, known, a) ==
    known.synced[a] # Nothing /\ known.synced[a] # Plans(p)[a]

ToPush(p, known, rows) ==
    {a \in Agents :
        \/ rows[a].version = 0
        \/ OfflineEdit(p, known, a) /\ known.versions[a] = rows[a].version}

LoadEnds(s) ==
    LET c == page.calls[s]
        P == ToPush(page, c.known, c.rows)
        over == \E a \in Agents \ P : OfflineEdit(page, c.known, a)
        based == [page EXCEPT !.ses.snap.versions =
                     [a \in Agents |-> IF a \in P THEN c.rows[a].version ELSE @[a]]]
        loaded == ApplyRemote(based,
                     [a \in Agents |-> IF a \in P THEN NoRow ELSE c.rows[a]])
    IN  /\ c.kind = "load"
        /\ c.phase \in {"done", "failed"}
        /\ Mutate(
             IF ~c.mine THEN [page EXCEPT !.calls[s] = Idle]
             ELSE IF c.phase = "failed"
             THEN [page EXCEPT !.calls[s] = Idle, !.ses.timer = "restart",
                               !.status = "offline"]
             ELSE [loaded EXCEPT !.calls[s] =
                     [Put(page, "law", P, Plans(page)) EXCEPT !.over = over,
                                                             !.base = NoBase]])

(* The end of startScheduleSync: upload the days set aside when the rows   *)
(* came, through the session that is running by now.                       *)
StartEnds(q, s, c) ==
    LET P == {a \in Agents : c.plans[a] # Nothing}
    IN  IF P # {}
        THEN IF ~q.ses.on THEN [q EXCEPT !.calls[s] = Idle]
             ELSE [q EXCEPT !.status = "saving",
                            !.calls[s] = [Put(q, "upload", P, c.plans)
                                          EXCEPT !.over = c.over /\ c.mine]]
        ELSE [q EXCEPT !.calls[s] = Idle,
                       !.status = IF c.over /\ c.mine THEN "conflict" ELSE "synced"]

(* After the labour law: subscribe and poll.  Then the start ends, or first*)
(* the labour law chosen here is sent, when the server has none.  A request*)
(* that failed goes on even when the session has been stopped meanwhile.   *)
LawEnds(s) ==
    LET c == page.calls[s]
        q == IF c.mine THEN [page EXCEPT !.ses.ready = TRUE] ELSE page
    IN  /\ c.kind = "law"
        /\ \/ c.phase = "sent" /\ ~c.mine /\ Mutate([page EXCEPT !.calls[s] = Idle])
           \/ c.phase = "sent" /\ c.mine /\ Mutate([q EXCEPT !.calls[s].kind = "policy"])
           \/ (c.mine \/ c.phase = "failed") /\ Mutate(StartEnds(q, s, c))

(* pushLabourLaw is back, or has failed: what it says is replaced at once. *)
PolicyEnds(s) ==
    /\ page.calls[s].kind = "policy"
    /\ Mutate(StartEnds(page, s, page.calls[s]))

(* Mutant: the days shown when the answer comes count as saved.            *)
AcknowledgedShown(c) ==
    LET put(a) == c.plans[a] # Nothing
    IN  Persisted([page EXCEPT
            !.ses.snap.versions = [a \in Agents |-> IF put(a) THEN c.rows[a].version ELSE @[a]],
            !.ses.snap.synced = [a \in Agents |-> IF put(a) THEN Plans(page)[a] ELSE @[a]],
            !.status = "synced"])

(* The answer of a PUT: saved, stale (the rows are fetched again), or      *)
(* refused otherwise or not to be had (another try after a while).         *)
Acknowledged(c) ==
    LET put(a) == c.plans[a] # Nothing
    IN  Persisted([page EXCEPT
            !.ses.snap.versions = [a \in Agents |-> IF put(a) THEN c.rows[a].version ELSE @[a]],
            !.ses.snap.synced = [a \in Agents |-> IF put(a) THEN c.plans[a] ELSE @[a]],
            !.status = "synced"])

(* Mutant: a failed save is not tried again.                               *)
RetryLaterNever == [page EXCEPT !.status = "offline"]

RetryLater ==
    [page EXCEPT !.status = "offline", !.ses.timer = "flush",
                 !.orphans = IF page.ses.timer = "none" THEN @ ELSE @ + 1]

PushEnds(s) ==
    LET c == page.calls[s]
    IN  /\ c.kind \in {"save", "upload"}
        /\ \/ /\ c.phase = "done"
              /\ Mutate(PushEnded(IF c.mine THEN Acknowledged(c) ELSE page, s, c.kind))
           \/ /\ c.phase = "failed"
              /\ Mutate(PushEnded(IF c.mine THEN RetryLater ELSE page, s, c.kind))
           \/ /\ c.phase = "refused"
              /\ Mutate(IF ~c.mine THEN PushEnded(page, s, c.kind)
                        ELSE [page EXCEPT !.calls[s] =
                                [@ EXCEPT !.kind = "reload", !.phase = "sent",
                                          !.owner = c.kind, !.plans = NoPlans,
                                          !.base = NoBase]])

(* After a 409: the rows are taken, or nothing when they cannot be fetched;*)
(* the page tells of a conflict either way.                                *)
ReloadEnds(s) ==
    LET c == page.calls[s]
        q == ApplyRemote(page, IF c.phase = "done" THEN c.rows ELSE NoRows)
    IN  /\ c.kind = "reload"
        /\ c.phase \in {"done", "failed"}
        /\ Mutate(PushEnded([q EXCEPT !.status = "conflict"], s, c.owner))

(* A PUT on its way to the server, or in its hands.                        *)
UnderWay(c) == c.kind \in {"save", "upload"} /\ c.phase \in {"sent", "checked"}
Unawaited(c) == [Idle EXCEPT !.kind = "gone", !.phase = c.phase, !.date = c.date,
                             !.plans = c.plans, !.base = c.base, !.rows = c.rows]

(* The page is loaded again: the store and the snapshots are as persisted, *)
(* the server still gets what had been sent.                               *)
PageReloads ==
    LET left == [t \in Slots |->
                    IF UnderWay(page.calls[t]) THEN Unawaited(page.calls[t])
                    ELSE IF page.calls[t].kind = "gone" THEN page.calls[t] ELSE Idle]
    IN  /\ Untroubled
        /\ \E s \in Slots :
              /\ left[s].kind = "idle"
              /\ \A t \in 1..(s - 1) : left[t].kind # "idle"
              /\ page' = Started([page EXCEPT !.calls = left, !.orphans = 0,
                                             !.open = Today], s)
        /\ used' = [used EXCEPT !.faults = @ + 1]
        /\ UNCHANGED <<stored, log>>

-----------------------------------------------------------------------------
(* The server and the network *)

(* GET /scheduling/day-plans/{date}                                        *)
ServeRead(s) ==
    /\ page.calls[s].kind \in {"load", "reload", "pull"}
    /\ page.calls[s].phase = "sent"
    /\ page' = [page EXCEPT !.calls[s] =
                    [@ EXCEPT !.phase = "done", !.rows = stored[page.calls[s].date]]]
    /\ UNCHANGED <<stored, log, used>>

(* PUT /scheduling/day-plans/{date}, all or nothing.  Its days are checked *)
(* against the rules and their base versions against the rows it reads.    *)
InPut(c, a) == c.plans[a] # Nothing
Broken(c) == \E a \in Agents : InPut(c, a) /\ 0 \in c.plans[a]
Stale(c) == \E a \in Agents :
    /\ c.base[a] # 0
    /\ stored[c.date][a].version \notin {0, c.base[a]}

Answer(s, phase, rows) ==
    page' = [page EXCEPT !.calls[s] =
                IF @.kind = "gone" /\ phase # "checked" THEN Idle
                ELSE [@ EXCEPT !.phase = phase, !.rows = rows]]

NoneChecked == \A t \in Slots : page.calls[t].phase # "checked"

CheckSave(s) ==
    LET c == page.calls[s]
    IN  /\ c.kind \in {"save", "upload", "gone"}
        /\ c.phase = "sent"
        /\ Overlap \/ NoneChecked
        /\ IF Broken(c) THEN Answer(s, "failed", NoRows)
           ELSE IF Stale(c) THEN Answer(s, "refused", NoRows)
           ELSE Answer(s, "checked", stored[c.date])
        /\ UNCHANGED <<stored, log, used>>

(* What an UPDATE may leave of a row that has changed since it was read:   *)
(* it sets the columns whose values the save changed, and no others.  Two  *)
(* changes may have been of one column, or break a rule together.          *)
Merged(read, mine, now) ==
    IF now = read THEN {mine}
    ELSE {r \in SUBSET (mine \cup now \cup {0}) :
             /\ (mine \ read) \cup (mine \cap now) \subseteq r
             /\ r \subseteq mine \cup (now \ read) \cup {0}
             /\ 0 \in r => r \ {0} # mine}

(* The flush.  An INSERT fails when somebody has made the row meanwhile;   *)
(* an UPDATE finds its row by primary key alone.                           *)
StoreSave(s) ==
    LET c == page.calls[s]
        now == stored[c.date]
        outcomes(a) == IF InPut(c, a) THEN Merged(c.rows[a].day, c.plans[a], now[a].day)
                       ELSE {now[a].day}
        said == [a \in Agents |-> IF InPut(c, a)
                    THEN [version |-> c.rows[a].version + 1, day |-> c.plans[a]] ELSE NoRow]
    IN  /\ c.phase = "checked"
        /\ IF \E a \in Agents : InPut(c, a) /\ c.rows[a].version = 0 /\ now[a].version # 0
           THEN Answer(s, "failed", NoRows) /\ UNCHANGED <<stored, log>>
           ELSE \E days \in [Agents -> UNION {outcomes(a) : a \in Agents}] :
                   /\ \A a \in Agents : days[a] \in outcomes(a)
                   /\ stored' = [stored EXCEPT ![c.date] = [a \in Agents |->
                          IF InPut(c, a) THEN [said[a] EXCEPT !.day = days[a]] ELSE @[a]]]
                   /\ log' = [log EXCEPT ![c.date] = [a \in Agents |->
                          IF InPut(c, a) THEN @[a] \cup {said[a], stored'[c.date][a]}
                          ELSE @[a]]]
                   /\ Answer(s, "done", said)
        /\ UNCHANGED used

(* Somebody else saves an agent's day as it is on the server, with a change:*)
(* their PUT has been checked.                                             *)
OtherSaves(s, d, a) ==
    LET day == (stored[d][a].day \ {0}) \cup {MaxEdits + used.others + 1}
    IN  /\ Untroubled
        /\ Free(s)
        /\ Overlap \/ NoneChecked
        /\ used' = [used EXCEPT !.others = @ + 1]
        /\ page' = [page EXCEPT !.calls[s] =
               [Idle EXCEPT !.kind = "gone", !.phase = "checked", !.date = d,
                            !.plans = [NoPlans EXCEPT ![a] = day], !.rows = stored[d]]]
        /\ UNCHANGED <<stored, log>>

(* A request or its answer is lost: the page cannot tell which.  A save    *)
(* the page has given up may still be carried out.                         *)
Lost(s) ==
    LET c == page.calls[s]
        failed == [page EXCEPT !.calls[s] = [c EXCEPT !.phase = "failed", !.rows = NoRows]]
    IN  /\ Untroubled
        /\ c.kind \notin {"idle", "wait", "gone"}
        /\ c.phase # "failed"
        /\ used' = [used EXCEPT !.faults = @ + 1]
        /\ \/ page' = failed
           \/ /\ UnderWay(c)
              /\ \E t \in Slots : Free(t) /\ page' = [failed EXCEPT !.calls[t] = Unawaited(c)]
        /\ UNCHANGED <<stored, log>>

-----------------------------------------------------------------------------
Answered(s) ==
    PullEnds(s) \/ LoadEnds(s) \/ LawEnds(s) \/ PolicyEnds(s) \/ PushEnds(s)
    \/ ReloadEnds(s)

Timed(s) ==
    TimerFires(s) \/ OrphanFires(s) \/ RestartFires(s) \/ PullStarts(s)

Served(s) == ServeRead(s) \/ CheckSave(s) \/ StoreSave(s)

Next ==
    \/ \E a \in Agents, broken \in BOOLEAN : Edit(a, broken)
    \/ \E s \in Slots :
          \/ Answered(s) \/ Timed(s) \/ Served(s) \/ Lost(s)
          \/ \E d \in Dates, a \in Agents : OtherSaves(s, d, a)
    \/ PageReloads

Spec == Init /\ [][Next]_vars

(* Timers fire, the server answers, and answers reach the page.            *)
FairSpec ==
    /\ Spec
    /\ \A s \in Slots : WF_vars(Answered(s)) /\ WF_vars(Served(s))
    /\ WF_vars(\E s \in Slots : TimerFires(s) \/ RestartFires(s))
    /\ WF_vars(\E s \in Slots : OrphanFires(s))

-----------------------------------------------------------------------------
(* Opening another date, and signing out and in again *)

(* switchScheduleDate.                                                     *)
SwitchDate(s, d) ==
    /\ Free(s)
    /\ d # page.open
    /\ Mutate(IF page.ses.on THEN Flush(page, s, d) ELSE [page EXCEPT !.open = d])

SignOut == page.ses.on /\ Mutate(Stopped(page))

SignIn(s) == Free(s) /\ ~page.ses.on /\ Mutate(Started(page, s))

NextDates ==
    \/ Next
    \/ \E s \in Slots : SignIn(s) \/ \E d \in Dates : SwitchDate(s, d)
    \/ SignOut

SpecDates == Init /\ [][NextDates]_vars

-----------------------------------------------------------------------------
(* Properties *)

(* A snapshot, the session's or a persisted one, never pairs a version     *)
(* with a content the server has neither stored nor acknowledged in that   *)
(* version: what pull, flush and the next page load take for "in sync" was *)
(* (scheduleSync.ts:116-135, 210-227, 251-255).                            *)
TrueCopy(d, snap) == \A a \in Agents :
    snap.synced[a] # Nothing /\ snap.versions[a] # 0 =>
        [version |-> snap.versions[a], day |-> snap.synced[a]] \in log[d][a]

SnapshotsAreTrue ==
    /\ page.ses.on => TrueCopy(page.open, page.ses.snap)
    /\ \A d \in Dates : TrueCopy(d, page.saved[d])

(* The server's days and the session's copies of them behave as Copies     *)
(* says (scheduleSync.ts:1-14).                                            *)
ServerCopies == INSTANCE Copies WITH
    history <- log, Groups <- Dates, Items <- Agents, Rows <- Row,
    copy <- [a \in Agents |->
        IF page.ses.snap.versions[a] = 0 \/ page.ses.snap.synced[a] = Nothing
        THEN Nothing
        ELSE [version |-> page.ses.snap.versions[a],
              day |-> page.ses.snap.synced[a]]]

ImplementsCopies == ServerCopies!Spec

(* The edits an agent's open day shows that are not on the server, and     *)
(* those of them that wait for the save timer.                             *)
Unsaved(e) == {a \in Agents : e \in page.local[page.open][a] \ stored[page.open][a].day}
Waiting(e) ==
    page.ses.timer = "flush" /\ Unsaved(e) \cap Dirty(page, page.ses.snap) # {}

(* A day the page shows breaks a rule: the server refuses every save of it,*)
(* and of the days sent with it, which the page says and tries again.      *)
Refusable == \E a \in Agents : 0 \in page.local[page.open][a]

(* Saves that overlapped have written one version of a day more than once. *)
WrittenTwice == \E a \in Agents : \E r, q \in log[page.open][a] :
    r.version = q.version /\ r # q

(* An edit waiting for the save timer is saved, or gone from the page, or  *)
(* the page tells of a conflict, as long as no day it shows breaks a rule  *)
(* and the server has not mixed two saves up                               *)
(* (scheduleSync.ts:264-289, 380-404, dayplan_service.py:180-255).         *)
EditsAreSaved == \A e \in 1..MaxEdits :
    Waiting(e)
        ~> (Unsaved(e) = {} \/ page.status = "conflict" \/ Refusable \/ WrittenTwice)

(* A save never takes out of a day on the server what somebody else put    *)
(* there ("server wins for agents it has", scheduleSync.ts:5).             *)
ServerWins == [][
    \A d \in Dates, a \in Agents :
        stored[d][a].day \ (0..MaxEdits) \subseteq stored'[d][a].day]_vars
=============================================================================
