------------------------ MODULE ScheduleSync_proofs ------------------------
(***************************************************************************)
(* What the page takes for the server's days are versions the server has   *)
(* had, and the engine implements Copies: for any agents, calls in flight, *)
(* edits, saves by others, losses and reloads, while one date is open.     *)
(***************************************************************************)
EXTENDS ScheduleSync, WellFoundedInduction, TLAPS

(* Rows of a date that are the server's: it has had them, or said so.      *)
Loadable(d, rows) == \A a \in Agents :
    rows[a].version # 0 => rows[a] \in log[d][a]

Passive(c) == c.kind \in {"idle", "gone"}

(* Every call that still does something is of the session; the rows a call *)
(* has been given are the server's, and those of a PUT that has been       *)
(* carried out show what it sent.                                          *)
TrueCall(c) ==
    /\ c.kind # "gone" => c.date = Today
    /\ c.then = Nothing
    /\ Passive(c) \/ c.mine
    /\ Loadable(c.date, c.rows)
    /\ c.kind \in {"save", "upload"} /\ c.phase = "done" =>
           \A a \in Agents : c.plans[a] # Nothing =>
               c.rows[a].version # 0 /\ c.rows[a].day = c.plans[a]

TruePage(p) ==
    /\ p \in Page
    /\ p.open = Today
    /\ p.ses.on
    /\ TrueCopy(Today, p.ses.snap)
    /\ \A d \in Dates : TrueCopy(d, p.saved[d])
    /\ \A s \in Slots : TrueCall(p.calls[s])

(* While a session fetches its first rows, or waits to try again, nothing  *)
(* else is under way and nothing is known: a save acknowledged meanwhile   *)
(* would lose its version to the rows that come.                           *)
Starting(p) ==
    /\ p.ses.timer = "restart" =>
           /\ ~p.ses.ready /\ p.orphans = 0
           /\ \A t \in Slots : Passive(p.calls[t])
    /\ \A s \in Slots : p.calls[s].kind = "load" =>
           /\ ~p.ses.ready /\ p.orphans = 0
           /\ p.ses.timer = "none" /\ p.ses.snap = NoSnapshot
           /\ \A t \in Slots \ {s} : Passive(p.calls[t])

(* A session that has its rows.                                            *)
Running(p) == p.ses.timer # "restart" /\ \A s \in Slots : p.calls[s].kind # "load"

(* SnapshotsAreTrue is not inductive: answers under way must be true, and  *)
(* the start of a session undisturbed.                                     *)
SyncInv ==
    /\ stored \in [Dates -> [Agents -> Row]]
    /\ log \in [Dates -> [Agents -> SUBSET Row]]
    /\ \A d \in Dates : Loadable(d, stored[d])
    /\ used \in [edits : Nat, others : Nat, faults : Nat]
    /\ TruePage(page)
    /\ Starting(page)

-----------------------------------------------------------------------------
(* Pages and calls.                                                        *)

(* Once a session has started, Starting asks nothing.                      *)
LEMMA RunningIsStarting == ASSUME NEW p, Running(p) PROVE Starting(p)
BY DEF Running, Starting

(* A call that is neither passive nor a first fetch shows it has started.  *)
LEMMA ActiveIsRunning ==
    ASSUME NEW p, Starting(p), NEW s \in Slots,
           p.calls[s].kind \notin {"idle", "gone", "load"}
    PROVE  Running(p)
BY DEF Running, Starting, Passive

(* An idle call is a call, and true.                                       *)
LEMMA IdleIsTrue ==
    /\ Idle \in Call /\ TrueCall(Idle) /\ Passive(Idle)
    /\ NoSnapshot \in Snapshot /\ NoRows \in [Agents -> Row]
    /\ \A d \in Dates : Loadable(d, NoRows)
    /\ NoBase \in [Agents -> Version] /\ Idle.date \in Dates
    /\ NoPlans \in [Agents -> Content \cup {Nothing}]
<1>1. 0 \in 0..MaxCalls
  BY ConstantsAssumption
<1>2. NoRow \in Row /\ NoRow.version = 0
  BY DEF NoRow, Row, Version, Content
<1>3. /\ NoRows \in [Agents -> Row] /\ \A d \in Dates : Loadable(d, NoRows)
      /\ NoBase \in [Agents -> Version] /\ NoPlans \in [Agents -> Content \cup {Nothing}]
      /\ NoSnapshot \in Snapshot
  BY <1>2 DEF NoRows, Loadable, NoBase, NoPlans, NoSnapshot, Snapshot, Version
<1>4. Idle \in Call
  BY <1>1, <1>3, ConstantsAssumption DEF Idle, Call
<1> QED BY <1>3, <1>4, ConstantsAssumption DEF Idle, TrueCall, Passive

(* The calls of a page can be replaced, ...                                *)
LEMMA CallsReplaced ==
    ASSUME NEW p, TruePage(p), NEW calls \in [Slots -> Call],
           \A t \in Slots : TrueCall(calls[t])
    PROVE  TruePage([p EXCEPT !.calls = calls])
BY DEF TruePage, Page

(* ... one of them, ...                                                    *)
LEMMA CallReplaced ==
    ASSUME NEW p, TruePage(p), NEW s \in Slots, NEW c \in Call, TrueCall(c)
    PROVE  /\ TruePage([p EXCEPT !.calls[s] = c])
           /\ [p EXCEPT !.calls[s] = c].calls = [p.calls EXCEPT ![s] = c]
           /\ Running(p) /\ c.kind # "load" => Running([p EXCEPT !.calls[s] = c])
           /\ Starting(p) /\ (c.kind = p.calls[s].kind \/ (Passive(p.calls[s]) /\ Passive(c)))
                  => Starting([p EXCEPT !.calls[s] = c])
<1> DEFINE q == [p EXCEPT !.calls[s] = c]
<1>1. /\ q \in Page /\ q.open = p.open /\ q.ses = p.ses /\ q.saved = p.saved
      /\ q.orphans = p.orphans /\ q.calls = [p.calls EXCEPT ![s] = c] /\ q.calls[s] = c
      /\ \A t \in Slots \ {s} : q.calls[t] = p.calls[t]
  BY DEF TruePage, Page
<1> HIDE DEF q
<1>2. TruePage(q)
  BY <1>1 DEF TruePage
<1>3. Running(p) /\ c.kind # "load" => Running(q)
  BY <1>1 DEF Running
<1>4. ASSUME Starting(p), c.kind = p.calls[s].kind \/ (Passive(p.calls[s]) /\ Passive(c))
      PROVE  Starting(q)
  <2>1. \A t \in Slots : Passive(p.calls[t]) => Passive(q.calls[t])
    BY <1>1, <1>4 DEF Passive
  <2>2. \A t \in Slots : q.calls[t].kind = "load" => p.calls[t].kind = "load"
    BY <1>1, <1>4 DEF Passive
  <2> QED BY <1>1, <1>4, <2>1, <2>2 DEF Starting
<1> QED BY <1>1, <1>2, <1>3, <1>4 DEF q

(* ... and its status.                                                     *)
LEMMA StatusReplaced ==
    ASSUME NEW p, TruePage(p),
           NEW st \in {"idle", "loading", "saving", "synced", "offline", "conflict"}
    PROVE  LET q == [p EXCEPT !.status = st]
           IN  /\ TruePage(q)
               /\ q.calls = p.calls /\ q.ses = p.ses /\ q.orphans = p.orphans
               /\ Running(p) => Running(q)
               /\ Starting(p) => Starting(q)
BY DEF TruePage, Page, Running, Starting

(* A session keeps what it knows when its timer is set or cleared.         *)
LEMMA TimerReplaced ==
    ASSUME NEW p, TruePage(p), NEW t \in {"none", "flush", "restart"}
    PROVE  /\ TruePage([p EXCEPT !.ses.timer = t])
           /\ Running(p) /\ t # "restart" => Running([p EXCEPT !.ses.timer = t])
<1> DEFINE q == [p EXCEPT !.ses.timer = t]
<1>1. /\ q \in Page /\ q.open = p.open /\ q.saved = p.saved /\ q.calls = p.calls
      /\ q.ses.on = p.ses.on /\ q.ses.snap = p.ses.snap /\ q.ses.timer = t
  BY DEF TruePage, Page, Session
<1> HIDE DEF q
<1> QED BY <1>1 DEF TruePage, Running, q

(* A PUT that is sent.                                                     *)
LEMMA PutIsTrue ==
    ASSUME NEW p, TruePage(p), NEW kind \in {"law", "save", "upload"},
           NEW A \in SUBSET Agents, NEW plans \in [Agents -> Content \cup {Nothing}]
    PROVE  LET c == Put(p, kind, A, plans)
           IN  /\ c \in Call /\ TrueCall(c) /\ c.kind = kind /\ c.then = Nothing
               /\ c.phase = "sent"
<1> DEFINE sent == [a \in Agents |-> IF a \in A THEN plans[a] ELSE Nothing]
           base == [a \in Agents |-> IF a \in A THEN p.ses.snap.versions[a] ELSE 0]
           c == [Idle EXCEPT !.kind = kind, !.mine = TRUE, !.date = p.open,
                             !.plans = sent, !.base = base]
<1>1. sent \in [Agents -> Content \cup {Nothing}] /\ base \in [Agents -> Version]
  BY DEF TruePage, Page, Session, Snapshot, Version
<1>2. p.open = Today /\ Today \in Dates
  BY ConstantsAssumption DEF TruePage
<1>3. Put(p, kind, A, plans) = c
  BY DEF Put
<1> HIDE DEF sent, base
<1>4. c \in Call /\ c.kind = kind /\ c.then = Nothing /\ c.phase = "sent" /\ c.mine
      /\ c.date = Today /\ c.rows = NoRows
  BY <1>1, <1>2, IdleIsTrue, ZenonT(60) DEF Idle, Call
<1> HIDE DEF c
<1>5. TrueCall(c)
  BY <1>2, <1>4, IdleIsTrue DEF TrueCall
<1> QED BY <1>3, <1>4, <1>5

(* The days a page shows, and those of them that are not in sync.          *)
LEMMA DirtyAgents ==
    ASSUME NEW p, TruePage(p), NEW snap
    PROVE  Dirty(p, snap) \in SUBSET Agents /\ Plans(p) \in [Agents -> Content]
BY DEF Dirty, Plans, TruePage, Page

-----------------------------------------------------------------------------
(* What the page does between two awaits.                                  *)

(* A snapshot is its versions and its contents: writing both writes it.    *)
LEMMA SnapshotReplaced ==
    ASSUME NEW ses \in Session, NEW snap \in Snapshot
    PROVE  [ses EXCEPT !.snap.versions = snap.versions, !.snap.synced = snap.synced]
           = [ses EXCEPT !.snap = snap]
<1> DEFINE both == [[ses.snap EXCEPT !.versions = snap.versions] EXCEPT !.synced = snap.synced]
<1>1. ses.snap \in Snapshot
  BY DEF Session
<1>2. both = snap
  BY <1>1 DEF Snapshot
<1>3. [ses EXCEPT !.snap.versions = snap.versions, !.snap.synced = snap.synced]
      = [ses EXCEPT !.snap = both]
  BY DEF Session
<1> HIDE DEF both
<1> QED BY <1>2, <1>3

(* Loading rows the server has had makes the snapshot true of them.        *)
LEMMA ApplyRemoteIsTrue ==
    ASSUME NEW p, TruePage(p), NEW rows \in [Agents -> Row], Loadable(Today, rows)
    PROVE  LET q == ApplyRemote(p, rows)
           IN  /\ TruePage(q)
               /\ q.calls = p.calls /\ q.ses.timer = p.ses.timer
               /\ Running(p) => Running(q)
<1> DEFINE A == {a \in Agents : rows[a].version # 0}
           local == [a \in Agents |-> IF a \in A THEN rows[a].day ELSE p.local[Today][a]]
           snap  == [versions |-> [a \in Agents |-> IF a \in A THEN rows[a].version
                                                    ELSE p.ses.snap.versions[a]],
                     synced |-> [a \in Agents |-> IF a \in A THEN rows[a].day
                                                  ELSE p.ses.snap.synced[a]]]
           q == [p EXCEPT !.local[Today] = local, !.ses.snap = snap, !.saved[Today] = snap]
<1>0. Today \in Dates
  BY ConstantsAssumption
<1>1. \A a \in Agents : /\ rows[a].day \in Content /\ rows[a].version \in Version
                       /\ rows[a] = [version |-> rows[a].version, day |-> rows[a].day]
  BY DEF Row
<1>2. local \in [Agents -> Content]
  <2> HIDE DEF A
  <2> QED BY <1>0, <1>1 DEF TruePage, Page
<1>3. snap \in Snapshot
  <2> HIDE DEF A
  <2> QED BY <1>1 DEF TruePage, Page, Session, Snapshot
<1>4. TrueCopy(Today, snap)
  <2> SUFFICES ASSUME NEW a \in Agents, snap.synced[a] # Nothing, snap.versions[a] # 0
               PROVE  [version |-> snap.versions[a], day |-> snap.synced[a]] \in log[Today][a]
    BY DEF TrueCopy
  <2>1. CASE a \in A
    <3>1. rows[a] \in log[Today][a]
      BY <2>1 DEF Loadable
    <3>2. snap.versions[a] = rows[a].version /\ snap.synced[a] = rows[a].day
      BY <2>1
    <3> HIDE DEF snap, A
    <3> QED BY <1>1, <3>1, <3>2
  <2>2. CASE a \notin A
    <3>1. snap.versions[a] = p.ses.snap.versions[a] /\ snap.synced[a] = p.ses.snap.synced[a]
      BY <2>2
    <3> HIDE DEF snap, A
    <3> QED BY <3>1 DEF TruePage, TrueCopy
  <2> QED BY <2>1, <2>2
<1>5. ApplyRemote(p, rows) = q
  <2> DEFINE m == [p EXCEPT !.local[Today] = local, !.ses.snap.versions = snap.versions,
                            !.ses.snap.synced = snap.synced]
  <2>1. ApplyRemote(p, rows) = Persisted(m)
    BY <1>0, ZenonT(60) DEF ApplyRemote, Plans, TruePage, Page, Session, Snapshot
  <2> HIDE DEF local, snap
  <2>2. [p.ses EXCEPT !.snap.versions = snap.versions, !.snap.synced = snap.synced]
        = [p.ses EXCEPT !.snap = snap]
    <3>1. p.ses \in Session
      BY DEF TruePage, Page
    <3> QED BY <1>3, <3>1, SnapshotReplaced, Zenon
  <2>3. m = [p EXCEPT !.local[Today] = local, !.ses = [p.ses EXCEPT !.snap = snap]]
    BY <2>2 DEF TruePage, Page, Session
  <2> HIDE DEF m
  <2>4. m.open = Today /\ m.ses.snap = snap
    <3>1. p.ses \in Session /\ p.open = Today
      BY DEF TruePage, Page
    <3>2. [p.ses EXCEPT !.snap = snap].snap = snap
      BY <3>1 DEF Session
    <3>3. m.open = p.open /\ m.ses = [p.ses EXCEPT !.snap = snap]
      BY <2>3 DEF TruePage, Page
    <3> QED BY <3>1, <3>2, <3>3
  <2> QED BY <2>1, <2>3, <2>4 DEF Persisted, TruePage, Page, Session
<1> HIDE DEF local, snap
<1>6. /\ q \in Page /\ q.open = p.open /\ q.calls = p.calls
      /\ q.ses.on = p.ses.on /\ q.ses.timer = p.ses.timer
      /\ q.ses.snap = snap /\ q.saved = [p.saved EXCEPT ![Today] = snap]
  BY <1>0, <1>2, <1>3 DEF TruePage, Page, Session
<1> HIDE DEF q
<1>7. TruePage(q)
  <2>1. p.saved \in [Dates -> Snapshot] /\ \A d \in Dates : TrueCopy(d, p.saved[d])
    BY DEF TruePage, Page
  <2>2. \A d \in Dates : TrueCopy(d, q.saved[d])
    BY <1>0, <1>4, <1>6, <2>1
  <2> QED BY <1>4, <1>6, <2>2 DEF TruePage
<1> QED BY <1>5, <1>6, <1>7 DEF Running

(* Nothing to save: the status is all that changes.                        *)
LEMMA NothingToSaveIsTrue ==
    ASSUME NEW p, TruePage(p)
    PROVE  LET q == NothingToSave(p)
           IN  /\ TruePage(q) /\ q.calls = p.calls /\ q.ses = p.ses
               /\ Running(p) => Running(q)
<1>1. (IF p.status = "offline" THEN p.status ELSE "synced")
        \in {"idle", "loading", "saving", "synced", "offline", "conflict"}
  OBVIOUS
<1> QED BY <1>1, StatusReplaced DEF NothingToSave

(* The slot of the call that stands for a save.                            *)
LEMMA SavingReplaced ==
    ASSUME NEW p, TruePage(p), NEW n \in 0..MaxCalls
    PROVE  LET q == [p EXCEPT !.ses.saving = n]
           IN  /\ TruePage(q) /\ q.calls = p.calls
               /\ Running(p) => Running(q)
<1> DEFINE q == [p EXCEPT !.ses.saving = n]
<1>1. /\ q \in Page /\ q.open = p.open /\ q.saved = p.saved /\ q.calls = p.calls
      /\ q.ses.on = p.ses.on /\ q.ses.snap = p.ses.snap /\ q.ses.timer = p.ses.timer
  BY DEF TruePage, Page, Session
<1> HIDE DEF q
<1> QED BY <1>1 DEF TruePage, Running, q

(* A flush that waits, saves, or has nothing to do.                        *)
LEMMA FlushIsTrue ==
    ASSUME NEW p, TruePage(p), Running(p), NEW s \in Slots
    PROVE  TruePage(Flush(p, s, Nothing)) /\ Running(Flush(p, s, Nothing))
<1> DEFINE q == [p EXCEPT !.ses.timer = "none"]
           A == Dirty(q, q.ses.snap)
<1>1. TruePage(q) /\ Running(q)
  BY TimerReplaced
<1>2. A \in SUBSET Agents /\ Plans(q) \in [Agents -> Content \cup {Nothing}]
  BY <1>1, DirtyAgents
<1> HIDE DEF q, A
<1>3. CASE q.ses.saving # 0
  <2> DEFINE c == [Idle EXCEPT !.kind = "wait", !.mine = TRUE, !.date = q.open,
                               !.on = q.ses.saving, !.then = Nothing]
  <2>1. q.open = Today /\ Today \in Dates /\ q.ses.saving \in 0..MaxCalls
    BY <1>1, ConstantsAssumption DEF TruePage, Page, Session
  <2>2. c \in Call /\ TrueCall(c) /\ c.kind # "load"
    BY <2>1, IdleIsTrue, ZenonT(60) DEF Idle, Call, TrueCall
  <2>3. Flush(p, s, Nothing) = [q EXCEPT !.calls[s] = c]
    BY <1>3 DEF Flush, q
  <2> HIDE DEF c
  <2> QED BY <1>1, <2>2, <2>3, CallReplaced
<1>4. CASE q.ses.saving = 0 /\ A # {}
  <2> DEFINE c == [Put(q, "save", A, Plans(q)) EXCEPT !.then = Nothing]
             r == [q EXCEPT !.ses.saving = s]
             u == [r EXCEPT !.status = "saving"]
  <2>1. c \in Call /\ TrueCall(c) /\ c.kind # "load"
    <3>1. /\ Put(q, "save", A, Plans(q)) \in Call /\ TrueCall(Put(q, "save", A, Plans(q)))
          /\ Put(q, "save", A, Plans(q)).kind = "save" /\ Put(q, "save", A, Plans(q)).then = Nothing
      BY <1>1, <1>2, PutIsTrue
    <3>2. c = Put(q, "save", A, Plans(q))
      BY <3>1 DEF Call
    <3> QED BY <3>1, <3>2
  <2>2. s \in 0..MaxCalls
    BY DEF Slots
  <2>3. TruePage(r) /\ Running(r)
    BY <1>1, <2>2, SavingReplaced
  <2>4. TruePage(u) /\ Running(u)
    BY <2>3, StatusReplaced
  <2>5. Flush(p, s, Nothing) = [q EXCEPT !.ses.saving = s, !.status = "saving", !.calls[s] = c]
    BY <1>4 DEF Flush, q, A
  <2> HIDE DEF c
  <2>6. [q EXCEPT !.ses.saving = s, !.status = "saving", !.calls[s] = c]
        = [u EXCEPT !.calls[s] = c]
    BY <1>1 DEF TruePage, Page, Session
  <2> HIDE DEF u
  <2> QED BY <2>1, <2>4, <2>5, <2>6, CallReplaced
<1>5. CASE q.ses.saving = 0 /\ A = {}
  <2>1. Flush(p, s, Nothing) = NothingToSave(q)
    BY <1>5 DEF Flush, q, A
  <2> QED BY <1>1, <2>1, NothingToSaveIsTrue
<1> QED BY <1>3, <1>4, <1>5

(* The largest of some slots is one of them.                               *)
LEMMA MaxIsOne ==
    ASSUME NEW W \in SUBSET Slots, W # {}
    PROVE  Max(W) \in W
<1> DEFINE Less == {p \in Nat \X Nat : p[1] < p[2]}
           D == {MaxCalls - w : w \in W}
<1>1. IsWellFoundedOn(Less, Nat)
  BY NatLessThanWellFounded, Zenon DEF OpToRel
<1>2. MaxCalls \in Nat /\ W \subseteq Nat /\ \A w \in W : w <= MaxCalls
  BY ConstantsAssumption DEF Slots
<1>3. D \subseteq Nat /\ D # {}
  <2>1. \A w \in W : MaxCalls - w \in Nat
    BY <1>2
  <2> QED BY <2>1
<1> HIDE DEF Less, D
<1>4. PICK x \in D : \A y \in D : ~ (<<y, x>> \in Less)
  BY <1>1, <1>3, WFMin
<1>5. PICK w \in W : x = MaxCalls - w
  BY DEF D
<1>6. ASSUME NEW v \in W, v > w PROVE FALSE
  <2>1. MaxCalls - v \in D /\ MaxCalls - v < x
    BY <1>2, <1>5, <1>6 DEF D
  <2>2. <<MaxCalls - v, x>> \in Nat \X Nat /\ <<MaxCalls - v, x>>[1] < <<MaxCalls - v, x>>[2]
    BY <1>3, <2>1
  <2> QED BY <2>1, <2>2, <1>4, Zenon DEF Less
<1>7. \A v \in W : w >= v
  BY <1>2, <1>6
<1> QED BY <1>7 DEF Max

(* When a save has settled, the flushes that waited for it go on.          *)
LEMMA FlushEndedIsTrue ==
    ASSUME NEW p, TruePage(p), Running(p), NEW s \in Slots, p.calls[s].mine
    PROVE  TruePage(FlushEnded(p, s)) /\ Running(FlushEnded(p, s))
<1> DEFINE q == [p EXCEPT !.calls[s] = Idle, !.ses.saving = 0]
           W == {t \in Slots : q.calls[t].kind = "wait" /\ q.calls[t].on = s}
           A == Dirty(q, q.ses.snap)
           again == A # {} /\ q.ses.on
           u == IF again THEN [q EXCEPT !.status = "saving"]
                ELSE IF A = {} THEN NothingToSave(q) ELSE q
           resumed(t) == IF ~again THEN Idle
                         ELSE [Put(q, "save", A, Plans(q)) EXCEPT !.then = q.calls[t].then]
           calls == [t \in Slots |-> IF t \in W THEN resumed(t) ELSE u.calls[t]]
           saving == IF again THEN Max(W) ELSE u.ses.saving
<1>1. TruePage(q) /\ Running(q)
  <2> DEFINE o == [p EXCEPT !.calls[s] = Idle]
  <2>1. TruePage(o) /\ Running(o)
    BY IdleIsTrue, CallReplaced DEF Passive
  <2>2. q = [o EXCEPT !.ses.saving = 0]
    BY DEF TruePage, Page, Session
  <2>3. 0 \in 0..MaxCalls
    BY ConstantsAssumption, SMTT(60)
  <2> HIDE DEF o, q
  <2> QED BY <2>1, <2>2, <2>3, SavingReplaced
<1>2. \A t \in Slots : p.calls[t].then = Nothing /\ q.calls[t].then = Nothing
  BY <1>1 DEF TruePage, TrueCall
<1>3. A \in SUBSET Agents /\ Plans(q) \in [Agents -> Content \cup {Nothing}]
  BY <1>1, DirtyAgents
<1> HIDE DEF q, A
<1>4. CASE W = {}
  <2>1. FlushEnded(p, s) = q
    BY <1>2, <1>4 DEF FlushEnded, q
  <2> QED BY <1>1, <2>1, SMTT(60)
<1>5. CASE W # {}
  <2>1. TruePage(u) /\ Running(u) /\ u.calls = q.calls
    BY <1>1, StatusReplaced, NothingToSaveIsTrue
  <2>2. ASSUME NEW t \in Slots
        PROVE  calls[t] \in Call /\ TrueCall(calls[t]) /\ calls[t].kind # "load"
    <3>1. u.calls[t] \in Call /\ TrueCall(u.calls[t]) /\ u.calls[t].kind # "load"
      BY <2>1 DEF TruePage, Page, Running
    <3>2. resumed(t) \in Call /\ TrueCall(resumed(t)) /\ resumed(t).kind # "load"
      <4>1. /\ Put(q, "save", A, Plans(q)) \in Call /\ TrueCall(Put(q, "save", A, Plans(q)))
            /\ Put(q, "save", A, Plans(q)).kind = "save"
            /\ Put(q, "save", A, Plans(q)).then = Nothing
        BY <1>1, <1>3, PutIsTrue
      <4>2. [Put(q, "save", A, Plans(q)) EXCEPT !.then = q.calls[t].then]
            = Put(q, "save", A, Plans(q))
        BY <1>2, <4>1 DEF Call
      <4>3. Idle.kind # "load"
        BY DEF Idle
      <4> QED BY <4>1, <4>2, <4>3, IdleIsTrue
    <3> HIDE DEF u, resumed
    <3> QED BY <3>1, <3>2
  <2>3. saving \in 0..MaxCalls
    <3>1. Max(W) \in Slots
      BY <1>5, MaxIsOne
    <3>2. u.ses.saving \in 0..MaxCalls
      BY <2>1 DEF TruePage, Page, Session
    <3> HIDE DEF u
    <3> QED BY <3>1, <3>2 DEF Slots
  <2> DEFINE v == [u EXCEPT !.calls = calls]
             r == [v EXCEPT !.ses.saving = saving]
  <2>4. FlushEnded(p, s) = [u EXCEPT !.calls = calls, !.ses.saving = saving]
    BY <1>2, <1>5 DEF FlushEnded, q, A
  <2> HIDE DEF u, calls, saving
  <2>5. TruePage(v) /\ Running(v)
    <3>1. calls \in [Slots -> Call]
      BY <2>2 DEF calls
    <3>2. TruePage(v)
      BY <2>1, <2>2, <3>1, CallsReplaced
    <3>3. v.calls = calls /\ v.ses = u.ses
      BY <2>1 DEF TruePage, Page
    <3> QED BY <2>1, <2>2, <3>2, <3>3 DEF Running
  <2>6. r = [u EXCEPT !.calls = calls, !.ses.saving = saving]
    BY <2>1 DEF TruePage, Page, Session
  <2> HIDE DEF v
  <2> QED BY <2>3, <2>4, <2>5, <2>6, SavingReplaced
<1> QED BY <1>4, <1>5

(* Either kind of save can end.                                            *)
LEMMA PushEndedIsTrue ==
    ASSUME NEW p, TruePage(p), Running(p), NEW s \in Slots, p.calls[s].mine, NEW owner
    PROVE  TruePage(PushEnded(p, s, owner)) /\ Running(PushEnded(p, s, owner))
<1> DEFINE q == [p EXCEPT !.calls[s] = Idle]
           st == IF p.calls[s].over THEN "conflict" ELSE p.status
<1>1. TruePage(q) /\ Running(q)
  BY IdleIsTrue, CallReplaced DEF Passive
<1>2. st \in {"idle", "loading", "saving", "synced", "offline", "conflict"}
  BY DEF TruePage, Page
<1>3. UploadEnded(p, s) = [q EXCEPT !.status = st]
  BY DEF UploadEnded, TruePage, Page
<1> HIDE DEF q, st
<1>4. TruePage(UploadEnded(p, s)) /\ Running(UploadEnded(p, s))
  BY <1>1, <1>2, <1>3, StatusReplaced, ZenonT(60)
<1> QED BY <1>4, FlushEndedIsTrue DEF PushEnded

(* A session that starts when nothing else is under way.                   *)
LEMMA StartedIsTrue ==
    ASSUME NEW p, TruePage(p), NEW s \in Slots, p.orphans = 0,
           \A t \in Slots : Passive(p.calls[t])
    PROVE  TruePage(Started(p, s)) /\ Starting(Started(p, s))
<1> DEFINE c == [Idle EXCEPT !.kind = "load", !.mine = TRUE, !.date = p.open,
                             !.known = p.saved[p.open]]
           calls == [[t \in Slots |-> [p.calls[t] EXCEPT !.mine = FALSE]] EXCEPT ![s] = c]
           q == [p EXCEPT !.ses = NewSession, !.status = "loading", !.calls = calls]
<1>0. p.open = Today /\ Today \in Dates
  BY ConstantsAssumption DEF TruePage
<1>1. c \in Call /\ TrueCall(c)
  BY <1>0, IdleIsTrue, ZenonT(60) DEF Idle, Call, TrueCall, TruePage, Page
<1>2. ASSUME NEW t \in Slots
      PROVE  LET d == [p.calls[t] EXCEPT !.mine = FALSE]
             IN  d \in Call /\ TrueCall(d) /\ Passive(d)
  <2>1. p.calls[t] \in Call /\ TrueCall(p.calls[t]) /\ Passive(p.calls[t])
    BY DEF TruePage, Page
  <2> QED BY <2>1 DEF Call, TrueCall, Passive
<1>3. calls \in [Slots -> Call] /\ \A t \in Slots : TrueCall(calls[t])
  BY <1>1, <1>2
<1>4. \A t \in Slots \ {s} : Passive(calls[t])
  BY <1>2
<1>5. NewSession \in Session /\ NewSession.on /\ ~NewSession.ready
      /\ NewSession.snap = NoSnapshot /\ NewSession.timer = "none"
  <2>1. 0 \in 0..MaxCalls
    BY ConstantsAssumption
  <2> QED BY <2>1, IdleIsTrue DEF NewSession, NoSession, Session
<1>6. Started(p, s) = q
  <2>1. \A t \in Slots : ~(p.calls[t].mine /\ p.calls[t].kind \in {"save", "wait", "reload"})
    BY DEF Passive
  <2> QED BY <2>1 DEF Started, Stopped, TruePage, Page
<1>7. calls[s].kind = "load"
  BY DEF Idle
<1> HIDE DEF calls, c
<1>8. /\ q \in Page /\ q.open = p.open /\ q.saved = p.saved /\ q.calls = calls
      /\ q.ses = NewSession /\ q.orphans = p.orphans
  BY <1>3, <1>5 DEF TruePage, Page
<1> HIDE DEF q
<1>9. TrueCopy(Today, NoSnapshot)
  BY DEF TrueCopy, NoSnapshot
<1>10. TruePage(q)
  BY <1>3, <1>5, <1>8, <1>9 DEF TruePage
<1>11. Starting(q)
  <2>1. \A t \in Slots : calls[t].kind = "load" => t = s
    BY <1>4 DEF Passive
  <2> QED BY <1>4, <1>5, <1>8, <2>1 DEF Starting
<1> QED BY <1>6, <1>10, <1>11

-----------------------------------------------------------------------------
(* The start, and the steps of the page.                                   *)

(* SyncInv holds at the start.                                             *)
LEMMA InitIsTrue == Init => SyncInv
<1> SUFFICES ASSUME Init PROVE SyncInv
  OBVIOUS
<1> DEFINE first == [Idle EXCEPT !.kind = "load", !.mine = TRUE, !.known = FirstSnapshot]
<1> DEFINE row == [version |-> 1, day |-> {}]
<1>1. /\ stored \in [Dates -> [Agents -> Row]] /\ log \in [Dates -> [Agents -> SUBSET Row]]
      /\ \A d \in Dates : Loadable(d, stored[d])
  <2>1. row \in Row /\ NoRow \in Row /\ NoRow.version = 0
    BY DEF Row, NoRow, Version, Content
  <2> HIDE DEF row
  <2> QED BY <2>1 DEF Init, Loadable, row
<1>2. /\ FirstSnapshot \in Snapshot
      /\ \A d \in Dates : TrueCopy(d, FirstSnapshot)
  <2>1. CASE SavedBefore
    <3>1. \A d \in Dates, a \in Agents : row \in log[d][a]
      BY <2>1 DEF Init
    <3> QED BY <2>1, <3>1 DEF FirstSnapshot, Snapshot, Version, Content, TrueCopy
  <2>2. CASE ~SavedBefore
    BY <2>2, IdleIsTrue DEF FirstSnapshot, NoSnapshot, TrueCopy
  <2> QED BY <2>1, <2>2
<1>3. first \in Call /\ TrueCall(first) /\ first.kind = "load"
  BY <1>2, IdleIsTrue DEF Idle, Call, TrueCall
<1>4. NewSession \in Session /\ NewSession.on /\ ~NewSession.ready
      /\ NewSession.snap = NoSnapshot /\ NewSession.timer = "none"
  <2>1. 0 \in 0..MaxCalls
    BY ConstantsAssumption
  <2> QED BY <2>1, IdleIsTrue DEF NewSession, NoSession, Session
<1> DEFINE calls == [t \in Slots |-> IF t = 1 THEN first ELSE Idle]
<1>5. calls \in [Slots -> Call] /\ \A t \in Slots : TrueCall(calls[t])
  BY <1>3, IdleIsTrue
<1>6. \A s \in Slots : calls[s].kind = "load" => \A t \in Slots \ {s} : Passive(calls[t])
  BY IdleIsTrue DEF Idle
<1> HIDE DEF first
<1>7. /\ page.calls = calls /\ page.ses = NewSession /\ page.open = Today
      /\ page.saved = [d \in Dates |-> FirstSnapshot] /\ page.orphans = 0
  BY DEF Init, first
<1> HIDE DEF calls
<1>8. page \in Page
  BY <1>2, <1>4, <1>5, <1>7, ConstantsAssumption DEF Init, Page, Content
<1>9. TrueCopy(Today, NoSnapshot)
  BY DEF TrueCopy, NoSnapshot
<1>10. TruePage(page)
  BY <1>2, <1>4, <1>5, <1>7, <1>8, <1>9 DEF TruePage
<1>11. Starting(page)
  BY <1>4, <1>6, <1>7 DEF Starting
<1> QED BY <1>1, <1>10, <1>11 DEF Init, SyncInv

(* A step of the page alone keeps SyncInv when its new page is true.       *)
LEMMA PageStep ==
    ASSUME SyncInv, NEW p, TruePage(p), Starting(p) \/ Running(p), page' = p, UNCHANGED <<stored, log>>,
           used' \in [edits : Nat, others : Nat, faults : Nat]
    PROVE  SyncInv'
<1>1. Starting(p)
  BY RunningIsStarting
<1>2. Starting(page)'
  BY <1>1 DEF Starting, Passive
<1>3. TrueCopy(Today, page.ses.snap)' /\ \A d \in Dates : TrueCopy(d, page.saved[d])'
  BY DEF TruePage, TrueCopy
<1>4. \A s \in Slots : TrueCall(page.calls[s])'
  BY DEF TruePage, TrueCall, Loadable, Passive
<1>5. TruePage(page)'
  BY <1>3, <1>4 DEF TruePage
<1>6. \A d \in Dates : Loadable(d, stored[d])'
  BY DEF SyncInv, Loadable
<1> QED BY <1>2, <1>5, <1>6 DEF SyncInv

(* The bounds stay numbers.                                                *)
LEMMA UsedMore ==
    ASSUME NEW u \in [edits : Nat, others : Nat, faults : Nat]
    PROVE  LET U == [edits : Nat, others : Nat, faults : Nat]
           IN  /\ [u EXCEPT !.edits = @ + 1] \in U /\ [u EXCEPT !.others = @ + 1] \in U
               /\ [u EXCEPT !.faults = @ + 1] \in U
OBVIOUS

(* One lemma for each step of Next.  An edit in the browser:               *)
LEMMA EditStep ==
    ASSUME SyncInv, NEW a \in Agents, NEW broken \in BOOLEAN, Edit(a, broken)
    PROVE  SyncInv'
<1> DEFINE day == (page.local[page.open][a] \ {0}) \cup {used.edits + 1}
                  \cup (IF broken THEN {0} ELSE {})
           timer == IF page.ses.ready THEN "flush" ELSE page.ses.timer
           st == IF page.ses.ready THEN "saving" ELSE page.status
           p == [page EXCEPT !.local[page.open][a] = day, !.ses.timer = timer, !.status = st]
<1>1. /\ page \in Page /\ day \in Content /\ timer \in {"none", "flush", "restart"}
      /\ st \in {"idle", "loading", "saving", "synced", "offline", "conflict"}
  <2>1. page.local[page.open][a] \in SUBSET Nat /\ used.edits + 1 \in Nat
    BY DEF SyncInv, TruePage, Page, Content
  <2>2. day \in Content
    BY <2>1 DEF Content
  <2> QED BY <2>2 DEF SyncInv, TruePage, Page, Session
<1>2. page' = p
  BY DEF Edit
<1> HIDE DEF day, st
<1>3. /\ p \in Page /\ p.open = page.open /\ p.saved = page.saved /\ p.calls = page.calls
      /\ p.orphans = page.orphans /\ p.ses = [page.ses EXCEPT !.timer = timer]
  BY <1>1 DEF Page, Session
<1>4. /\ p.ses.on = page.ses.on /\ p.ses.snap = page.ses.snap /\ p.ses.timer = timer
      /\ p.ses.ready = page.ses.ready
  BY <1>1, <1>3 DEF Page, Session
<1> HIDE DEF p
<1>5. TruePage(p)
  BY <1>3, <1>4 DEF SyncInv, TruePage
<1>6. Starting(p)
  BY <1>3, <1>4 DEF SyncInv, Starting
<1>7. used' \in [edits : Nat, others : Nat, faults : Nat]
  BY UsedMore DEF Edit, SyncInv
<1> QED BY <1>2, <1>5, <1>6, <1>7, PageStep DEF Edit

(* a timer fires, one that is still the session's or one that is not,      *)
LEMMA TimerStep ==
    ASSUME SyncInv, NEW s \in Slots, TimerFires(s) \/ OrphanFires(s)
    PROVE  SyncInv'
<1>1. CASE TimerFires(s)
  <2>1. Running(page)
    BY <1>1 DEF SyncInv, Starting, Running, TimerFires
  <2>2. TruePage(Flush(page, s, Nothing)) /\ Running(Flush(page, s, Nothing))
    BY <2>1, FlushIsTrue DEF SyncInv
  <2>3. page' = Flush(page, s, Nothing) /\ UNCHANGED <<stored, log, used>>
    BY <1>1 DEF TimerFires, Mutate
  <2> QED BY <2>2, <2>3, PageStep DEF SyncInv
<1>2. CASE OrphanFires(s)
  <2> DEFINE q == [page EXCEPT !.orphans = @ - 1]
  <2>1. /\ q \in Page /\ q.open = page.open /\ q.saved = page.saved /\ q.calls = page.calls
        /\ q.ses = page.ses
    <3>1. page.orphans - 1 \in Nat /\ page \in Page
      BY <1>2 DEF OrphanFires, SyncInv, TruePage, Page
    <3> QED BY <3>1 DEF Page
  <2>2. page' = (IF q.ses.on THEN Flush(q, s, Nothing) ELSE q) /\ UNCHANGED <<stored, log, used>>
    BY <1>2 DEF OrphanFires, Mutate
  <2> HIDE DEF q
  <2>3. Running(q)
    BY <1>2, <2>1 DEF OrphanFires, SyncInv, TruePage, Page, Starting, Running
  <2>4. TruePage(q)
    BY <2>1 DEF SyncInv, TruePage
  <2> QED BY <2>2, <2>3, <2>4, FlushIsTrue, PageStep DEF SyncInv
<1> QED BY <1>1, <1>2

(* the session starts again,                                               *)
LEMMA RestartStep ==
    ASSUME SyncInv, NEW s \in Slots, RestartFires(s)
    PROVE  SyncInv'
<1>1. page.orphans = 0 /\ \A t \in Slots : Passive(page.calls[t])
  BY DEF SyncInv, Starting, RestartFires
<1> QED BY <1>1, StartedIsTrue, PageStep DEF RestartFires, Mutate, SyncInv

(* a pull starts,                                                          *)
LEMMA PullStep ==
    ASSUME SyncInv, NEW s \in Slots, PullStarts(s)
    PROVE  SyncInv'
<1> DEFINE c == [Idle EXCEPT !.kind = "pull", !.mine = TRUE, !.date = page.open]
<1>1. Running(page) /\ TruePage(page)
  BY DEF SyncInv, Starting, Running, PullStarts
<1>2. c \in Call /\ TrueCall(c) /\ c.kind # "load"
  BY <1>1, IdleIsTrue, ConstantsAssumption, ZenonT(60) DEF Idle, Call, TrueCall, TruePage
<1>3. page' = [page EXCEPT !.calls[s] = c] /\ UNCHANGED <<stored, log, used>>
  BY DEF PullStarts, Mutate
<1> HIDE DEF c
<1> QED BY <1>1, <1>2, <1>3, CallReplaced, PageStep DEF SyncInv

(* the answer of a pull reaches the page,                                  *)
LEMMA PullEndsStep ==
    ASSUME SyncInv, NEW s \in Slots, PullEnds(s)
    PROVE  SyncInv'
<1> DEFINE c == page.calls[s]
           q == [page EXCEPT !.calls[s] = Idle]
           rows == Newer(c.rows, q.ses.snap)
           r == IF rows = NoRows THEN q ELSE ApplyRemote(q, rows)
<1>1. Running(page) /\ TruePage(page)
  BY ActiveIsRunning DEF SyncInv, PullEnds
<1>2. c \in Call /\ TrueCall(c)
  BY <1>1 DEF TruePage, Page
<1>3. TruePage(q) /\ Running(q)
  BY <1>1, IdleIsTrue, CallReplaced DEF Passive
<1>4. c.mine /\ c.date = Today
  BY <1>2 DEF TrueCall, Passive, PullEnds
<1> HIDE DEF q
<1>5. rows \in [Agents -> Row] /\ Loadable(Today, rows)
  <2>1. c.rows \in [Agents -> Row] /\ Loadable(Today, c.rows)
    BY <1>2, <1>4 DEF Call, TrueCall
  <2>2. NoRow \in Row /\ NoRow.version = 0
    BY DEF NoRow, Row, Version, Content
  <2> HIDE DEF c
  <2> QED BY <2>1, <2>2 DEF Newer, Loadable
<1>6. page' = [r EXCEPT !.status = "synced"] \/ page' = [q EXCEPT !.status = "offline"]
  BY <1>4 DEF PullEnds, Mutate, q
<1> HIDE DEF rows
<1>7. TruePage(r) /\ Running(r)
  BY <1>3, <1>5, ApplyRemoteIsTrue DEF SyncInv
<1> HIDE DEF r
<1>8. UNCHANGED <<stored, log, used>>
  BY DEF PullEnds, Mutate
<1>9. ASSUME NEW p, NEW st \in {"synced", "offline"}, TruePage(p), Running(p),
             page' = [p EXCEPT !.status = st]
      PROVE  SyncInv'
  <2>1. TruePage([p EXCEPT !.status = st]) /\ Running([p EXCEPT !.status = st])
    BY <1>9, StatusReplaced, ZenonT(60)
  <2> QED BY <2>1, <1>8, <1>9, PageStep DEF SyncInv
<1> QED BY <1>3, <1>6, <1>7, <1>9

(* the first rows of a session reach it,                                   *)
LEMMA LoadEndsStep ==
    ASSUME SyncInv, NEW s \in Slots, LoadEnds(s)
    PROVE  SyncInv'
<1> DEFINE c == page.calls[s]
           P == ToPush(page, c.known, c.rows)
           over == \E a \in Agents \ P : OfflineEdit(page, c.known, a)
           versions == [a \in Agents |-> IF a \in P THEN c.rows[a].version
                                         ELSE page.ses.snap.versions[a]]
           based == [page EXCEPT !.ses.snap.versions = versions]
           rows == [a \in Agents |-> IF a \in P THEN NoRow ELSE c.rows[a]]
           loaded == ApplyRemote(based, rows)
           d == [Put(page, "law", P, Plans(page)) EXCEPT !.over = over, !.base = NoBase]
<1>1. /\ TruePage(page) /\ page \in Page /\ ~page.ses.ready /\ page.orphans = 0
      /\ page.ses.timer = "none" /\ page.ses.snap = NoSnapshot
      /\ \A t \in Slots \ {s} : Passive(page.calls[t])
  BY ZenonT(60) DEF SyncInv, TruePage, Starting, LoadEnds
<1>2. c \in Call /\ TrueCall(c) /\ c.mine /\ c.date = Today /\ c.kind = "load"
  BY <1>1, ZenonT(60) DEF TruePage, Page, TrueCall, Passive, LoadEnds
<1>3. CASE c.phase = "failed"
  <2> DEFINE q == [page EXCEPT !.calls[s] = Idle, !.ses.timer = "restart",
                               !.status = "offline"]
  <2>1. page' = q /\ UNCHANGED <<stored, log, used>>
    BY <1>2, <1>3 DEF LoadEnds, Mutate
  <2>2. /\ q \in Page /\ q.open = page.open /\ q.saved = page.saved
        /\ q.orphans = page.orphans /\ q.ses.on = page.ses.on
        /\ q.ses.snap = page.ses.snap /\ q.ses.ready = page.ses.ready
        /\ q.calls[s] = Idle /\ \A t \in Slots \ {s} : q.calls[t] = page.calls[t]
    BY <1>1, IdleIsTrue DEF Page, Session
  <2> HIDE DEF q
  <2>3. TruePage(q)
    BY <1>1, <2>2, IdleIsTrue DEF TruePage
  <2>4. Starting(q)
    <3>1. \A t \in Slots : Passive(q.calls[t])
      BY <1>1, <2>2, IdleIsTrue
    <3> QED BY <1>1, <2>2, <3>1 DEF Starting, Passive
  <2> QED BY <2>1, <2>3, <2>4, PageStep DEF SyncInv
<1>4. CASE c.phase = "done"
  <2>1. P \in SUBSET Agents /\ over \in BOOLEAN
    BY DEF ToPush
  <2>2. d \in Call /\ TrueCall(d) /\ d.kind = "law"
    <3>1. LET e == Put(page, "law", P, Plans(page))
          IN  e \in Call /\ TrueCall(e) /\ e.kind = "law"
      <4>1. Plans(page) \in [Agents -> Content \cup {Nothing}]
        BY <1>1, DirtyAgents
      <4> HIDE DEF P
      <4> QED BY <1>1, <2>1, <4>1, PutIsTrue
    <3> HIDE DEF P, over
    <3> DEFINE e == Put(page, "law", P, Plans(page))
    <3>2. d = [e EXCEPT !.over = over, !.base = NoBase]
      OBVIOUS
    <3> HIDE DEF d, e
    <3>3. d \in Call /\ d.kind = e.kind /\ d.date = e.date /\ d.then = e.then
          /\ d.mine = e.mine /\ d.rows = e.rows
      BY <2>1, <3>1, <3>2, IdleIsTrue DEF Call, e
    <3> QED BY <3>1, <3>3 DEF TrueCall, Passive, e
  <2>3. c.rows \in [Agents -> Row] /\ Loadable(Today, c.rows)
    BY <1>2, SMTT(60) DEF Call, TrueCall
  <2>4. page' = [loaded EXCEPT !.calls[s] = d] /\ UNCHANGED <<stored, log, used>>
    BY <1>2, <1>4, ZenonT(60) DEF LoadEnds, Mutate
  <2>5. rows \in [Agents -> Row] /\ Loadable(Today, rows)
    <3>1. NoRow \in Row /\ NoRow.version = 0
      BY DEF NoRow, Row, Version, Content
    <3> HIDE DEF P, c
    <3> QED BY <2>3, <3>1 DEF Loadable
  <2>6. versions \in [Agents -> Version]
    <3> HIDE DEF P
    <3>1. \A a \in Agents : c.rows[a].version \in Version
      BY <2>3 DEF Row
    <3> QED BY <1>1, <3>1 DEF Page, Session, Snapshot
  <2> HIDE DEF versions, rows, d
  <2>7. TruePage(based) /\ based.calls = page.calls /\ based.ses.timer = page.ses.timer
    <3>1. /\ based \in Page /\ based.open = page.open /\ based.saved = page.saved
          /\ based.calls = page.calls /\ based.ses.on = page.ses.on
          /\ based.ses.snap.synced = page.ses.snap.synced
          /\ based.ses.timer = page.ses.timer
      BY <1>1, <2>6 DEF Page, Session, Snapshot
    <3> HIDE DEF based
    <3>2. TrueCopy(Today, based.ses.snap)
      BY <1>1, <3>1 DEF TrueCopy, NoSnapshot
    <3> QED BY <1>1, <3>1, <3>2 DEF TruePage
  <2> HIDE DEF based
  <2>8. TruePage(loaded) /\ loaded.calls = page.calls /\ loaded.ses.timer = page.ses.timer
    BY <2>5, <2>7, ApplyRemoteIsTrue DEF SyncInv
  <2> HIDE DEF loaded
  <2>9. TruePage([loaded EXCEPT !.calls[s] = d])
    BY <2>2, <2>8, CallReplaced
  <2>10. Running([loaded EXCEPT !.calls[s] = d])
    <3> DEFINE u == [loaded EXCEPT !.calls[s] = d]
    <3>1. /\ u.ses = loaded.ses /\ u.calls[s] = d
          /\ \A t \in Slots \ {s} : u.calls[t] = page.calls[t]
      BY <2>8 DEF TruePage, Page
    <3> HIDE DEF u
    <3>2. Running(u)
      BY <1>1, <2>2, <2>8, <3>1 DEF Running, Passive
    <3> QED BY <3>2 DEF u
  <2> QED BY <2>4, <2>9, <2>10, PageStep DEF SyncInv
<1> QED BY <1>3, <1>4, ZenonT(60) DEF LoadEnds

(* The start of a session ends, with an upload or without.                 *)
LEMMA StartEndsIsTrue ==
    ASSUME NEW q, TruePage(q), Running(q), NEW s \in Slots,
           NEW c \in Call, TrueCall(c), c.mine
    PROVE  TruePage(StartEnds(q, s, c)) /\ Running(StartEnds(q, s, c))
<1> DEFINE P == {a \in Agents : c.plans[a] # Nothing}
           st == IF c.over THEN "conflict" ELSE "synced"
           e == Put(q, "upload", P, c.plans)
           d == [e EXCEPT !.over = c.over]
           u == [q EXCEPT !.status = "saving"]
           v == [q EXCEPT !.calls[s] = Idle]
<1>1. c.mine = TRUE /\ c.over \in BOOLEAN /\ c.plans \in [Agents -> Content \cup {Nothing}]
  BY DEF Call
<1>2. CASE P # {}
  <2>1. StartEnds(q, s, c) = [q EXCEPT !.status = "saving", !.calls[s] = d]
    BY <1>1, <1>2, ZenonT(60) DEF StartEnds, TruePage
  <2>2. d \in Call /\ TrueCall(d) /\ d.kind # "load"
    <3>1. e \in Call /\ TrueCall(e) /\ e.kind = "upload" /\ e.phase = "sent"
      <4>1. P \in SUBSET Agents
        OBVIOUS
      <4> HIDE DEF P
      <4> QED BY <1>1, <4>1, PutIsTrue
    <3> HIDE DEF e
    <3>2. d \in Call /\ d.kind = e.kind /\ d.date = e.date /\ d.then = e.then
          /\ d.mine = e.mine /\ d.rows = e.rows /\ d.phase = e.phase
      BY <1>1, <3>1 DEF Call
    <3> HIDE DEF d
    <3> QED BY <3>1, <3>2 DEF TrueCall, Passive
  <2> HIDE DEF d
  <2>3. TruePage(u) /\ Running(u)
    BY StatusReplaced
  <2>4. StartEnds(q, s, c) = [u EXCEPT !.calls[s] = d]
    BY <2>1 DEF TruePage, Page
  <2> HIDE DEF u
  <2> QED BY <2>2, <2>3, <2>4, CallReplaced
<1>3. CASE P = {}
  <2>1. StartEnds(q, s, c) = [q EXCEPT !.calls[s] = Idle, !.status = st]
    BY <1>1, <1>3 DEF StartEnds
  <2>2. TruePage(v) /\ Running(v)
    BY IdleIsTrue, CallReplaced DEF Passive
  <2>3. StartEnds(q, s, c) = [v EXCEPT !.status = st]
    BY <2>1 DEF TruePage, Page
  <2>4. st \in {"idle", "loading", "saving", "synced", "offline", "conflict"}
    OBVIOUS
  <2> HIDE DEF v, st
  <2> QED BY <2>2, <2>3, <2>4, StatusReplaced
<1> QED BY <1>2, <1>3

(* the labour law is there, or cannot be had,                              *)
LEMMA LawEndsStep ==
    ASSUME SyncInv, NEW s \in Slots, LawEnds(s)
    PROVE  SyncInv'
<1> DEFINE c == page.calls[s]
           q == [page EXCEPT !.ses.ready = TRUE]
           d == [c EXCEPT !.kind = "policy"]
<1>1. Running(page) /\ TruePage(page)
  BY ActiveIsRunning DEF SyncInv, LawEnds
<1>2. c \in Call /\ TrueCall(c) /\ c.mine
  BY <1>1 DEF TruePage, Page, TrueCall, Passive, LawEnds
<1>3. TruePage(q) /\ Running(q) /\ q.calls = page.calls
  <2>1. /\ q \in Page /\ q.open = page.open /\ q.saved = page.saved /\ q.calls = page.calls
        /\ q.ses.on = page.ses.on /\ q.ses.snap = page.ses.snap
        /\ q.ses.timer = page.ses.timer
    BY <1>1 DEF TruePage, Page, Session
  <2> HIDE DEF q
  <2> QED BY <1>1, <2>1 DEF TruePage, Running
<1>4. UNCHANGED <<stored, log, used>>
  BY DEF LawEnds, Mutate
<1>5. page' = StartEnds(q, s, c) \/ page' = [q EXCEPT !.calls[s].kind = "policy"]
  BY <1>2 DEF LawEnds, Mutate
<1> HIDE DEF q
<1>6. CASE page' = StartEnds(q, s, c)
  <2>1. TruePage(StartEnds(q, s, c)) /\ Running(StartEnds(q, s, c))
    BY <1>2, <1>3, StartEndsIsTrue
  <2> QED BY <1>4, <1>6, <2>1, PageStep DEF SyncInv
<1>7. CASE page' = [q EXCEPT !.calls[s].kind = "policy"]
  <2>1. page' = [q EXCEPT !.calls[s] = d]
    BY <1>3, <1>7 DEF TruePage, Page
  <2>2. d \in Call /\ d.kind = "policy" /\ d.date = c.date /\ d.then = c.then
        /\ d.mine = c.mine /\ d.rows = c.rows
    BY <1>2 DEF Call
  <2>3. c.kind = "law"
    BY DEF LawEnds
  <2> HIDE DEF c, d
  <2>4. TrueCall(d)
    BY <1>2, <2>2, <2>3 DEF TrueCall, Passive
  <2> QED BY <1>3, <1>4, <2>1, <2>2, <2>4, CallReplaced, PageStep DEF SyncInv
<1> QED BY <1>5, <1>6, <1>7

(* the labour law chosen here has been sent, or could not be,              *)
LEMMA PolicyEndsStep ==
    ASSUME SyncInv, NEW s \in Slots, PolicyEnds(s)
    PROVE  SyncInv'
<1> DEFINE c == page.calls[s]
<1>1. Running(page) /\ TruePage(page)
  BY ActiveIsRunning DEF SyncInv, PolicyEnds
<1>2. c \in Call /\ TrueCall(c) /\ c.mine
  BY <1>1 DEF TruePage, Page, TrueCall, Passive, PolicyEnds
<1>3. page' = StartEnds(page, s, c) /\ UNCHANGED <<stored, log, used>>
  BY DEF PolicyEnds, Mutate
<1>4. TruePage(StartEnds(page, s, c)) /\ Running(StartEnds(page, s, c))
  BY <1>1, <1>2, StartEndsIsTrue
<1> QED BY <1>3, <1>4, PageStep DEF SyncInv

(* The answer of a PUT makes the snapshot true of what was sent.           *)
LEMMA AcknowledgedIsTrue ==
    ASSUME SyncInv, NEW s \in Slots, Running(page),
           page.calls[s].kind \in {"save", "upload"}, page.calls[s].phase = "done"
    PROVE  LET q == Acknowledged(page.calls[s])
           IN  TruePage(q) /\ Running(q) /\ q.calls = page.calls
<1> DEFINE c == page.calls[s]
           put(a) == c.plans[a] # Nothing
           snap == [versions |-> [a \in Agents |-> IF put(a) THEN c.rows[a].version
                                                   ELSE page.ses.snap.versions[a]],
                    synced |-> [a \in Agents |-> IF put(a) THEN c.plans[a]
                                                 ELSE page.ses.snap.synced[a]]]
           q == [page EXCEPT !.ses.snap = snap, !.saved[Today] = snap, !.status = "synced"]
<1>0. Today \in Dates /\ page.open = Today /\ page \in Page
  BY ConstantsAssumption DEF SyncInv, TruePage
<1>1. c \in Call /\ TrueCall(c)
  BY DEF SyncInv, TruePage, Page
<1>2. snap \in Snapshot
  <2>1. \A a \in Agents : c.rows[a].version \in Version
    BY <1>1 DEF Call, Row
  <2>2. c.plans \in [Agents -> Content \cup {Nothing}]
    BY <1>1 DEF Call
  <2>3. page.ses.snap \in Snapshot
    BY <1>0 DEF Page, Session
  <2> HIDE DEF c
  <2> QED BY <2>1, <2>2, <2>3 DEF Snapshot
<1>3. TrueCopy(Today, snap)
  <2> SUFFICES ASSUME NEW a \in Agents, snap.synced[a] # Nothing, snap.versions[a] # 0
               PROVE  [version |-> snap.versions[a], day |-> snap.synced[a]] \in log[Today][a]
    BY DEF TrueCopy
  <2>1. CASE put(a)
    <3>1. c.rows[a] \in log[Today][a] /\ c.rows[a].day = c.plans[a]
      BY <1>1, <2>1 DEF TrueCall, Loadable, Passive
    <3>2. c.rows[a] = [version |-> c.rows[a].version, day |-> c.rows[a].day]
      BY <1>1 DEF Call, Row
    <3>3. snap.versions[a] = c.rows[a].version /\ snap.synced[a] = c.plans[a]
      BY <2>1
    <3> HIDE DEF snap, c
    <3> QED BY <3>1, <3>2, <3>3
  <2>2. CASE ~put(a)
    <3>1. snap.versions[a] = page.ses.snap.versions[a]
          /\ snap.synced[a] = page.ses.snap.synced[a]
      BY <2>2
    <3> HIDE DEF snap, c
    <3> QED BY <3>1 DEF SyncInv, TruePage, TrueCopy
  <2> QED BY <2>1, <2>2
<1>4. Acknowledged(c) = q
  <2> DEFINE m == [page EXCEPT !.ses.snap.versions = snap.versions,
                               !.ses.snap.synced = snap.synced, !.status = "synced"]
  <2>1. Acknowledged(c) = Persisted(m)
    BY <1>0 DEF Acknowledged, Page, Session, Snapshot
  <2> HIDE DEF snap
  <2>2. [page.ses EXCEPT !.snap.versions = snap.versions, !.snap.synced = snap.synced]
        = [page.ses EXCEPT !.snap = snap]
    <3>1. page.ses \in Session
      BY <1>0 DEF Page
    <3> QED BY <1>2, <3>1, SnapshotReplaced, Zenon
  <2> HIDE DEF c
  <2>3. m = [page EXCEPT !.ses = [page.ses EXCEPT !.snap = snap], !.status = "synced"]
    <3>1. m = [page EXCEPT !.ses = [page.ses EXCEPT !.snap.versions = snap.versions,
                                                    !.snap.synced = snap.synced],
                           !.status = "synced"]
      BY <1>0 DEF Page, Session
    <3> QED BY <2>2, <3>1, Zenon
  <2> HIDE DEF m
  <2>4. m.open = Today /\ m.ses.snap = snap
    <3>1. [page.ses EXCEPT !.snap = snap].snap = snap
      BY <1>0 DEF Page, Session
    <3>2. m.open = page.open /\ m.ses = [page.ses EXCEPT !.snap = snap]
      BY <1>0, <2>3 DEF Page
    <3> QED BY <1>0, <3>1, <3>2
  <2> QED BY <1>0, <2>1, <2>3, <2>4, ZenonT(60) DEF Persisted, Page, Session
<1> HIDE DEF snap
<1>5. /\ q \in Page /\ q.open = page.open /\ q.calls = page.calls
      /\ q.ses.on = page.ses.on /\ q.ses.timer = page.ses.timer
      /\ q.ses.snap = snap /\ q.saved = [page.saved EXCEPT ![Today] = snap]
  BY <1>0, <1>2 DEF Page, Session
<1> HIDE DEF q
<1>6. TruePage(q)
  BY <1>0, <1>3, <1>5 DEF SyncInv, TruePage, Page
<1>7. Running(q)
  BY <1>5 DEF Running
<1> QED BY <1>4, <1>5, <1>6, <1>7

(* The answer of a PUT reaches the page,                                   *)
LEMMA PushEndsStep ==
    ASSUME SyncInv, NEW s \in Slots, PushEnds(s)
    PROVE  SyncInv'
<1> DEFINE c == page.calls[s]
<1>1. Running(page) /\ TruePage(page) /\ page \in Page
  BY ActiveIsRunning, SMTT(60) DEF SyncInv, TruePage, PushEnds
<1>2. c \in Call /\ TrueCall(c) /\ c.mine /\ c.kind \in {"save", "upload"}
  BY <1>1 DEF TruePage, Page, TrueCall, Passive, PushEnds
<1>3. UNCHANGED <<stored, log, used>>
  BY DEF PushEnds, Mutate
<1>4. ASSUME NEW p, TruePage(p), Running(p), p.calls = page.calls,
             page' = PushEnded(p, s, c.kind)
      PROVE  SyncInv'
  <2>1. TruePage(PushEnded(p, s, c.kind)) /\ Running(PushEnded(p, s, c.kind))
    BY <1>2, <1>4, PushEndedIsTrue
  <2> QED BY <1>3, <1>4, <2>1, PageStep DEF SyncInv
<1>5. CASE c.phase = "done"
  <2>1. page' = PushEnded(Acknowledged(c), s, c.kind)
    BY <1>2, <1>5 DEF PushEnds, Mutate
  <2> QED BY <1>1, <1>2, <1>4, <1>5, <2>1, AcknowledgedIsTrue
<1>6. CASE c.phase = "failed"
  <2>1. page' = PushEnded(RetryLater, s, c.kind)
    BY <1>2, <1>6 DEF PushEnds, Mutate
  <2> DEFINE q == RetryLater
  <2>2. /\ q \in Page /\ q.open = page.open /\ q.saved = page.saved /\ q.calls = page.calls
        /\ q.ses.on = page.ses.on /\ q.ses.snap = page.ses.snap
        /\ q.ses.timer = "flush"
    <3>1. (IF page.ses.timer = "none" THEN page.orphans ELSE page.orphans + 1) \in Nat
      BY <1>1 DEF Page
    <3> QED BY <1>1, <3>1 DEF RetryLater, Page, Session
  <2> HIDE DEF q
  <2>3. TruePage(q) /\ Running(q)
    BY <1>1, <2>2 DEF TruePage, Running
  <2> QED BY <1>4, <2>1, <2>2, <2>3 DEF q
<1>7. CASE c.phase = "refused"
  <2> DEFINE d == [c EXCEPT !.kind = "reload", !.phase = "sent", !.owner = c.kind,
                            !.plans = NoPlans, !.base = NoBase]
  <2>1. page' = [page EXCEPT !.calls[s] = d]
    BY <1>1, <1>2, <1>7 DEF PushEnds, Mutate, Page
  <2>2. /\ d \in Call /\ d.kind = "reload" /\ d.date = c.date /\ d.then = c.then
        /\ d.mine = c.mine /\ d.rows = c.rows
    BY <1>2, IdleIsTrue DEF Call
  <2> HIDE DEF d
  <2>3. TrueCall(d)
    BY <1>2, <2>2 DEF TrueCall, Passive
  <2> QED BY <1>1, <1>3, <2>1, <2>2, <2>3, CallReplaced, PageStep DEF SyncInv
<1> QED BY <1>5, <1>6, <1>7 DEF PushEnds

(* the rows there are reach it after a refusal,                            *)
LEMMA ReloadEndsStep ==
    ASSUME SyncInv, NEW s \in Slots, ReloadEnds(s)
    PROVE  SyncInv'
<1> DEFINE c == page.calls[s]
           rows == IF c.phase = "done" THEN c.rows ELSE NoRows
           q == ApplyRemote(page, rows)
           r == [q EXCEPT !.status = "conflict"]
<1>1. Running(page) /\ TruePage(page)
  BY ActiveIsRunning DEF SyncInv, ReloadEnds
<1>2. c \in Call /\ TrueCall(c) /\ c.mine /\ c.date = Today
  BY <1>1 DEF TruePage, Page, TrueCall, Passive, ReloadEnds
<1>3. rows \in [Agents -> Row] /\ Loadable(Today, rows)
  <2>1. c.rows \in [Agents -> Row] /\ Loadable(Today, c.rows)
    BY <1>2 DEF Call, TrueCall
  <2>2. Today \in Dates
    BY ConstantsAssumption
  <2> HIDE DEF c
  <2> QED BY <2>1, <2>2, IdleIsTrue
<1>4. page' = PushEnded(r, s, c.owner) /\ UNCHANGED <<stored, log, used>>
  BY <1>2 DEF ReloadEnds, Mutate
<1> HIDE DEF rows
<1>5. TruePage(q) /\ Running(q) /\ q.calls = page.calls
  BY <1>1, <1>3, ApplyRemoteIsTrue DEF SyncInv
<1> HIDE DEF q
<1>6. TruePage(r) /\ Running(r) /\ r.calls = page.calls
  BY <1>5, StatusReplaced
<1> HIDE DEF r
<1>7. TruePage(PushEnded(r, s, c.owner)) /\ Running(PushEnded(r, s, c.owner))
  BY <1>2, <1>6, PushEndedIsTrue
<1> QED BY <1>4, <1>7, PageStep DEF SyncInv

(* A PUT nobody waits for any more.                                        *)
LEMMA UnawaitedIsTrue ==
    ASSUME NEW c \in Call, TrueCall(c)
    PROVE  Unawaited(c) \in Call /\ TrueCall(Unawaited(c)) /\ Unawaited(c).kind = "gone"
<1> DEFINE d == [Idle EXCEPT !.kind = "gone", !.phase = c.phase, !.date = c.date,
                             !.plans = c.plans, !.base = c.base, !.rows = c.rows]
<1>1. /\ d \in Call /\ d.kind = "gone" /\ d.date = c.date /\ d.then = Idle.then
      /\ d.rows = c.rows
  BY IdleIsTrue DEF Call
<1>2. d = Unawaited(c)
  BY DEF Unawaited
<1> HIDE DEF d
<1>3. TrueCall(d)
  BY <1>1, IdleIsTrue DEF TrueCall, Passive
<1> QED BY <1>1, <1>2, <1>3

(* the page is loaded again.                                               *)
LEMMA PageReloadsStep ==
    ASSUME SyncInv, PageReloads
    PROVE  SyncInv'
<1> DEFINE left == [t \in Slots |->
                IF UnderWay(page.calls[t]) THEN Unawaited(page.calls[t])
                ELSE IF page.calls[t].kind = "gone" THEN page.calls[t] ELSE Idle]
           p == [page EXCEPT !.calls = left, !.orphans = 0, !.open = Today]
<1>1. TruePage(page) /\ page \in Page /\ page.open = Today
  BY DEF SyncInv, TruePage
<1>2. \A t \in Slots : left[t] \in Call /\ TrueCall(left[t]) /\ Passive(left[t])
  <2> SUFFICES ASSUME NEW t \in Slots
               PROVE  left[t] \in Call /\ TrueCall(left[t]) /\ Passive(left[t])
    BY ZenonT(60)
  <2>1. page.calls[t] \in Call /\ TrueCall(page.calls[t])
    BY <1>1, SMTT(60) DEF TruePage, Page
  <2>2. CASE UnderWay(page.calls[t])
    BY <2>1, <2>2, UnawaitedIsTrue DEF Passive
  <2>3. CASE ~UnderWay(page.calls[t])
    BY <2>1, <2>3, IdleIsTrue DEF Passive
  <2> QED BY <2>2, <2>3, SMTT(60)
<1>3. PICK s \in Slots : page' = Started(p, s)
  BY Zenon DEF PageReloads
<1>4. left \in [Slots -> Call]
  BY <1>2, ZenonT(60)
<1> HIDE DEF left
<1>5. /\ p \in Page /\ p.open = page.open /\ p.saved = page.saved /\ p.ses = page.ses
      /\ p.orphans = 0 /\ p.calls = left
  BY <1>1, <1>4, ConstantsAssumption DEF Page
<1> HIDE DEF p
<1>6. TruePage(p)
  BY <1>1, <1>2, <1>5 DEF TruePage
<1>7. TruePage(page') /\ Starting(page')
  BY <1>2, <1>3, <1>5, <1>6, StartedIsTrue
<1>8. UNCHANGED <<stored, log>> /\ used' \in [edits : Nat, others : Nat, faults : Nat]
  BY UsedMore, Zenon DEF PageReloads, SyncInv
<1> QED BY <1>3, <1>7, <1>8, PageStep

-----------------------------------------------------------------------------
(* The server and the network.                                             *)

(* A step that answers, refuses or carries on with one call.               *)
LEMMA AnswerIsTrue ==
    ASSUME SyncInv, NEW s \in Slots, NEW phase \in {"checked", "done", "refused", "failed"},
           NEW rows \in [Agents -> Row], Loadable(page.calls[s].date, rows),
           phase = "done" => page.calls[s].kind \notin {"save", "upload"},
           Answer(s, phase, rows), UNCHANGED <<stored, log, used>>
    PROVE  SyncInv'
<1> DEFINE c == page.calls[s]
           e == [c EXCEPT !.phase = phase, !.rows = rows]
           d == IF c.kind = "gone" /\ phase # "checked" THEN Idle ELSE e
<1>0. page \in Page /\ c \in Call /\ TrueCall(c)
  BY DEF SyncInv, TruePage, Page
<1>1. page' = [page EXCEPT !.calls[s] = d]
  BY <1>0 DEF Answer, Page
<1>2. /\ e \in Call /\ e.kind = c.kind /\ e.date = c.date /\ e.then = c.then
      /\ e.mine = c.mine /\ e.rows = rows /\ e.phase = phase
  BY <1>0 DEF Call
<1>3. (d = Idle /\ Passive(c)) \/ d = e
  BY DEF Passive
<1> HIDE DEF d, e
<1>4. TrueCall(e)
  BY <1>0, <1>2 DEF TrueCall, Passive
<1> HIDE DEF c
<1>5. d \in Call /\ TrueCall(d) /\ (d.kind = c.kind \/ (Passive(c) /\ Passive(d)))
  BY <1>2, <1>3, <1>4, IdleIsTrue
<1>6. TruePage([page EXCEPT !.calls[s] = d]) /\ Starting([page EXCEPT !.calls[s] = d])
  BY <1>5, CallReplaced DEF SyncInv, c
<1> QED BY <1>1, <1>6, PageStep DEF SyncInv

(* The server answers a request for rows,                                  *)
LEMMA ReadStep ==
    ASSUME SyncInv, NEW s \in Slots, ServeRead(s)
    PROVE  SyncInv'
<1> DEFINE c == page.calls[s]
<1>1. page \in Page /\ c \in Call /\ c.kind \in {"load", "reload", "pull"}
  BY DEF SyncInv, TruePage, Page, ServeRead
<1>2. stored[c.date] \in [Agents -> Row] /\ Loadable(c.date, stored[c.date])
  <2>1. c.date \in Dates
    BY <1>1 DEF Call
  <2> QED BY <2>1 DEF SyncInv
<1>3. UNCHANGED <<stored, log, used>>
  BY DEF ServeRead
<1>4. Answer(s, "done", stored[c.date])
  BY <1>1 DEF ServeRead, Answer, Page
<1> QED BY <1>1, <1>2, <1>3, <1>4, AnswerIsTrue

(* checks a save,                                                          *)
LEMMA CheckStep ==
    ASSUME SyncInv, NEW s \in Slots, CheckSave(s)
    PROVE  SyncInv'
<1> DEFINE c == page.calls[s]
<1>1. c.date \in Dates /\ c.kind \in {"save", "upload", "gone"}
  BY DEF SyncInv, TruePage, Page, Call, CheckSave
<1>2. stored[c.date] \in [Agents -> Row] /\ Loadable(c.date, stored[c.date])
  BY <1>1 DEF SyncInv
<1>3. NoRows \in [Agents -> Row] /\ Loadable(c.date, NoRows)
  BY <1>1, IdleIsTrue
<1>4. \/ Answer(s, "failed", NoRows) \/ Answer(s, "refused", NoRows)
      \/ Answer(s, "checked", stored[c.date])
  BY DEF CheckSave
<1>5. UNCHANGED <<stored, log, used>>
  BY DEF CheckSave
<1> HIDE DEF c
<1> QED BY <1>1, <1>2, <1>3, <1>4, <1>5, AnswerIsTrue DEF c

(* learns that somebody else saves,                                        *)
LEMMA OtherStep ==
    ASSUME SyncInv, NEW s \in Slots, NEW d \in Dates, NEW a \in Agents, OtherSaves(s, d, a)
    PROVE  SyncInv'
<1> DEFINE day == (stored[d][a].day \ {0}) \cup {MaxEdits + used.others + 1}
           plans == [NoPlans EXCEPT ![a] = day]
           c == [Idle EXCEPT !.kind = "gone", !.phase = "checked", !.date = d,
                             !.plans = plans, !.rows = stored[d]]
<1>1. day \in Content
  <2>1. stored[d][a].day \in Content
    BY DEF SyncInv, Row
  <2>2. MaxEdits + used.others + 1 \in Nat
    BY ConstantsAssumption DEF SyncInv
  <2> QED BY <2>1, <2>2 DEF Content
<1> HIDE DEF day
<1>2. plans \in [Agents -> Content \cup {Nothing}]
  BY <1>1, IdleIsTrue
<1>3. stored[d] \in [Agents -> Row] /\ Loadable(d, stored[d])
  BY DEF SyncInv
<1> HIDE DEF plans
<1>4. c \in Call /\ c.kind = "gone" /\ c.date = d /\ c.then = Idle.then /\ c.rows = stored[d]
  BY <1>2, <1>3, IdleIsTrue DEF Call
<1>5. page' = [page EXCEPT !.calls[s] = c] /\ UNCHANGED <<stored, log>>
  BY DEF OtherSaves, plans, day
<1> HIDE DEF c
<1>6. TrueCall(c) /\ Passive(c)
  BY <1>3, <1>4, IdleIsTrue DEF TrueCall, Passive
<1>7. Passive(page.calls[s])
  BY DEF OtherSaves, Free, Passive
<1>8. TruePage([page EXCEPT !.calls[s] = c]) /\ Starting([page EXCEPT !.calls[s] = c])
  BY <1>4, <1>6, <1>7, CallReplaced DEF SyncInv
<1>9. used' \in [edits : Nat, others : Nat, faults : Nat]
  BY UsedMore DEF OtherSaves, SyncInv
<1> QED BY <1>5, <1>8, <1>9, PageStep

(* a request or an answer is lost,                                         *)
LEMMA LostStep ==
    ASSUME SyncInv, NEW s \in Slots, Lost(s)
    PROVE  SyncInv'
<1> DEFINE c == page.calls[s]
           d == [c EXCEPT !.phase = "failed", !.rows = NoRows]
           p == [page EXCEPT !.calls[s] = d]
<1>1. c \in Call /\ TrueCall(c) /\ page \in Page /\ TruePage(page) /\ Starting(page)
      /\ c.kind # "idle"
  BY DEF SyncInv, TruePage, Page, Lost
<1>2. d \in Call /\ TrueCall(d) /\ d.kind = c.kind
  <2>1. NoRows \in [Agents -> Row] /\ Loadable(c.date, NoRows)
    BY <1>1, IdleIsTrue DEF Call
  <2>2. d \in Call /\ d.kind = c.kind /\ d.date = c.date /\ d.then = c.then
        /\ d.mine = c.mine /\ d.rows = NoRows /\ d.phase = "failed"
    BY <1>1, <2>1 DEF Call
  <2> HIDE DEF d
  <2> QED BY <1>1, <2>1, <2>2 DEF TrueCall, Passive
<1>3. /\ \/ page' = p
         \/ \E t \in Slots : Free(t) /\ page' = [p EXCEPT !.calls[t] = Unawaited(c)]
      /\ UNCHANGED <<stored, log>>
  BY DEF Lost
<1>4. used' \in [edits : Nat, others : Nat, faults : Nat]
  BY UsedMore DEF Lost, SyncInv
<1> HIDE DEF d
<1>5. TruePage(p) /\ Starting(p) /\ p.calls = [page.calls EXCEPT ![s] = d]
  BY <1>1, <1>2, CallReplaced
<1> HIDE DEF p
<1>6. CASE page' = p
  BY <1>3, <1>4, <1>5, <1>6, PageStep
<1>7. ASSUME NEW t \in Slots, Free(t), page' = [p EXCEPT !.calls[t] = Unawaited(c)]
      PROVE  SyncInv'
  <2>1. Unawaited(c) \in Call /\ TrueCall(Unawaited(c)) /\ Unawaited(c).kind = "gone"
    BY <1>1, UnawaitedIsTrue
  <2>2. t # s
    BY <1>1, <1>7 DEF Free
  <2>3. p.calls[t].kind = "idle"
    BY <1>1, <1>5, <1>7, <2>2 DEF Free, Page
  <2> HIDE DEF c
  <2>4. /\ TruePage([p EXCEPT !.calls[t] = Unawaited(c)])
        /\ Starting([p EXCEPT !.calls[t] = Unawaited(c)])
    BY <1>5, <2>1, <2>3, CallReplaced DEF Passive
  <2> QED BY <1>3, <1>4, <1>7, <2>4, PageStep
<1> QED BY <1>3, <1>6, <1>7

(* What was true of the rows there were stays true of more.                *)
LEMMA TruthStays ==
    ASSUME SyncInv, \A d \in Dates, a \in Agents : log[d][a] \subseteq log'[d][a]
    PROVE  /\ page'.ses = page.ses => TrueCopy(Today, page.ses.snap)'
           /\ page'.saved = page.saved => \A d \in Dates : TrueCopy(d, page.saved[d])'
           /\ \A t \in Slots : page'.calls[t] = page.calls[t] => TrueCall(page.calls[t])'
<1>0. Today \in Dates
  BY ConstantsAssumption
<1>1. page'.ses = page.ses => TrueCopy(Today, page.ses.snap)'
  BY <1>0 DEF SyncInv, TruePage, TrueCopy
<1>2. page'.saved = page.saved => \A d \in Dates : TrueCopy(d, page.saved[d])'
  BY DEF SyncInv, TruePage, TrueCopy
<1>3. ASSUME NEW t \in Slots, page'.calls[t] = page.calls[t]
      PROVE  TrueCall(page.calls[t])'
  <2> DEFINE c == page.calls[t]
  <2>1. TrueCall(c) /\ c.date \in Dates
    BY DEF SyncInv, TruePage, Page, Call
  <2>2. \A a \in Agents : c.rows[a].version # 0 => c.rows[a] \in log'[c.date][a]
    BY <2>1 DEF TrueCall, Loadable
  <2>3. page'.calls[t] = c
    BY <1>3
  <2> HIDE DEF c
  <2> QED BY <2>1, <2>2, <2>3 DEF TrueCall, Loadable, Passive
<1> QED BY <1>1, <1>2, <1>3

(* A day gets a version: the row as it is stored, and as it is answered.   *)
Saved(old, new) == \E r, q \in Row :
    /\ new = old \cup {r, q}
    /\ r.version = q.version
    /\ r.version = 1 \/ \E o \in old : r.version = o.version + 1

(* A step that changes what the server has saves days of one date: those   *)
(* of the agents I.                                                        *)
Saves(d, I) == \A e \in Dates, a \in Agents :
    IF e = d /\ a \in I THEN Saved(log[e][a], log'[e][a]) ELSE log'[e][a] = log[e][a]

(* What an UPDATE leaves is a day.                                         *)
LEMMA MergedIsContent ==
    ASSUME NEW read \in Content, NEW mine \in Content, NEW now \in Content,
           NEW r \in Merged(read, mine, now)
    PROVE  r \in Content
BY DEF Merged, Content

(* A save that has been checked is carried out, or fails.                  *)
LEMMA StoreSaves ==
    ASSUME SyncInv, NEW s \in Slots, StoreSave(s)
    PROVE  \/ Answer(s, "failed", NoRows) /\ UNCHANGED <<stored, log>>
           \/ \E said \in [Agents -> Row] :
                 LET c == page.calls[s]
                     I == {a \in Agents : c.plans[a] # Nothing}
                 IN  /\ Answer(s, "done", said)
                     /\ stored' \in [Dates -> [Agents -> Row]]
                     /\ log' \in [Dates -> [Agents -> SUBSET Row]]
                     /\ Saves(c.date, I)
                     /\ \A d \in Dates, a \in Agents :
                            stored'[d][a] = stored[d][a] \/ stored'[d][a] \in log'[d][a]
                     /\ \A a \in Agents : IF a \in I
                            THEN /\ said[a] \in log'[c.date][a] /\ said[a].version # 0
                                 /\ said[a].day = c.plans[a]
                            ELSE said[a].version = 0
<1> DEFINE c == page.calls[s]
           now == stored[c.date]
           outcomes(a) == IF InPut(c, a) THEN Merged(c.rows[a].day, c.plans[a], now[a].day)
                          ELSE {now[a].day}
           said == [a \in Agents |-> IF InPut(c, a)
                       THEN [version |-> c.rows[a].version + 1, day |-> c.plans[a]] ELSE NoRow]
           failed == Answer(s, "failed", NoRows) /\ UNCHANGED <<stored, log>>
<1> SUFFICES ASSUME ~failed
             PROVE  LET I == {a \in Agents : c.plans[a] # Nothing}
                    IN  /\ said \in [Agents -> Row]
                        /\ Answer(s, "done", said)
                        /\ stored' \in [Dates -> [Agents -> Row]]
                        /\ log' \in [Dates -> [Agents -> SUBSET Row]]
                        /\ Saves(c.date, I)
                        /\ \A d \in Dates, a \in Agents :
                               stored'[d][a] = stored[d][a] \/ stored'[d][a] \in log'[d][a]
                        /\ \A a \in Agents : IF a \in I
                               THEN /\ said[a] \in log'[c.date][a] /\ said[a].version # 0
                                    /\ said[a].day = c.plans[a]
                               ELSE said[a].version = 0
  OBVIOUS
<1>1. /\ c \in Call /\ TrueCall(c) /\ c.date \in Dates
      /\ c.plans \in [Agents -> Content \cup {Nothing}] /\ c.rows \in [Agents -> Row]
  BY DEF SyncInv, TruePage, Page, Call
<1>2. PICK days \in [Agents -> UNION {outcomes(a) : a \in Agents}] :
          /\ \A a \in Agents : days[a] \in outcomes(a)
          /\ stored' = [stored EXCEPT ![c.date] = [a \in Agents |->
                 IF InPut(c, a) THEN [said[a] EXCEPT !.day = days[a]] ELSE @[a]]]
          /\ log' = [log EXCEPT ![c.date] = [a \in Agents |->
                 IF InPut(c, a) THEN @[a] \cup {said[a], stored'[c.date][a]} ELSE @[a]]]
          /\ Answer(s, "done", said)
  BY Zenon DEF StoreSave
<1>3. now \in [Agents -> Row]
  BY <1>1 DEF SyncInv
<1>4. ASSUME NEW a \in Agents, InPut(c, a)
      PROVE  /\ said[a] \in Row /\ said[a].version = c.rows[a].version + 1
             /\ said[a].day = c.plans[a] /\ days[a] \in Content
  <2>1. c.plans[a] \in Content /\ c.rows[a] \in Row
    BY <1>1, <1>4 DEF InPut
  <2>2. said[a] = [version |-> c.rows[a].version + 1, day |-> c.plans[a]]
    BY <1>4
  <2>3. days[a] \in Merged(c.rows[a].day, c.plans[a], now[a].day)
    BY <1>2, <1>4
  <2> HIDE DEF said, c, now
  <2>4. c.rows[a].version \in Nat /\ c.rows[a].day \in Content /\ now[a].day \in Content
    BY <1>3, <2>1 DEF Row, Version
  <2>5. days[a] \in Content
    BY <2>1, <2>3, <2>4, MergedIsContent
  <2> QED BY <2>1, <2>2, <2>4, <2>5 DEF Row, Version
<1>5. \A a \in Agents : ~InPut(c, a) => said[a] = NoRow
  OBVIOUS
<1>6. NoRow \in Row /\ NoRow.version = 0
  BY DEF NoRow, Row, Version, Content
<1>7. said \in [Agents -> Row]
  <2>1. said = [a \in Agents |-> said[a]]
    OBVIOUS
  <2> HIDE DEF said
  <2> QED BY <1>4, <1>5, <1>6, <2>1
<1> DEFINE row == [a \in Agents |-> IF InPut(c, a) THEN [said[a] EXCEPT !.day = days[a]]
                                    ELSE stored[c.date][a]]
           rows == [a \in Agents |-> IF InPut(c, a)
                        THEN log[c.date][a] \cup {said[a], stored'[c.date][a]}
                        ELSE log[c.date][a]]
<1>8. stored' = [stored EXCEPT ![c.date] = row] /\ log' = [log EXCEPT ![c.date] = rows]
  BY <1>2
<1> HIDE DEF said
<1>9. \A a \in Agents : /\ row[a] \in Row
                        /\ InPut(c, a) => row[a].version = said[a].version
                        /\ ~InPut(c, a) => row[a] = stored[c.date][a]
  <2> TAKE a \in Agents
  <2>1. CASE InPut(c, a)
    <3>1. row[a] = [said[a] EXCEPT !.day = days[a]]
      BY <2>1
    <3> HIDE DEF row, c
    <3> QED BY <1>4, <2>1, <3>1 DEF Row
  <2>2. CASE ~InPut(c, a)
    <3>1. row[a] = stored[c.date][a]
      BY <2>2
    <3> HIDE DEF row
    <3> QED BY <1>3, <2>2, <3>1
  <2> QED BY <2>1, <2>2
<1>10. row \in [Agents -> Row]
  <2>1. row = [a \in Agents |-> row[a]]
    OBVIOUS
  <2> HIDE DEF row
  <2> QED BY <1>9, <2>1
<1> HIDE DEF row
<1>11. stored' \in [Dates -> [Agents -> Row]] /\ stored'[c.date] = row
       /\ \A d \in Dates \ {c.date} : stored'[d] = stored[d]
  BY <1>1, <1>8, <1>10 DEF SyncInv
<1>12. \A a \in Agents :
          rows[a] = IF InPut(c, a) THEN log[c.date][a] \cup {said[a], row[a]} ELSE log[c.date][a]
  BY <1>11
<1>13. rows \in [Agents -> SUBSET Row]
  <2>1. rows = [a \in Agents |-> rows[a]]
    OBVIOUS
  <2>2. \A a \in Agents : log[c.date][a] \in SUBSET Row
    BY <1>1 DEF SyncInv
  <2> HIDE DEF rows
  <2> QED BY <1>4, <1>9, <1>12, <2>1, <2>2
<1> HIDE DEF rows
<1>14. log' \in [Dates -> [Agents -> SUBSET Row]] /\ log'[c.date] = rows
       /\ \A d \in Dates \ {c.date} : log'[d] = log[d]
  BY <1>1, <1>8, <1>13 DEF SyncInv
<1>15. ASSUME NEW a \in Agents, InPut(c, a)
       PROVE  Saved(log[c.date][a], rows[a])
  <2>1. rows[a] = log[c.date][a] \cup {row[a], said[a]} /\ row[a] \in Row /\ said[a] \in Row
        /\ row[a].version = said[a].version
    BY <1>4, <1>9, <1>12, <1>15
  <2>2. row[a].version = 1 \/ \E o \in log[c.date][a] : row[a].version = o.version + 1
    <3>1. CASE c.rows[a].version = 0
      BY <1>4, <1>15, <2>1, <3>1
    <3>2. CASE c.rows[a].version # 0
      <4>1. c.rows[a] \in log[c.date][a]
        BY <1>1, <3>2 DEF TrueCall, Loadable
      <4> QED BY <1>4, <1>15, <2>1, <4>1
    <3> QED BY <3>1, <3>2
  <2> QED BY <2>1, <2>2 DEF Saved
<1>16. Saves(c.date, {a \in Agents : c.plans[a] # Nothing})
  <2>1. \A a \in Agents : ~InPut(c, a) => rows[a] = log[c.date][a]
    BY <1>12
  <2> HIDE DEF c
  <2> QED BY <1>14, <1>15, <2>1 DEF Saves, InPut
<1>17. \A d \in Dates, a \in Agents :
          stored'[d][a] = stored[d][a] \/ stored'[d][a] \in log'[d][a]
  BY <1>9, <1>11, <1>12, <1>14
<1>18. \A a \in Agents : IF InPut(c, a)
          THEN /\ said[a] \in log'[c.date][a] /\ said[a].version # 0
               /\ said[a].day = c.plans[a]
          ELSE said[a].version = 0
  <2>1. ASSUME NEW a \in Agents, InPut(c, a) PROVE said[a].version # 0
    <3>1. c.rows[a].version \in Nat
      BY <1>1 DEF Row, Version
    <3> QED BY <1>4, <2>1, <3>1
  <2> QED BY <1>4, <1>5, <1>6, <1>12, <1>14, <2>1
<1> QED BY <1>2, <1>7, <1>11, <1>14, <1>16, <1>17, <1>18 DEF InPut

(* Saved days keep the rows they have had.                                 *)
LEMMA SavesExtend ==
    ASSUME NEW d \in Dates, NEW I, Saves(d, I)
    PROVE  \A e \in Dates, a \in Agents : log[e][a] \subseteq log'[e][a]
BY DEF Saves, Saved

(* the server carries out a PUT.                                           *)
LEMMA StoreStep ==
    ASSUME SyncInv, NEW s \in Slots, StoreSave(s)
    PROVE  SyncInv'
<1> DEFINE c == page.calls[s]
           I == {a \in Agents : c.plans[a] # Nothing}
<1>0. /\ TruePage(page) /\ page \in Page /\ Starting(page)
      /\ c \in Call /\ TrueCall(c) /\ c.date \in Dates /\ UNCHANGED used
  BY DEF SyncInv, TruePage, Page, Call, StoreSave
<1>1. ASSUME Answer(s, "failed", NoRows), UNCHANGED <<stored, log>>
      PROVE  SyncInv'
  <2>1. NoRows \in [Agents -> Row] /\ Loadable(c.date, NoRows)
    BY <1>0, IdleIsTrue
  <2> QED BY <1>0, <1>1, <2>1, AnswerIsTrue
<1>2. ASSUME NEW said \in [Agents -> Row],
             Answer(s, "done", said),
             stored' \in [Dates -> [Agents -> Row]],
             log' \in [Dates -> [Agents -> SUBSET Row]],
             Saves(c.date, I),
             \A d \in Dates, a \in Agents :
                 stored'[d][a] = stored[d][a] \/ stored'[d][a] \in log'[d][a],
             \A a \in Agents : IF a \in I
                 THEN /\ said[a] \in log'[c.date][a] /\ said[a].version # 0
                      /\ said[a].day = c.plans[a]
                 ELSE said[a].version = 0
      PROVE  SyncInv'
  <2> DEFINE e == [c EXCEPT !.phase = "done", !.rows = said]
             d == IF c.kind = "gone" THEN Idle ELSE e
  <2>1. page' = [page EXCEPT !.calls[s] = d]
    BY <1>0, <1>2 DEF Answer, Page
  <2>2. \A f \in Dates, a \in Agents : log[f][a] \subseteq log'[f][a]
    BY <1>0, <1>2, SavesExtend
  <2>3. /\ e \in Call /\ e.kind = c.kind /\ e.date = c.date /\ e.then = c.then
        /\ e.mine = c.mine /\ e.rows = said /\ e.phase = "done" /\ e.plans = c.plans
    BY <1>0, <1>2 DEF Call
  <2>4. (d = Idle /\ Passive(c)) \/ (d = e /\ c.kind # "gone")
    BY DEF Passive
  <2> HIDE DEF d, e
  <2>5. d \in Call /\ (d.kind = c.kind \/ (Passive(c) /\ Passive(d)))
    BY <2>3, <2>4, IdleIsTrue
  <2>6. /\ page'.open = page.open /\ page'.ses = page.ses /\ page'.saved = page.saved
        /\ page'.orphans = page.orphans /\ page' \in Page /\ page'.calls[s] = d
        /\ \A t \in Slots \ {s} : page'.calls[t] = page.calls[t]
    BY <1>0, <2>1, <2>5 DEF Page
  <2>7. TrueCall(page.calls[s])'
    <3>1. CASE d = Idle
      <4>1. /\ d.kind = "idle" /\ d.then = Nothing /\ d.date = Today
            /\ \A a \in Agents : d.rows[a].version = 0
        BY <3>1 DEF Idle, NoRows, NoRow
      <4> QED BY <2>6, <4>1 DEF TrueCall, Passive, Loadable
    <3>2. CASE d = e /\ c.kind # "gone"
      <4>1. /\ d.date = c.date /\ d.rows = said /\ d.plans = c.plans /\ d.kind = c.kind
            /\ d.then = c.then /\ d.mine = c.mine
        BY <2>3, <3>2
      <4>2. \A a \in Agents : said[a].version # 0 => said[a] \in log'[c.date][a]
        BY <1>2
      <4>3. \A a \in Agents : c.plans[a] # Nothing =>
                said[a].version # 0 /\ said[a].day = c.plans[a]
        BY <1>2
      <4> HIDE DEF c
      <4> QED BY <1>0, <2>6, <4>1, <4>2, <4>3 DEF TrueCall, Passive, Loadable
    <3> QED BY <2>4, <3>1, <3>2
  <2>8. /\ TrueCopy(Today, page.ses.snap)'
        /\ \A f \in Dates : TrueCopy(f, page.saved[f])'
        /\ \A t \in Slots \ {s} : TrueCall(page.calls[t])'
    BY <2>2, <2>6, TruthStays
  <2>9. TruePage(page)'
    BY <1>0, <2>6, <2>7, <2>8 DEF TruePage
  <2>10. Starting(page)'
    <3>1. \A t \in Slots : Passive(page.calls[t]) => Passive(page'.calls[t])
      BY <2>5, <2>6 DEF Passive
    <3>2. \A t \in Slots : page'.calls[t].kind = "load" => page.calls[t].kind = "load"
      BY <2>5, <2>6 DEF Passive
    <3>3. Starting(page')
      BY <1>0, <2>6, <3>1, <3>2 DEF Starting
    <3> QED BY <3>3 DEF Starting, Passive
  <2>11. \A f \in Dates : Loadable(f, stored[f])'
    BY <1>2, <2>2 DEF SyncInv, Loadable
  <2> QED BY <1>0, <1>2, <2>9, <2>10, <2>11 DEF SyncInv
<1>3. \/ Answer(s, "failed", NoRows) /\ UNCHANGED <<stored, log>>
      \/ \E said \in [Agents -> Row] :
            /\ Answer(s, "done", said)
            /\ stored' \in [Dates -> [Agents -> Row]]
            /\ log' \in [Dates -> [Agents -> SUBSET Row]]
            /\ Saves(c.date, I)
            /\ \A d \in Dates, a \in Agents :
                   stored'[d][a] = stored[d][a] \/ stored'[d][a] \in log'[d][a]
            /\ \A a \in Agents : IF a \in I
                   THEN /\ said[a] \in log'[c.date][a] /\ said[a].version # 0
                        /\ said[a].day = c.plans[a]
                   ELSE said[a].version = 0
  BY StoreSaves, Zenon
<1> QED BY <1>1, <1>2, <1>3

-----------------------------------------------------------------------------
(* SyncInv is inductive, and holds.                                        *)
LEMMA StepIsTrue == SyncInv /\ [Next]_vars => SyncInv'
<1> SUFFICES ASSUME SyncInv, [Next]_vars PROVE SyncInv'
  OBVIOUS
<1>1. CASE UNCHANGED vars
  BY <1>1, PageStep DEF vars, SyncInv
<1>2. ASSUME NEW a \in Agents, NEW broken \in BOOLEAN, Edit(a, broken) PROVE SyncInv'
  BY <1>2, EditStep
<1>3. ASSUME NEW s \in Slots, Answered(s) PROVE SyncInv'
  BY <1>3, PullEndsStep, LoadEndsStep, LawEndsStep, PolicyEndsStep, PushEndsStep,
     ReloadEndsStep DEF Answered
<1>4. ASSUME NEW s \in Slots, Timed(s) PROVE SyncInv'
  BY <1>4, TimerStep, RestartStep, PullStep DEF Timed
<1>5. ASSUME NEW s \in Slots, Served(s) \/ Lost(s) PROVE SyncInv'
  BY <1>5, ReadStep, CheckStep, StoreStep, LostStep DEF Served
<1>6. ASSUME NEW s \in Slots, NEW d \in Dates, NEW a \in Agents, OtherSaves(s, d, a)
      PROVE  SyncInv'
  BY <1>6, OtherStep
<1>7. CASE PageReloads
  BY <1>7, PageReloadsStep
<1> QED BY <1>1, <1>2, <1>3, <1>4, <1>5, <1>6, <1>7 DEF Next

(* What the page knows, and what is under way, is true of the versions the *)
(* server has had (scheduleSync.ts:116-135, 210-300).                      *)
THEOREM Invariance == Spec => []SyncInv
<1> QED BY InitIsTrue, StepIsTrue, PTL DEF Spec

(* The types hold for any agents, calls and edits (scheduleSync.ts).       *)
THEOREM TypeCorrect == Spec => []TypeOK
<1>1. SyncInv => TypeOK
  BY DEF SyncInv, TypeOK, TruePage
<1> QED BY <1>1, Invariance, PTL

(* While one date is open, no snapshot pairs a version with a content the  *)
(* server's row did not have in it, whatever saves, pulls, conflicts,      *)
(* retries, losses and reloads come between (scheduleSync.ts:116-135,      *)
(* 210-227, 251-255).                                                      *)
THEOREM SnapshotsStayTrue == Spec => []SnapshotsAreTrue
<1>1. SyncInv => SnapshotsAreTrue
  BY SMTT(60) DEF SyncInv, TruePage, SnapshotsAreTrue
<1> QED BY <1>1, Invariance, PTL

-----------------------------------------------------------------------------
(* The engine implements Copies.                                           *)
Known(a) == page.ses.snap.versions[a] # 0 /\ page.ses.snap.synced[a] # Nothing

(* What the session takes for the server's days are days of one date.      *)
LEMMA CopiesAreFaithful == SyncInv => ServerCopies!Faithful
<1> SUFFICES ASSUME SyncInv, NEW a \in Agents, Known(a)
             PROVE  [version |-> page.ses.snap.versions[a],
                     day |-> page.ses.snap.synced[a]] \in log[Today][a]
  BY ConstantsAssumption DEF ServerCopies!Faithful, Known
<1> QED BY DEF SyncInv, TruePage, TrueCopy, Known

(* A session begins with no copies.                                        *)
LEMMA InitImplements == Init => ServerCopies!Init
<1> SUFFICES ASSUME Init PROVE ServerCopies!Init
  OBVIOUS
<1>1. SyncInv
  BY InitIsTrue
<1> QED BY <1>1, CopiesAreFaithful DEF ServerCopies!Init, SyncInv

(* A step that changes the log saves days of one date and nothing else.    *)
LEMMA LogSteps ==
    ASSUME SyncInv, [Next]_vars
    PROVE  \/ UNCHANGED log
           \/ page'.ses = page.ses /\ \E d \in Dates, I \in SUBSET Agents : Saves(d, I)
<1> DEFINE OneSave == page'.ses = page.ses /\ \E d \in Dates, I \in SUBSET Agents : Saves(d, I)
<1>1. ASSUME NEW s \in Slots, NEW d \in Dates, NEW a \in Agents, OtherSaves(s, d, a)
      PROVE  UNCHANGED log
  BY <1>1 DEF OtherSaves
<1>2. ASSUME NEW s \in Slots, StoreSave(s) PROVE UNCHANGED log \/ OneSave
  <2> DEFINE c == page.calls[s]
             I == {a \in Agents : c.plans[a] # Nothing}
  <2>1. UNCHANGED log \/ Saves(c.date, I)
    BY <1>2, StoreSaves
  <2>2. page'.ses = page.ses
    <3>1. page \in Page
      BY DEF SyncInv, TruePage
    <3>2. \E phase, rows : Answer(s, phase, rows)
      BY <1>2, StoreSaves
    <3> QED BY <3>1, <3>2 DEF Answer, Page
  <2>3. c.date \in Dates /\ I \in SUBSET Agents
    <3>1. c \in Call
      BY DEF SyncInv, TruePage, Page
    <3> QED BY <3>1 DEF Call
  <2> HIDE DEF I, c
  <2> QED BY <2>1, <2>2, <2>3
<1>3. ASSUME NEW s \in Slots, Answered(s) \/ Timed(s) \/ ServeRead(s) \/ CheckSave(s)
                               \/ Lost(s)
      PROVE  UNCHANGED log
  BY <1>3 DEF Answered, PullEnds, LoadEnds, LawEnds, PolicyEnds, PushEnds, ReloadEnds, Timed,
              TimerFires, OrphanFires, RestartFires, PullStarts, Mutate, ServeRead, CheckSave,
              Lost
<1>4. ASSUME NEW a \in Agents, NEW broken \in BOOLEAN, Edit(a, broken) PROVE UNCHANGED log
  BY <1>4 DEF Edit
<1>5. ASSUME PageReloads PROVE UNCHANGED log
  BY <1>5, Zenon DEF PageReloads
<1> HIDE DEF OneSave
<1>6. UNCHANGED log \/ OneSave
  BY <1>1, <1>2, <1>3, <1>4, <1>5 DEF Next, Served, vars
<1> QED BY <1>6 DEF OneSave

(* Every step is a save of one date's days or a change of what is known.   *)
LEMMA StepImplements ==
    ASSUME SyncInv, SyncInv', [Next]_vars
    PROVE  [ServerCopies!Next]_(ServerCopies!vars)
<1>1. CASE UNCHANGED log
  <2>1. ServerCopies!Faithful'
    <3> SUFFICES ASSUME NEW a \in Agents, Known(a)'
                 PROVE  ([version |-> page.ses.snap.versions[a],
                          day |-> page.ses.snap.synced[a]] \in log[Today][a])'
      BY ConstantsAssumption DEF ServerCopies!Faithful, Known
    <3> QED BY DEF SyncInv, TruePage, TrueCopy, Known
  <2>2. ServerCopies!Learn
    BY <1>1, <2>1 DEF ServerCopies!Learn
  <2> QED BY <2>2 DEF ServerCopies!Next
<1>2. ASSUME NEW d \in Dates, NEW I \in SUBSET Agents, page'.ses = page.ses, Saves(d, I)
      PROVE  ServerCopies!Next
  <2>1. ASSUME NEW a \in I PROVE ServerCopies!Grown(log[d][a], log'[d][a])
    <3>1. Saved(log[d][a], log'[d][a])
      BY <1>2, <2>1 DEF Saves
    <3>2. PICK r \in Row, q \in Row :
              /\ log'[d][a] = log[d][a] \cup {r, q}
              /\ r.version = q.version
              /\ r.version = 1 \/ \E o \in log[d][a] : r.version = o.version + 1
      BY <3>1 DEF Saved
    <3> QED BY <3>2 DEF ServerCopies!Grown
  <2>2. \A e \in Dates, a \in Agents : ~(e = d /\ a \in I) => log'[e][a] = log[e][a]
    BY <1>2 DEF Saves
  <2>3. ServerCopies!Save(d, I)
    BY <1>2, <2>1, <2>2 DEF ServerCopies!Save
  <2> QED BY <2>3 DEF ServerCopies!Next
<1> QED BY <1>1, <1>2, LogSteps

(* The days and the session's copies of them behave as Copies says, for    *)
(* any agents, calls, edits, losses and reloads (scheduleSync.ts:1-14).    *)
THEOREM ImplementationOfCopies == Spec => ImplementsCopies
<1>1. SyncInv /\ SyncInv' /\ [Next]_vars => [ServerCopies!Next]_(ServerCopies!vars)
  BY StepImplements
<1> QED BY <1>1, InitImplements, Invariance, PTL
        DEF Spec, ImplementsCopies, ServerCopies!Spec
=============================================================================
