------------------------ MODULE BrowserStore_proofs -------------------------
(***************************************************************************)
(* Proofs about what keeps the browser's store in step, with the server    *)
(* (SettingsSync) and with the other tabs (BrowserTabs).                   *)
(*                                                                         *)
(* SettingsSync: what the page takes for the server's settings agrees with *)
(* the versions the server has had, and the engine implements Copies for   *)
(* the settings that are replaced whole; for any settings, number of calls *)
(* under way, edits, saves by others, losses and reloads.                  *)
(*                                                                         *)
(* BrowserTabs: stores stay stores, tabs at rest agree and an edit moves   *)
(* one day, for any tabs, days, people, patterns, changes and events on    *)
(* their way.                                                              *)
(***************************************************************************)
EXTENDS SettingsSync, BrowserTabs, SequenceTheorems, FiniteSetTheorems,
        WellFoundedInduction, TLAPS

(* Rows the server has had, or said that it has none.                      *)
Loadable(rows) == \A k \in Keys : rows[k].version # 0 => rows[k] \in log[k]

(* A PUT names what it saves; the rows a call has been given are the       *)
(* server's, and the one a PUT is answered with holds what it sent.        *)
TrueCall(c) ==
    /\ c.kind \in {"push", "gone"} => c.todo # {}
    /\ c.phase = "checked" => c.kind \in {"push", "gone"}
    /\ Loadable(c.rows)
    /\ c.kind = "push" /\ c.phase = "done" =>
           /\ c.rows[First(c.todo)].version # 0
           /\ c.rows[First(c.todo)].value = c.values[First(c.todo)]

TruePage(p) ==
    /\ p \in Page
    /\ TrueCopy(p.snap)
    /\ \A s \in Slots : TrueCall(p.calls[s])

(* SnapshotIsTrue is not inductive: an answer under way must be true, too. *)
SyncInv ==
    /\ stored \in [Keys -> Row]
    /\ Loadable(stored)
    /\ log \in [Keys -> SUBSET Row]
    /\ used \in [edits : Nat, others : Nat, faults : Nat]
    /\ TruePage(page)

-----------------------------------------------------------------------------
(* The setting that comes next is one of those that wait.                  *)
LEMMA FirstIsOne ==
    ASSUME NEW T \in SUBSET Keys, T # {}
    PROVE  First(T) \in T
<1> DEFINE Less == {p \in Nat \X Nat : p[1] < p[2]}
<1>1. IsWellFoundedOn(Less, Nat)
  BY NatLessThanWellFounded, Zenon DEF OpToRel
<1>0. T \subseteq Nat
  BY ConstantsAssumption
<1> HIDE DEF Less
<1>2. PICK x \in T : \A y \in T : ~ (<<y, x>> \in Less)
  BY <1>0, <1>1, WFMin
<1>3. ASSUME NEW y \in T, y < x PROVE FALSE
  <2>1. <<y, x>> \in Nat \X Nat /\ <<y, x>>[1] < <<y, x>>[2]
    BY <1>0, <1>3
  <2> QED BY <2>1, <1>2, Zenon DEF Less
<1>4. \A y \in T : x <= y
  BY <1>0, <1>3
<1> QED BY <1>4 DEF First

(* An idle call is a call, and true.                                       *)
LEMMA IdleIsTrue ==
    /\ Idle \in Call /\ TrueCall(Idle) /\ Idle.kind = "idle" /\ Idle.phase = "sent"
    /\ NoValue \in Value /\ NoRow \in Row
    /\ NoRows \in [Keys -> Row] /\ Loadable(NoRows)
<1>1. NoValue \in Value
  BY DEF NoValue, Value
<1>2. NoRow \in Row /\ NoRow.version = 0
  BY <1>1 DEF NoRow, Row
<1>3. NoRows \in [Keys -> Row] /\ Loadable(NoRows)
  BY <1>2 DEF NoRows, Loadable
<1>4. Idle \in Call /\ Idle.kind = "idle" /\ Idle.phase = "sent" /\ Idle.rows = NoRows
  BY <1>1, <1>3 DEF Idle, Call
<1> QED BY <1>1, <1>2, <1>3, <1>4 DEF TrueCall

(* The calls and the rest of a page can be replaced.                       *)
LEMMA CallReplaced ==
    ASSUME NEW p, TruePage(p), NEW s \in Slots, NEW c \in Call, TrueCall(c)
    PROVE  /\ TruePage([p EXCEPT !.calls[s] = c])
           /\ [p EXCEPT !.calls[s] = c].calls = [p.calls EXCEPT ![s] = c]
BY DEF TruePage, Page

(* So can its status ...                                                   *)
LEMMA StatusReplaced ==
    ASSUME NEW p, TruePage(p),
           NEW st \in {"loading", "saving", "synced", "offline", "conflict"}
    PROVE  TruePage([p EXCEPT !.status = st])
BY DEF TruePage, Page

(* ... and its timer.                                                      *)
LEMMA TimerReplaced ==
    ASSUME NEW p, TruePage(p), NEW b \in BOOLEAN
    PROVE  TruePage([p EXCEPT !.timer = b])
BY DEF TruePage, Page

(* A call that ends leaves a true page.                                    *)
LEMMA EndedIsTrue ==
    ASSUME NEW p, TruePage(p), NEW s \in Slots
    PROVE  TruePage(Ended(p, s))
<1>1. p.polls \/ p.calls[s].first \in BOOLEAN
  BY DEF TruePage, Page, Call
<1>2. TruePage([p EXCEPT !.calls[s] = Idle])
  BY CallReplaced, IdleIsTrue
<1> QED BY <1>1, <1>2 DEF Ended, TruePage, Page

(* So does a PUT that is sent, ...                                         *)
LEMMA SentIsTrue ==
    ASSUME NEW p, TruePage(p), NEW s \in Slots, NEW c \in Call, TrueCall(c),
           NEW todo \in SUBSET Keys, todo # {}
    PROVE  TruePage(Sent(p, s, c, todo))
<1> DEFINE d == [c EXCEPT !.kind = "push", !.phase = "sent", !.todo = todo,
                          !.base = p.snap[First(todo)].version]
<1>1. First(todo) \in Keys
  BY FirstIsOne
<1>2. p.snap[First(todo)].version \in Nat
  BY <1>1 DEF TruePage, Page, Snap
<1>3. /\ d \in Call /\ d.kind = "push" /\ d.phase = "sent" /\ d.todo = todo
      /\ d.rows = c.rows
  BY <1>2 DEF Call
<1> HIDE DEF d
<1>4. TrueCall(d)
  BY <1>3 DEF TrueCall
<1> QED BY <1>3, <1>4, CallReplaced DEF Sent, d

(* ... and a push that begins.                                             *)
LEMMA PushIsTrue ==
    ASSUME NEW p, TruePage(p), NEW s \in Slots, NEW keys \in SUBSET Keys
    PROVE  TruePage(Push(p, s, keys))
<1> DEFINE todo == {k \in keys : ChangedHere(p, k)}
           q == [p EXCEPT !.status = "saving"]
           c == [Idle EXCEPT !.values = p.local, !.first = p.calls[s].first]
<1>1. CASE todo = {}
  BY <1>1, EndedIsTrue DEF Push
<1>2. CASE todo # {}
  <2>1. TruePage(q)
    BY StatusReplaced
  <2>2. c \in Call /\ TrueCall(c)
    <3>1. p.local \in [Keys -> Value] /\ p.calls[s].first \in BOOLEAN
      BY DEF TruePage, Page, Call
    <3>2. c \in Call /\ c.kind = Idle.kind /\ c.phase = Idle.phase /\ c.rows = Idle.rows
      BY <3>1, IdleIsTrue DEF Call
    <3> HIDE DEF c
    <3> QED BY <3>2, IdleIsTrue DEF TrueCall
  <2>3. todo \in SUBSET Keys
    OBVIOUS
  <2> HIDE DEF todo, q, c
  <2>4. TruePage(Sent(q, s, c, todo))
    BY <1>2, <2>1, <2>2, <2>3, SentIsTrue
  <2> QED BY <1>2, <2>4 DEF Push, todo, q, c
<1> QED BY <1>1, <1>2

(* What the server has and what is kept here agree with the server.        *)
LEMMA MergeAgrees ==
    ASSUME NEW k \in Keys, NEW here \in Value, NEW there \in Value
    PROVE  Merge(k, here, there) \in Value /\ Agrees(k, Merge(k, here, there), there)
BY DEF Merge, Agrees, Value

(* Loading rows the server has had makes the snapshot true of them.        *)
LEMMA ApplyServerIsTrue ==
    ASSUME NEW p, TruePage(p), NEW rows \in [Keys -> Row], Loadable(rows)
    PROVE  TruePage(ApplyServer(p, rows))
<1> DEFINE local == [k \in Keys |-> IF rows[k].version = 0 THEN p.local[k]
                                    ELSE Merge(k, p.local[k], rows[k].value)]
           snap  == [k \in Keys |-> IF rows[k].version = 0 THEN p.snap[k]
                                    ELSE [version |-> rows[k].version, value |-> local[k]]]
           q     == [p EXCEPT !.local = local, !.snap = snap, !.timer = TRUE]
<1>1. CASE \A k \in Keys : rows[k].version = 0
  BY <1>1 DEF ApplyServer
<1>2. CASE ~ \A k \in Keys : rows[k].version = 0
  <2>1. \A k \in Keys : /\ rows[k].version \in Nat /\ rows[k].value \in Value
                        /\ p.local[k] \in Value /\ p.snap[k] \in Snap
    BY DEF Row, TruePage, Page
  <2>2. ASSUME NEW k \in Keys
        PROVE  /\ local[k] \in Value
               /\ rows[k].version # 0 => Agrees(k, local[k], rows[k].value)
    <3>1. CASE rows[k].version = 0
      BY <2>1, <3>1
    <3>2. CASE rows[k].version # 0
      <4>1. local[k] = Merge(k, p.local[k], rows[k].value)
        BY <3>2
      <4> HIDE DEF local
      <4> QED BY <2>1, <4>1, MergeAgrees
    <3> QED BY <3>1, <3>2
  <2>3. ASSUME NEW k \in Keys
        PROVE  /\ snap[k] \in Snap
               /\ IF rows[k].version = 0 THEN snap[k] = p.snap[k]
                  ELSE snap[k] = [version |-> rows[k].version, value |-> local[k]]
    <3> HIDE DEF local
    <3>1. [version |-> rows[k].version, value |-> local[k]] \in Snap
      BY <2>1, <2>2 DEF Snap
    <3> QED BY <2>1, <3>1
  <2>4. local \in [Keys -> Value]
    <3>1. local = [k \in Keys |-> local[k]]
      OBVIOUS
    <3> HIDE DEF local
    <3> QED BY <2>2, <3>1
  <2>5. snap \in [Keys -> Snap]
    <3>1. snap = [k \in Keys |-> snap[k]]
      OBVIOUS
    <3> HIDE DEF snap
    <3> QED BY <2>3, <3>1
  <2> HIDE DEF snap, local
  <2>6. TrueCopy(snap)
    <3> SUFFICES ASSUME NEW k \in Keys, snap[k].version # 0
                 PROVE  \E r \in log[k] : r.version = snap[k].version
                                          /\ Agrees(k, snap[k].value, r.value)
      BY DEF TrueCopy
    <3>1. CASE rows[k].version = 0
      BY <2>3, <3>1 DEF TruePage, TrueCopy
    <3>2. CASE rows[k].version # 0
      <4>1. snap[k] = [version |-> rows[k].version, value |-> local[k]]
        BY <2>3, <3>2, Zenon
      <4>2. rows[k] \in log[k]
        BY <3>2 DEF Loadable
      <4> QED BY <2>2, <3>2, <4>1, <4>2
    <3> QED BY <3>1, <3>2
  <2>7. q \in Page /\ q.snap = snap /\ q.calls = p.calls
    BY <2>4, <2>5 DEF TruePage, Page
  <2>8. TruePage(q)
    BY <2>6, <2>7 DEF TruePage
  <2>9. ApplyServer(p, rows) = q
    BY <1>2 DEF ApplyServer, local, snap, TruePage, Page
  <2> QED BY <2>8, <2>9
<1> QED BY <1>1, <1>2

-----------------------------------------------------------------------------
(* The pages at the start and after each of the page's steps.              *)
LEMMA InitIsTrue == Init => SyncInv
<1> SUFFICES ASSUME Init PROVE SyncInv
  OBVIOUS
<1> DEFINE row == [version |-> 1, value |-> FirstValue]
<1>1. FirstValue \in Value /\ row \in Row
  BY DEF FirstValue, Value, Content, Row
<1>2. FirstPull \in Call /\ TrueCall(FirstPull)
  <2>1. /\ FirstPull \in Call /\ FirstPull.kind = "pull" /\ FirstPull.rows = Idle.rows
        /\ FirstPull.phase = Idle.phase
    BY IdleIsTrue DEF FirstPull, Call
  <2> QED BY <2>1, IdleIsTrue DEF TrueCall
<1>3. stored \in [Keys -> Row] /\ log \in [Keys -> SUBSET Row] /\ Loadable(stored)
  <2> HIDE DEF row
  <2> QED BY <1>1, IdleIsTrue DEF Init, Loadable, row, NoRow
<1> DEFINE snap == [k \in Keys |-> IF SavedBefore THEN row ELSE NoSnap]
<1>4. snap \in [Keys -> Snap] /\ TrueCopy(snap)
  <2>1. CASE SavedBefore
    <3>1. \A k \in Keys : snap[k] = row /\ log[k] = {row}
      BY <2>1 DEF Init
    <3>2. row \in Snap
      BY <1>1 DEF Snap
    <3>3. \A k \in Keys : Agrees(k, row.value, row.value)
      BY DEF Agrees
    <3>4. snap = [k \in Keys |-> snap[k]]
      OBVIOUS
    <3> HIDE DEF row, snap
    <3> QED BY <3>1, <3>2, <3>3, <3>4 DEF TrueCopy
  <2>2. CASE ~SavedBefore
    BY <2>2 DEF TrueCopy, NoSnap, Snap
  <2> QED BY <2>1, <2>2
<1> DEFINE calls == [t \in Slots |-> IF t = 1 THEN FirstPull ELSE Idle]
<1>5. calls \in [Slots -> Call] /\ \A s \in Slots : TrueCall(calls[s])
  BY <1>2, IdleIsTrue
<1>6. page.snap = snap /\ page.calls = calls
  BY DEF Init
<1>7. page \in Page
  <2>1. page = [local |-> [k \in Keys |-> FirstValue], snap |-> snap, timer |-> FALSE,
                polls |-> FALSE, calls |-> calls, status |-> "loading"]
    BY DEF Init
  <2> HIDE DEF snap, calls
  <2> QED BY <1>1, <1>4, <1>5, <2>1 DEF Page
<1> HIDE DEF snap, calls
<1> QED BY <1>3, <1>4, <1>5, <1>6, <1>7 DEF Init, SyncInv, TruePage

(* A step of the page alone keeps SyncInv when its new page is true.       *)
LEMMA PageStep ==
    ASSUME SyncInv, NEW p, TruePage(p), page' = p, UNCHANGED <<stored, log>>,
           used' \in [edits : Nat, others : Nat, faults : Nat]
    PROVE  SyncInv'
BY DEF SyncInv, TruePage, TrueCopy, TrueCall, Loadable

(* The bounds stay numbers.                                                *)
LEMMA UsedMore ==
    ASSUME NEW u \in [edits : Nat, others : Nat, faults : Nat]
    PROVE  /\ [u EXCEPT !.edits = @ + 1] \in [edits : Nat, others : Nat, faults : Nat]
           /\ [u EXCEPT !.others = @ + 1] \in [edits : Nat, others : Nat, faults : Nat]
           /\ [u EXCEPT !.faults = @ + 1] \in [edits : Nat, others : Nat, faults : Nat]
OBVIOUS

(* An entry that is changed is one, and so is one that is dropped.         *)
LEMMA ChangedIsContent ==
    ASSUME NEW entry \in Content \cup {Nothing}, NEW e \in Nat, NEW broken \in BOOLEAN,
           NEW k \in Keys, NEW x \in {Changed(entry, e, broken)} \cup Dropped(k)
    PROVE  x \in Content \cup {Nothing}
<1> DEFINE was == IF entry = Nothing THEN {} ELSE entry
           no == IF broken THEN {0} ELSE {}
<1>1. was \in Content /\ no \in Content
  BY DEF Content
<1>2. Changed(entry, e, broken) = (was \ {0}) \cup {e} \cup no
  BY DEF Changed
<1> HIDE DEF was, no
<1>3. Changed(entry, e, broken) \in Content
  BY <1>1, <1>2 DEF Content
<1> QED BY <1>3 DEF Dropped

(* The steps of Next, one lemma each.  An edit in the browser:             *)
LEMMA EditStep ==
    ASSUME SyncInv, NEW k \in Keys, NEW a \in Parts(k), NEW broken \in BOOLEAN,
           Edit(k, a, broken)
    PROVE  SyncInv'
<1>0. a \in Entries
  BY ConstantsAssumption DEF Parts
<1>1. page \in Page /\ page.local[k][a] \in Content \cup {Nothing} /\ used.edits + 1 \in Nat
  BY <1>0 DEF SyncInv, TruePage, Page, Value
<1>2. PICK entry \in {Changed(page.local[k][a], used.edits + 1, broken)} \cup Dropped(k) :
          page' = [page EXCEPT !.local[k][a] = entry, !.timer = TRUE]
  BY Zenon DEF Edit
<1>3. entry \in Content \cup {Nothing}
  BY <1>1, <1>2, ChangedIsContent
<1>4. page' \in Page /\ page'.snap = page.snap /\ page'.calls = page.calls
  <2> DEFINE v == [page.local[k] EXCEPT ![a] = entry]
             local == [page.local EXCEPT ![k] = v]
  <2>1. page.local \in [Keys -> Value]
    BY <1>1 DEF Page
  <2>2. v \in Value
    BY <1>0, <1>3, <2>1 DEF Value
  <2>3. page' = [page EXCEPT !.local = local, !.timer = TRUE]
    BY <1>1, <1>2 DEF Page
  <2> HIDE DEF v
  <2>4. local \in [Keys -> Value]
    BY <2>1, <2>2
  <2> HIDE DEF local
  <2> QED BY <1>1, <2>3, <2>4 DEF Page
<1>5. TruePage(page')
  BY <1>4 DEF SyncInv, TruePage
<1>6. used' \in [edits : Nat, others : Nat, faults : Nat]
  BY UsedMore DEF Edit, SyncInv
<1> QED BY <1>5, <1>6, PageStep DEF Edit

(* the save timer fires,                                                   *)
LEMMA TimerStep ==
    ASSUME SyncInv, NEW s \in Slots, TimerFires(s)
    PROVE  SyncInv'
<1>1. TruePage([page EXCEPT !.timer = FALSE])
  BY TimerReplaced DEF SyncInv
<1>2. TruePage(Push([page EXCEPT !.timer = FALSE], s, Keys))
  BY <1>1, PushIsTrue
<1> QED BY <1>2, PageStep DEF TimerFires, Becomes, SyncInv

(* the poll timer fires.                                                   *)
LEMMA PollStep ==
    ASSUME SyncInv, NEW s \in Slots, PollFires(s)
    PROVE  SyncInv'
<1> DEFINE c == [Idle EXCEPT !.kind = "pull"]
<1>1. c \in Call /\ TrueCall(c)
  <2>1. c \in Call /\ c.kind = "pull" /\ c.phase = Idle.phase /\ c.rows = Idle.rows
    BY IdleIsTrue DEF Call
  <2> HIDE DEF c
  <2> QED BY <2>1, IdleIsTrue DEF TrueCall
<1> HIDE DEF c
<1>2. TruePage([page EXCEPT !.calls[s] = c])
  BY <1>1, CallReplaced DEF SyncInv
<1> QED BY <1>2, PageStep DEF PollFires, Becomes, SyncInv, c

(* The answer of a PUT makes the snapshot true of what was sent.           *)
LEMMA AcknowledgedIsTrue ==
    ASSUME SyncInv, NEW s \in Slots,
           page.calls[s].kind = "push", page.calls[s].phase = "done"
    PROVE  TruePage(Acknowledged(page.calls[s]))
<1> DEFINE c == page.calls[s]
           k == First(c.todo)
           new == [version |-> c.rows[k].version, value |-> c.values[k]]
           q == Acknowledged(c)
<1>1. c \in Call /\ TrueCall(c)
  BY DEF SyncInv, TruePage, Page
<1> HIDE DEF c
<1>2. k \in Keys
  BY <1>1, FirstIsOne DEF TrueCall, Call, c
<1>3. c.rows[k].version # 0 /\ c.rows[k] \in log[k] /\ c.values[k] = c.rows[k].value
  BY <1>1, <1>2 DEF TrueCall, Loadable, c
<1>4. new \in Snap
  BY <1>1, <1>2 DEF Call, Snap, Row
<1> HIDE DEF k
<1>5. Agrees(k, new.value, c.rows[k].value) /\ new.version = c.rows[k].version
  BY <1>3 DEF Agrees
<1>6. q = [page EXCEPT !.snap[k] = new]
  BY DEF Acknowledged, k
<1> HIDE DEF new, q
<1>7. q \in Page /\ q.calls = page.calls /\ q.snap = [page.snap EXCEPT ![k] = new]
  BY <1>2, <1>4, <1>6 DEF SyncInv, TruePage, Page
<1>8. TrueCopy(q.snap)
  BY <1>2, <1>3, <1>5, <1>7 DEF SyncInv, TruePage, Page, TrueCopy
<1> QED BY <1>7, <1>8 DEF SyncInv, TruePage, c, q

(* The answer of a PUT reaches the page,                                   *)
LEMMA PushStep ==
    ASSUME SyncInv, NEW s \in Slots, PushEnds(s)
    PROVE  SyncInv'
<1> DEFINE c == page.calls[s]
           next == c.todo \ {First(c.todo)}
<1>0. c \in Call /\ TrueCall(c) /\ c.kind = "push"
  BY DEF SyncInv, TruePage, Page, PushEnds
<1>1. CASE c.phase = "done"
  <2>1. TruePage(Acknowledged(c))
    BY <1>0, <1>1, AcknowledgedIsTrue
  <2>2. CASE next # {}
    <3>1. next \in SUBSET Keys
      BY <1>0 DEF Call
    <3>2. TruePage(Sent(Acknowledged(c), s, c, next))
      BY <2>1, <2>2, <3>1, <1>0, SentIsTrue
    <3> QED BY <1>1, <2>2, <3>2, PageStep DEF PushEnds, Becomes, SyncInv
  <2>3. CASE next = {}
    <3>1. TruePage([Acknowledged(c) EXCEPT !.status = "synced"])
      BY <2>1, StatusReplaced
    <3>2. TruePage(Ended([Acknowledged(c) EXCEPT !.status = "synced"], s))
      BY <3>1, EndedIsTrue
    <3> QED BY <1>1, <2>3, <3>2, PageStep DEF PushEnds, Becomes, SyncInv
  <2> QED BY <2>2, <2>3
<1>2. CASE c.phase = "refused"
  <2>1. c.rows \in [Keys -> Row] /\ Loadable(c.rows)
    BY <1>0, <1>2 DEF Call, TrueCall
  <2>2. TruePage([ApplyServer(page, c.rows) EXCEPT !.status = "conflict"])
    BY <2>1, ApplyServerIsTrue, StatusReplaced DEF SyncInv
  <2>3. TruePage(Ended([ApplyServer(page, c.rows) EXCEPT !.status = "conflict"], s))
    BY <2>2, EndedIsTrue
  <2> QED BY <1>2, <2>3, PageStep DEF PushEnds, Becomes, SyncInv
<1>3. CASE c.phase = "failed"
  <2>1. TruePage(Ended([page EXCEPT !.status = "offline"], s))
    BY StatusReplaced, EndedIsTrue DEF SyncInv
  <2> QED BY <1>3, <2>1, PageStep DEF PushEnds, Becomes, SyncInv
<1> QED BY <1>1, <1>2, <1>3 DEF PushEnds

(* the answer of a pull reaches it,                                        *)
LEMMA PullStep ==
    ASSUME SyncInv, NEW s \in Slots, PullEnds(s)
    PROVE  SyncInv'
<1> DEFINE c == page.calls[s]
           rows == [k \in Keys |-> IF k \in Taken(c) THEN c.rows[k] ELSE NoRow]
           p == ApplyServer(page, rows)
<1>0. c \in Call /\ TrueCall(c) /\ c.kind = "pull"
  BY DEF SyncInv, TruePage, Page, PullEnds
<1>1. CASE c.phase = "done"
  <2>1. rows \in [Keys -> Row] /\ Loadable(rows)
    <3>1. c.rows \in [Keys -> Row] /\ Loadable(c.rows) /\ NoRow \in Row /\ NoRow.version = 0
      BY <1>0, IdleIsTrue DEF Call, TrueCall, NoRow
    <3> QED BY <3>1 DEF Loadable
  <2> HIDE DEF rows
  <2>2. TruePage(p)
    BY <2>1, ApplyServerIsTrue DEF SyncInv
  <2> HIDE DEF p
  <2>3. TruePage(Push(p, s, Uploaded(c)))
    BY <2>2, PushIsTrue DEF Uploaded
  <2>4. TruePage(Ended([p EXCEPT !.status = "synced"], s))
    BY <2>2, StatusReplaced, EndedIsTrue
  <2>5. page' = (IF Uploaded(c) # {} THEN Push(p, s, Uploaded(c))
                 ELSE Ended([p EXCEPT !.status = "synced"], s))
        /\ UNCHANGED <<stored, log, used>>
    BY <1>1 DEF PullEnds, Becomes, p, rows
  <2> QED BY <2>3, <2>4, <2>5, PageStep DEF SyncInv
<1>2. CASE c.phase = "failed"
  <2>1. TruePage(Ended([page EXCEPT !.status = "offline"], s))
    BY StatusReplaced, EndedIsTrue DEF SyncInv
  <2> QED BY <1>2, <2>1, PageStep DEF PullEnds, Becomes, SyncInv
<1> QED BY <1>1, <1>2 DEF PullEnds

(* A PUT nobody waits for.                                                 *)
LEMMA UnawaitedIsTrue ==
    ASSUME NEW c \in Call, TrueCall(c), UnderWay(c)
    PROVE  Unawaited(c) \in Call /\ TrueCall(Unawaited(c))
<1> DEFINE d == [c EXCEPT !.kind = "gone", !.first = FALSE]
<1>1. d \in Call /\ d.kind = "gone" /\ d.todo = c.todo /\ d.rows = c.rows
  BY DEF Call
<1> HIDE DEF d
<1>2. TrueCall(d)
  BY <1>1 DEF TrueCall, UnderWay
<1> QED BY <1>1, <1>2 DEF Unawaited, d

(* the page is loaded again.                                               *)
LEMMA ReloadStep ==
    ASSUME SyncInv, PageReloads
    PROVE  SyncInv'
<1> DEFINE left == [t \in Slots |->
                IF UnderWay(page.calls[t]) THEN Unawaited(page.calls[t])
                ELSE IF page.calls[t].kind = "gone" THEN page.calls[t] ELSE Idle]
<1>1. \A t \in Slots : left[t] \in Call /\ TrueCall(left[t])
  <2> SUFFICES ASSUME NEW t \in Slots PROVE left[t] \in Call /\ TrueCall(left[t])
    OBVIOUS
  <2>1. page.calls[t] \in Call /\ TrueCall(page.calls[t])
    BY SMTT(60) DEF SyncInv, TruePage, Page
  <2> QED BY <2>1, UnawaitedIsTrue, IdleIsTrue, SMTT(60)
<1>2. FirstPull \in Call /\ TrueCall(FirstPull)
  <2>1. FirstPull \in Call /\ FirstPull.kind = "pull" /\ FirstPull.rows = Idle.rows
        /\ FirstPull.phase = Idle.phase
    BY IdleIsTrue DEF FirstPull, Call
  <2> QED BY <2>1, IdleIsTrue DEF TrueCall
<1>3. PICK s \in Slots : page' = [page EXCEPT !.timer = FALSE, !.polls = FALSE,
          !.status = "loading", !.calls = [left EXCEPT ![s] = FirstPull]]
  BY ZenonT(60) DEF PageReloads
<1> DEFINE calls == [left EXCEPT ![s] = FirstPull]
<1>4. calls \in [Slots -> Call] /\ \A t \in Slots : TrueCall(calls[t])
  BY <1>1, <1>2
<1> HIDE DEF left, calls
<1>5. page' \in Page /\ page'.snap = page.snap /\ page'.calls = calls
  BY <1>3, <1>4 DEF SyncInv, TruePage, Page, calls
<1>6. TruePage(page')
  BY <1>4, <1>5 DEF SyncInv, TruePage
<1>7. used' \in [edits : Nat, others : Nat, faults : Nat]
  BY UsedMore DEF PageReloads, SyncInv
<1> QED BY <1>6, <1>7, PageStep DEF PageReloads

-----------------------------------------------------------------------------
(* The server and the network.                                             *)

(* A step that answers or refuses one call, or carries on with it.         *)
LEMMA AnswerIsTrue ==
    ASSUME SyncInv, NEW s \in Slots, NEW phase \in {"checked", "done", "refused", "failed"},
           NEW rows \in [Keys -> Row], Loadable(rows),
           phase = "checked" => page.calls[s].kind \in {"push", "gone"},
           LET c == page.calls[s]
               k == First(c.todo)
           IN  c.kind = "push" /\ phase = "done" =>
                   rows[k].version # 0 /\ rows[k].value = c.values[k],
           Answer(s, phase, rows), UNCHANGED <<stored, log, used>>
    PROVE  SyncInv'
<1> DEFINE c == page.calls[s]
           e == [c EXCEPT !.phase = phase, !.rows = rows]
           d == IF c.kind = "gone" /\ phase # "checked" THEN Idle ELSE e
<1>0. page \in Page /\ c \in Call /\ TrueCall(c)
  BY DEF SyncInv, TruePage, Page
<1>1. page' = [page EXCEPT !.calls[s] = d]
  BY <1>0 DEF Answer, Page
<1>2. /\ e \in Call /\ e.kind = c.kind /\ e.todo = c.todo /\ e.values = c.values
      /\ e.rows = rows /\ e.phase = phase
  BY <1>0 DEF Call
<1>3. d = Idle \/ d = e
  OBVIOUS
<1> HIDE DEF d, e
<1>4. TrueCall(e)
  BY <1>0, <1>2 DEF TrueCall
<1> HIDE DEF c
<1>5. d \in Call /\ TrueCall(d)
  BY <1>2, <1>3, <1>4, IdleIsTrue
<1>6. TruePage([page EXCEPT !.calls[s] = d])
  BY <1>5, CallReplaced DEF SyncInv
<1> QED BY <1>1, <1>6, PageStep DEF SyncInv

(* The server answers a pull,                                              *)
LEMMA ReadStep ==
    ASSUME SyncInv, NEW s \in Slots, ServeRead(s)
    PROVE  SyncInv'
<1>1. page.calls[s].kind = "pull" /\ Answer(s, "done", stored) /\ UNCHANGED <<stored, log, used>>
  BY DEF ServeRead
<1>2. stored \in [Keys -> Row] /\ Loadable(stored)
  BY DEF SyncInv
<1> QED BY <1>1, <1>2, AnswerIsTrue

(* The row a PUT is checked against.                                       *)
LEMMA ReadIsLoadable ==
    ASSUME SyncInv, NEW k \in Keys
    PROVE  LET read == [NoRows EXCEPT ![k] = stored[k]]
           IN  read \in [Keys -> Row] /\ Loadable(read) /\ read[k] = stored[k]
<1> DEFINE read == [NoRows EXCEPT ![k] = stored[k]]
<1>1. NoRows \in [Keys -> Row] /\ Loadable(NoRows) /\ stored[k] \in Row
      /\ (stored[k].version # 0 => stored[k] \in log[k])
  BY IdleIsTrue DEF SyncInv, Loadable
<1>2. read \in [Keys -> Row] /\ read[k] = stored[k] /\ \A j \in Keys \ {k} : read[j] = NoRows[j]
  BY <1>1
<1> HIDE DEF read
<1>3. Loadable(read)
  BY <1>1, <1>2 DEF Loadable
<1> QED BY <1>2, <1>3 DEF read

(* checks a PUT,                                                           *)
LEMMA CheckStep ==
    ASSUME SyncInv, NEW s \in Slots, CheckPut(s)
    PROVE  SyncInv'
<1> DEFINE c == page.calls[s]
           k == First(c.todo)
           read == [NoRows EXCEPT ![k] = stored[k]]
<1>1. c \in Call /\ TrueCall(c) /\ c.kind \in {"push", "gone"}
  BY DEF SyncInv, TruePage, Page, CheckPut
<1>2. k \in Keys
  BY <1>1, FirstIsOne DEF TrueCall, Call
<1>3. /\ \/ Answer(s, "failed", NoRows) \/ Answer(s, "refused", read)
         \/ Answer(s, "checked", read)
         \/ /\ Answer(s, "done", read)
            /\ c.base = stored[k].version /\ c.base # 0 /\ stored[k].value = c.values[k]
      /\ UNCHANGED <<stored, log, used>>
  BY ZenonT(60) DEF CheckPut
<1> HIDE DEF c
<1>4. NoRows \in [Keys -> Row] /\ Loadable(NoRows)
  BY IdleIsTrue
<1> HIDE DEF k
<1>5. read \in [Keys -> Row] /\ Loadable(read) /\ read[k] = stored[k]
  BY <1>2, ReadIsLoadable
<1> HIDE DEF read
<1>6. CASE Answer(s, "failed", NoRows)
  BY <1>3, <1>4, <1>6, AnswerIsTrue
<1>7. CASE Answer(s, "refused", read) \/ Answer(s, "checked", read)
  <2>1. CASE Answer(s, "refused", read)
    BY <1>3, <1>5, <2>1, AnswerIsTrue
  <2>2. CASE Answer(s, "checked", read)
    BY <1>1, <1>3, <1>5, <2>2, AnswerIsTrue DEF c
  <2> QED BY <1>7, <2>1, <2>2
<1>8. CASE /\ Answer(s, "done", read)
           /\ c.base = stored[k].version /\ c.base # 0 /\ stored[k].value = c.values[k]
  <2>1. read[k].version # 0 /\ read[k].value = c.values[k]
    BY <1>5, <1>8
  <2> QED BY <1>3, <1>5, <1>8, <2>1, AnswerIsTrue DEF c, k
<1> QED BY <1>3, <1>6, <1>7, <1>8

(* learns that somebody else saves,                                        *)
LEMMA OtherStep ==
    ASSUME SyncInv, NEW s \in Slots, NEW k \in Keys, NEW a \in Parts(k), OtherSaves(s, k, a)
    PROVE  SyncInv'
<1> DEFINE now == stored[k].value
<1>0. a \in Entries /\ now \in Value
  BY ConstantsAssumption DEF Parts, SyncInv, Row
<1>1. MaxEdits + used.others + 1 \in Nat
  BY ConstantsAssumption DEF SyncInv
<1>2. PICK entry \in {Changed(now[a], MaxEdits + used.others + 1, FALSE)} \cup Dropped(k) :
          page' = [page EXCEPT !.calls[s] =
                  [Idle EXCEPT !.kind = "gone", !.phase = "checked", !.todo = {k},
                               !.values[k] = [now EXCEPT ![a] = entry],
                               !.rows[k] = stored[k]]]
  BY Zenon DEF OtherSaves
<1>3. entry \in Content \cup {Nothing}
  BY <1>0, <1>1, <1>2, ChangedIsContent DEF Value
<1> DEFINE v == [now EXCEPT ![a] = entry]
           values == [Idle.values EXCEPT ![k] = v]
           rows == [NoRows EXCEPT ![k] = stored[k]]
           c == [Idle EXCEPT !.kind = "gone", !.phase = "checked", !.todo = {k},
                             !.values = values, !.rows = rows]
<1>4. v \in Value
  BY <1>0, <1>3 DEF Value
<1>5. page' = [page EXCEPT !.calls[s] = c]
  BY <1>2 DEF Idle
<1> HIDE DEF v
<1>6. values \in [Keys -> Value]
  BY <1>4, IdleIsTrue DEF Call
<1> HIDE DEF values
<1>7. rows \in [Keys -> Row] /\ Loadable(rows)
  BY ReadIsLoadable
<1> HIDE DEF rows
<1>8. c \in Call /\ c.kind = "gone" /\ c.todo = {k} /\ c.rows = rows
  BY <1>6, <1>7, IdleIsTrue DEF Call
<1> HIDE DEF c
<1>9. TrueCall(c)
  BY <1>7, <1>8 DEF TrueCall
<1>10. TruePage([page EXCEPT !.calls[s] = c])
  BY <1>8, <1>9, CallReplaced DEF SyncInv
<1>11. used' \in [edits : Nat, others : Nat, faults : Nat] /\ UNCHANGED <<stored, log>>
  BY UsedMore DEF OtherSaves, SyncInv
<1> QED BY <1>5, <1>10, <1>11, PageStep

(* a request or an answer is lost,                                         *)
LEMMA LostStep ==
    ASSUME SyncInv, NEW s \in Slots, Lost(s)
    PROVE  SyncInv'
<1> DEFINE c == page.calls[s]
           d == [c EXCEPT !.phase = "failed", !.rows = NoRows]
           p == [page EXCEPT !.calls[s] = d]
<1>1. c \in Call /\ TrueCall(c) /\ TruePage(page)
  BY DEF SyncInv, TruePage, Page
<1>2. d \in Call /\ TrueCall(d)
  <2>1. d \in Call /\ d.kind = c.kind /\ d.todo = c.todo /\ d.rows = NoRows /\ d.phase = "failed"
    BY <1>1, IdleIsTrue DEF Call
  <2> HIDE DEF d
  <2> QED BY <1>1, <2>1, IdleIsTrue DEF TrueCall
<1>3. /\ \/ page' = p
         \/ /\ UnderWay(c)
            /\ \E t \in Slots : page' = [p EXCEPT !.calls[t] = Unawaited(c)]
      /\ UNCHANGED <<stored, log>>
  BY DEF Lost
<1>4. used' \in [edits : Nat, others : Nat, faults : Nat]
  BY UsedMore DEF Lost, SyncInv
<1> HIDE DEF d
<1>5. TruePage(p)
  BY <1>1, <1>2, CallReplaced
<1> HIDE DEF p, c
<1>6. CASE page' = p
  BY <1>3, <1>4, <1>5, <1>6, PageStep
<1>7. ASSUME UnderWay(c), NEW t \in Slots, page' = [p EXCEPT !.calls[t] = Unawaited(c)]
      PROVE  SyncInv'
  <2>1. Unawaited(c) \in Call /\ TrueCall(Unawaited(c))
    BY <1>1, <1>7, UnawaitedIsTrue
  <2>2. TruePage([p EXCEPT !.calls[t] = Unawaited(c)])
    BY <1>5, <2>1, CallReplaced
  <2> QED BY <1>3, <1>4, <1>7, <2>2, PageStep
<1> QED BY <1>3, <1>6, <1>7

(* A setting gets a row of a version after one it has had.                 *)
Saves(k, row) ==
    /\ row \in Row
    /\ log' = [log EXCEPT ![k] = @ \cup {row}]
    /\ row.version = 1 \/ \E o \in log[k] : row.version = o.version + 1

(* A PUT that has been checked is carried out, or fails.                   *)
LEMMA StoreSaves ==
    ASSUME SyncInv, NEW s \in Slots, StorePut(s)
    PROVE  LET c == page.calls[s]
               k == First(c.todo)
               row == [version |-> c.rows[k].version + 1, value |-> c.values[k]]
           IN  /\ k \in Keys /\ row \in Row /\ row.version # 0
               /\ \/ Answer(s, "failed", NoRows) /\ UNCHANGED <<stored, log>>
                  \/ /\ Saves(k, row)
                     /\ stored' = [stored EXCEPT ![k] = row]
                     /\ Answer(s, "done", [NoRows EXCEPT ![k] = row])
<1> DEFINE c == page.calls[s]
           k == First(c.todo)
           row == [version |-> c.rows[k].version + 1, value |-> c.values[k]]
<1>1. \/ Answer(s, "failed", NoRows) /\ UNCHANGED <<stored, log>>
      \/ /\ stored' = [stored EXCEPT ![k] = row]
         /\ log' = [log EXCEPT ![k] = @ \cup {row}]
         /\ Answer(s, "done", [NoRows EXCEPT ![k] = row])
  BY ZenonT(60) DEF StorePut
<1>2. c \in Call /\ TrueCall(c) /\ c.kind \in {"push", "gone"}
  BY DEF SyncInv, TruePage, Page, StorePut, TrueCall
<1> HIDE DEF c
<1>3. k \in Keys
  BY <1>2, FirstIsOne DEF TrueCall, Call
<1>4. c.rows[k] \in Row /\ c.values[k] \in Value /\ c.rows[k].version \in Nat
  BY <1>2, <1>3 DEF Call, Row
<1>5. c.rows[k].version # 0 => c.rows[k] \in log[k]
  BY <1>2, <1>3 DEF TrueCall, Loadable
<1> HIDE DEF k
<1>6. row \in Row /\ row.version = c.rows[k].version + 1
  BY <1>4 DEF Row
<1> HIDE DEF row
<1>7. row.version # 0 /\ (row.version = 1 \/ \E o \in log[k] : row.version = o.version + 1)
  BY <1>4, <1>5, <1>6
<1> QED BY <1>1, <1>3, <1>6, <1>7 DEF Saves, c, k, row

(* the server carries out a PUT.                                           *)
LEMMA StoreStep ==
    ASSUME SyncInv, NEW s \in Slots, StorePut(s)
    PROVE  SyncInv'
<1> DEFINE c == page.calls[s]
           k == First(c.todo)
           row == [version |-> c.rows[k].version + 1, value |-> c.values[k]]
           said == [NoRows EXCEPT ![k] = row]
<1>1. /\ k \in Keys /\ row \in Row /\ row.version # 0
      /\ \/ Answer(s, "failed", NoRows) /\ UNCHANGED <<stored, log>>
         \/ /\ Saves(k, row) /\ stored' = [stored EXCEPT ![k] = row]
            /\ Answer(s, "done", said)
  BY StoreSaves
<1>2. /\ page \in Page /\ TruePage(page) /\ c \in Call /\ TrueCall(c) /\ UNCHANGED used
      /\ stored \in [Keys -> Row] /\ log \in [Keys -> SUBSET Row] /\ Loadable(stored)
  BY DEF SyncInv, TruePage, Page, StorePut
<1>3. row.value = c.values[k]
  OBVIOUS
<1>4. CASE Answer(s, "failed", NoRows) /\ UNCHANGED <<stored, log>>
  BY <1>2, <1>4, IdleIsTrue, AnswerIsTrue
<1> HIDE DEF row
<1>5. CASE /\ Saves(k, row) /\ stored' = [stored EXCEPT ![k] = row]
           /\ Answer(s, "done", said)
  <2> DEFINE e == [c EXCEPT !.phase = "done", !.rows = said]
             d == IF c.kind = "gone" THEN Idle ELSE e
  <2>1. page' = [page EXCEPT !.calls[s] = d]
    BY <1>2, <1>5 DEF Answer, Page
  <2>2. /\ said \in [Keys -> Row] /\ said[k] = row
        /\ \A j \in Keys \ {k} : said[j].version = 0
    BY <1>1, IdleIsTrue DEF NoRows, NoRow
  <2> HIDE DEF said
  <2>3. /\ e \in Call /\ e.kind = c.kind /\ e.todo = c.todo /\ e.values = c.values
        /\ e.rows = said /\ e.phase = "done"
    BY <1>2, <2>2 DEF Call
  <2>4. d = Idle \/ d = e
    OBVIOUS
  <2> HIDE DEF d, e
  <2>5. d \in Call
    BY <2>3, <2>4, IdleIsTrue
  <2>6. /\ page' \in Page /\ page'.snap = page.snap /\ page'.calls[s] = d
        /\ \A t \in Slots \ {s} : page'.calls[t] = page.calls[t]
    BY <1>2, <2>1, <2>5 DEF Page
  <2> DEFINE K == k
  <2>7. /\ log' \in [Keys -> SUBSET Row] /\ row \in log'[K]
        /\ \A j \in Keys : log[j] \subseteq log'[j]
    <3> HIDE DEF K, c
    <3> QED BY <1>1, <1>2, <1>5 DEF Saves, K
  <2>8. stored' \in [Keys -> Row] /\ Loadable(stored)'
    <3>1. stored'[K] = row /\ \A j \in Keys \ {K} : stored'[j] = stored[j]
      BY <1>1, <1>2, <1>5
    <3>2. stored' \in [Keys -> Row]
      BY <1>1, <1>2, <1>5
    <3> HIDE DEF K, c
    <3> QED BY <1>2, <2>7, <3>1, <3>2 DEF Loadable
  <2>9. TrueCall(page.calls[s])'
    <3>1. \A j \in Keys : said[j].version # 0 => said[j] \in log'[j]
      BY <2>2, <2>7
    <3>2. CASE d = Idle
      <4>1. d.kind = "idle" /\ d.phase = "sent" /\ \A j \in Keys : d.rows[j].version = 0
        BY <3>2 DEF Idle, NoRows, NoRow
      <4> QED BY <2>6, <4>1 DEF TrueCall, Loadable
    <3>3. CASE d = e
      <4>1. said[First(c.todo)].version # 0 /\ said[First(c.todo)].value = c.values[First(c.todo)]
        BY <1>1, <1>3, <2>2
      <4> HIDE DEF c
      <4> QED BY <1>2, <2>3, <2>6, <3>1, <3>3, <4>1 DEF TrueCall, Loadable
    <3> QED BY <2>4, <3>2, <3>3
  <2>10. /\ TrueCopy(page.snap)'
         /\ \A t \in Slots \ {s} : TrueCall(page.calls[t])'
    <3>1. TrueCopy(page.snap)'
      BY <1>2, <2>6, <2>7 DEF TruePage, TrueCopy
    <3>2. ASSUME NEW t \in Slots \ {s} PROVE TrueCall(page.calls[t])'
      <4>1. page'.calls[t] = page.calls[t] /\ TrueCall(page.calls[t])
        BY <1>2, <2>6 DEF TruePage
      <4> QED BY <2>7, <4>1 DEF TrueCall, Loadable
    <3> QED BY <3>1, <3>2
  <2>11. TruePage(page)'
    BY <2>6, <2>9, <2>10 DEF TruePage
  <2>12. used' \in [edits : Nat, others : Nat, faults : Nat]
    BY <1>2 DEF SyncInv
  <2> QED BY <2>7, <2>8, <2>11, <2>12 DEF SyncInv
<1> QED BY <1>1, <1>4, <1>5

-----------------------------------------------------------------------------
(* SyncInv is inductive, and holds.                                        *)
LEMMA StepIsTrue == SyncInv /\ [Next]_vars => SyncInv'
<1> SUFFICES ASSUME SyncInv, [Next]_vars PROVE SyncInv'
  OBVIOUS
<1>1. CASE UNCHANGED vars
  BY <1>1, PageStep DEF vars, SyncInv
<1>2. ASSUME NEW k \in Keys, NEW broken \in BOOLEAN, NEW a \in Parts(k), Edit(k, a, broken)
      PROVE  SyncInv'
  BY <1>2, EditStep
<1>3. ASSUME NEW s \in Slots,
             TimerFires(s) \/ PollFires(s) \/ Answered(s) \/ Served(s) \/ Lost(s)
      PROVE  SyncInv'
  BY <1>3, TimerStep, PollStep, PushStep, PullStep, ReadStep, CheckStep, StoreStep, LostStep
     DEF Answered, Served
<1>4. ASSUME NEW s \in Slots, NEW k \in Keys, NEW a \in Parts(k), OtherSaves(s, k, a)
      PROVE  SyncInv'
  BY <1>4, OtherStep
<1>5. CASE PageReloads
  BY <1>5, ReloadStep
<1> QED BY <1>1, <1>2, <1>3, <1>4, <1>5, ZenonT(60) DEF Next

(* What the pages hold, and what is under way, is true of the versions the *)
(* server has had (settingsSync.ts:84-145).                                *)
THEOREM Invariance == Spec => []SyncInv
<1> QED BY InitIsTrue, StepIsTrue, PTL DEF Spec

(* The types hold for any settings, calls and edits (settingsSync.ts).     *)
THEOREM TypeCorrect == Spec => []TypeOK
<1>1. SyncInv => TypeOK
  BY DEF SyncInv, TypeOK, TruePage
<1> QED BY <1>1, Invariance, PTL

(* What the snapshot takes for the server's value of a version is one the  *)
(* server has had in it, or for the agents' rules agrees with one, whatever*)
(* pushes, pulls, edits, refusals, losses and reloads come between         *)
(* (settingsSync.ts:84-105, wfm.ts:956-974).                               *)
THEOREM SnapshotStaysTrue == Spec => []SnapshotIsTrue
<1>1. SyncInv => SnapshotIsTrue
  BY DEF SyncInv, TruePage, SnapshotIsTrue
<1> QED BY <1>1, Invariance, PTL

-----------------------------------------------------------------------------
(* The engine implements Copies, for the settings that are replaced whole. *)
History == [g \in {"settings"} |-> [k \in Keys \ {AgentRules} |-> log[k]]]
Copy == [k \in Keys \ {AgentRules} |->
            IF page.snap[k].version = 0 THEN Nothing ELSE page.snap[k]]

(* What is taken for the server's row is one.                              *)
LEMMA CopyIsHad ==
    ASSUME SyncInv, NEW k \in Keys \ {AgentRules}, page.snap[k].version # 0
    PROVE  page.snap[k] \in log[k]
<1>1. PICK r \in log[k] : r.version = page.snap[k].version /\ page.snap[k].value = r.value
  BY DEF SyncInv, TruePage, TrueCopy, Agrees
<1>2. r \in Row /\ page.snap[k] \in Snap
  BY DEF SyncInv, TruePage, Page
<1>3. page.snap[k] = r
  BY <1>1, <1>2 DEF Row, Snap
<1> QED BY <1>3

LEMMA CopiesAreFaithful == SyncInv => ServerCopies!Faithful
<1> SUFFICES ASSUME SyncInv, NEW k \in Keys \ {AgentRules}, Copy[k] # Nothing
             PROVE  Copy[k] \in log[k]
  BY DEF ServerCopies!Faithful, Copy
<1> QED BY CopyIsHad DEF Copy

(* Nothing is known of a setting that was never saved.                     *)
LEMMA InitImplements == Init => ServerCopies!Init
<1> SUFFICES ASSUME Init PROVE ServerCopies!Init
  OBVIOUS
<1>1. SyncInv
  BY InitIsTrue
<1>2. History \in [{"settings"} -> [Keys \ {AgentRules} -> SUBSET Row]]
  BY <1>1 DEF History, SyncInv
<1> QED BY <1>1, <1>2, CopiesAreFaithful DEF ServerCopies!Init, History

(* A step that changes the log saves one setting and leaves the snapshot.  *)
LEMMA LogSteps ==
    ASSUME SyncInv, [Next]_vars
    PROVE  \/ UNCHANGED log
           \/ /\ page'.snap = page.snap
              /\ \E k \in Keys, row \in Row : Saves(k, row)
<1> DEFINE Saved == /\ page'.snap = page.snap
                    /\ \E k \in Keys, row \in Row : Saves(k, row)
<1>1. ASSUME NEW s \in Slots, StorePut(s) PROVE UNCHANGED log \/ Saved
  <2>1. \E k \in Keys, row \in Row : \E phase, rows :
            (Answer(s, phase, rows) /\ UNCHANGED log) \/ (Answer(s, phase, rows) /\ Saves(k, row))
    BY <1>1, StoreSaves, ZenonT(60)
  <2>2. ASSUME NEW phase, NEW rows, Answer(s, phase, rows) PROVE page'.snap = page.snap
    BY <2>2 DEF Answer, SyncInv, TruePage, Page
  <2> QED BY <2>1, <2>2
<1>2. ASSUME NEW s \in Slots, TimerFires(s) \/ PollFires(s) \/ Answered(s) \/ ServeRead(s)
                              \/ CheckPut(s) \/ Lost(s)
      PROVE  UNCHANGED log
  BY <1>2 DEF TimerFires, PollFires, Answered, PushEnds, PullEnds, Becomes, ServeRead, CheckPut, Lost
<1>3. ASSUME NEW k \in Keys, NEW broken \in BOOLEAN, NEW a \in Parts(k), Edit(k, a, broken)
      PROVE  UNCHANGED log
  BY <1>3 DEF Edit
<1>4. ASSUME NEW s \in Slots, NEW k \in Keys, NEW a \in Parts(k), OtherSaves(s, k, a)
      PROVE  UNCHANGED log
  BY <1>4 DEF OtherSaves
<1>5. ASSUME PageReloads PROVE UNCHANGED log
  BY <1>5 DEF PageReloads
<1> HIDE DEF Saved
<1>6. UNCHANGED log \/ Saved
  BY <1>1, <1>2, <1>3, <1>4, <1>5, ZenonT(60) DEF Next, Served, vars
<1> QED BY <1>6 DEF Saved

(* Every step is a save of one setting or a change of what is known.       *)
LEMMA StepImplements ==
    ASSUME SyncInv, SyncInv', [Next]_vars
    PROVE  [ServerCopies!Next]_(ServerCopies!vars)
<1>0. ServerCopies!Faithful'
  <2> SUFFICES ASSUME NEW k \in Keys \ {AgentRules}, Copy[k]' # Nothing
               PROVE  (Copy[k] \in log[k])'
    BY DEF ServerCopies!Faithful, Copy
  <2>1. page'.snap[k].version # 0 /\ Copy[k]' = page'.snap[k]
    BY DEF Copy
  <2>2. PICK r \in log'[k] : r.version = page'.snap[k].version /\ page'.snap[k].value = r.value
    BY <2>1 DEF SyncInv, TruePage, TrueCopy, Agrees
  <2>3. r \in Row /\ page'.snap[k] \in Snap
    BY DEF SyncInv, TruePage, Page
  <2>4. page'.snap[k] = r
    BY <2>2, <2>3 DEF Row, Snap
  <2> QED BY <2>1, <2>4
<1>1. CASE \A k \in Keys \ {AgentRules} : log'[k] = log[k]
  <2>1. History' = History
    BY <1>1 DEF History
  <2>2. ServerCopies!Learn
    BY <1>0, <2>1 DEF ServerCopies!Learn, History
  <2> QED BY <2>2 DEF ServerCopies!Next
<1>2. ASSUME NEW k \in Keys \ {AgentRules}, NEW row \in Row, page'.snap = page.snap, Saves(k, row)
      PROVE  ServerCopies!Next
  <2>1. log'[k] = log[k] \cup {row} /\ \A j \in Keys \ {k} : log'[j] = log[j]
    BY <1>2 DEF Saves, SyncInv
  <2>2. ServerCopies!Grown(log[k], log'[k])
    <3>1. log'[k] = log[k] \cup {row, row} /\ row \in log'[k]
      BY <2>1
    <3> QED BY <1>2, <3>1 DEF ServerCopies!Grown, Saves
  <2>3. Copy' = Copy
    BY <1>2 DEF Copy
  <2>4. ServerCopies!Save("settings", {k})
    BY <2>1, <2>2, <2>3 DEF ServerCopies!Save, Copy
  <2> QED BY <2>4 DEF ServerCopies!Next
<1>3. ASSUME NEW k \in Keys, NEW row \in Row, page'.snap = page.snap, Saves(k, row)
      PROVE  [ServerCopies!Next]_(ServerCopies!vars)
  <2>1. CASE k = AgentRules
    BY <1>1, <1>3, <2>1 DEF Saves, SyncInv
  <2>2. CASE k # AgentRules
    BY <1>2, <1>3, <2>2
  <2> QED BY <2>1, <2>2
<1>4. CASE UNCHANGED log
  BY <1>1, <1>4
<1> QED BY <1>3, <1>4, LogSteps

(* The settings that are replaced whole and the page's copies of them      *)
(* behave as Copies says, for any settings, calls, edits, losses and       *)
(* reloads (settingsSync.ts:1-14).                                         *)
THEOREM ImplementationOfCopies == Spec => ImplementsCopies
<1>1. SyncInv /\ SyncInv' /\ [Next]_vars => [ServerCopies!Next]_(ServerCopies!vars)
  BY StepImplements
<1> QED BY <1>1, InitImplements, Invariance, PTL
        DEF Spec, ImplementsCopies, ServerCopies!Spec

-----------------------------------------------------------------------------
(* BrowserTabs *)


-----------------------------------------------------------------------------
(* Maps from some of the elements of A to B.                               *)
PartialMaps(A, B) == UNION {[D -> B] : D \in SUBSET A}

LEMMA PartialMap ==
    ASSUME NEW A, NEW B, NEW f \in PartialMaps(A, B)
    PROVE  IsPartial(f, A, B)
<1> PICK D \in SUBSET A : f \in [D -> B]
  BY DEF PartialMaps
<1> QED
  BY DEF IsPartial

LEMMA IsPartialMap ==
    ASSUME NEW A, NEW B, NEW f, IsPartial(f, A, B)
    PROVE  f \in PartialMaps(A, B)
<1> DEFINE D == DOMAIN f
<1>1. D \in SUBSET A /\ f \in [D -> B]
  BY DEF IsPartial
<1> HIDE DEF D
<1> QED
  BY <1>1 DEF PartialMaps

LEMMA MapBuilt ==
    ASSUME NEW A, NEW B, NEW D \in SUBSET A, NEW f \in [D -> B]
    PROVE  f \in PartialMaps(A, B) /\ DOMAIN f = D
BY DEF PartialMaps

LEMMA EmptyMap ==
    ASSUME NEW A, NEW B
    PROVE  Empty \in PartialMaps(A, B) /\ DOMAIN Empty = {}
<1>1. Empty \in [{} -> B] /\ {} \in SUBSET A
  BY DEF Empty
<1> QED
  BY <1>1, MapBuilt

LEMMA MapsJoined ==
    ASSUME NEW A, NEW B, NEW f \in PartialMaps(A, B), NEW g \in PartialMaps(A, B)
    PROVE  With(f, g) \in PartialMaps(A, B) /\ DOMAIN With(f, g) = DOMAIN f \cup DOMAIN g
<1> DEFINE D == DOMAIN f \cup DOMAIN g
<1>1. IsPartial(f, A, B) /\ IsPartial(g, A, B)
  BY PartialMap
<1>2. D \in SUBSET A /\ With(f, g) \in [D -> B]
  BY <1>1 DEF IsPartial, With
<1>3. With(f, g) \in PartialMaps(A, B) /\ DOMAIN With(f, g) = D
  BY <1>2, MapBuilt
<1> QED
  BY <1>3

LEMMA MapPut ==
    ASSUME NEW A, NEW B, NEW f \in PartialMaps(A, B), NEW a \in A, NEW b \in B
    PROVE  Put(f, a, b) \in PartialMaps(A, B) /\ DOMAIN Put(f, a, b) = DOMAIN f \cup {a}
<1> DEFINE D == DOMAIN f \cup {a}
<1>1. IsPartial(f, A, B)
  BY PartialMap
<1>2. D \in SUBSET A /\ Put(f, a, b) \in [D -> B]
  BY <1>1 DEF IsPartial, Put
<1>3. Put(f, a, b) \in PartialMaps(A, B) /\ DOMAIN Put(f, a, b) = D
  BY <1>2, MapBuilt
<1> QED
  BY <1>3

LEMMA MapRestricted ==
    ASSUME NEW A, NEW B, NEW f \in PartialMaps(A, B), NEW S \in SUBSET DOMAIN f
    PROVE  /\ Restrict(f, S) \in PartialMaps(A, B) /\ DOMAIN Restrict(f, S) = S
           /\ \A x \in S : Restrict(f, S)[x] = f[x]
<1>1. IsPartial(f, A, B)
  BY PartialMap
<1>2. S \in SUBSET A /\ Restrict(f, S) \in [S -> B]
  BY <1>1 DEF IsPartial, Restrict
<1>3. Restrict(f, S) \in PartialMaps(A, B) /\ DOMAIN Restrict(f, S) = S
  BY <1>2, MapBuilt
<1> QED
  BY <1>3 DEF Restrict

-----------------------------------------------------------------------------
(* The stores, and what is changed of one *)

Rosters == PartialMaps(Agents, Person)
Slice == PartialMaps(Agents, Contents)
Plans == [Slices -> Slice]
ParkedDay == [shifts : PartialMaps(Agents, Shift), plan : Plans]
Days == PartialMaps(Dates, ParkedDay)
Stores == {s \in [date : Dates, agents : Rosters, plan : Plans, days : Days, swap : ShiftSwap] :
              s.date \notin DOMAIN s.days}

(* What edits of the open day make of a store.                             *)
Edited(s) == {r \in Stores : r.date = s.date /\ r.days = s.days}

LEMMA StoreParts ==
    ASSUME NEW s \in Stores
    PROVE  /\ s.date \in Dates /\ s.agents \in Rosters /\ s.plan \in Plans
           /\ s.days \in Days /\ s.swap \in ShiftSwap /\ s.date \notin DOMAIN s.days
BY DEF Stores

LEMMA StoreIsStore ==
    ASSUME NEW s \in Stores
    PROVE  IsStore(s)
<1> USE StoreParts
<1>1. IsPartial(s.agents, Agents, Person)
  BY PartialMap DEF Rosters
<1>2. IsPartial(s.days, Dates, ParkedDay)
  BY PartialMap DEF Days
<1>3. ASSUME NEW p \in Plans PROVE IsPlan(p)
  BY <1>3, PartialMap DEF Plans, IsPlan, Slice
<1>4. ASSUME NEW d \in DOMAIN s.days
      PROVE  IsPlan(s.days[d].plan) /\ IsPartial(s.days[d].shifts, Agents, Shift)
  <2>1. s.days[d] \in ParkedDay
    BY <1>2 DEF IsPartial
  <2>2. s.days[d].plan \in Plans /\ s.days[d].shifts \in PartialMaps(Agents, Shift)
    BY <2>1 DEF ParkedDay
  <2> QED
    BY <2>2, <1>3, PartialMap
<1>5. DOMAIN s.days \subseteq Dates
  BY <1>2 DEF IsPartial
<1> QED
  BY <1>1, <1>3, <1>4, <1>5 DEF IsStore

LEMMA AgentsChanged ==
    ASSUME NEW s \in Stores, NEW g \in Rosters
    PROVE  [s EXCEPT !.agents = g] \in Edited(s)
BY DEF Stores, Edited

LEMMA PlanChanged ==
    ASSUME NEW s \in Stores, NEW p \in Plans
    PROVE  [s EXCEPT !.plan = p] \in Edited(s)
BY DEF Stores, Edited

LEMMA SliceChanged ==
    ASSUME NEW s \in Stores, NEW sl \in Slices, NEW f \in Slice
    PROVE  [s EXCEPT !.plan[sl] = f] \in Edited(s) /\ s.plan[sl] \in Slice
<1>1. [s.plan EXCEPT ![sl] = f] \in Plans
  BY StoreParts DEF Plans
<1>2. [s EXCEPT !.plan[sl] = f] = [s EXCEPT !.plan = [s.plan EXCEPT ![sl] = f]]
  BY DEF Stores
<1>3. s.plan[sl] \in Slice
  BY StoreParts DEF Plans
<1> QED
  BY <1>1, <1>2, <1>3, PlanChanged

LEMMA EntryIsContent ==
    ASSUME NEW f \in Slice, NEW a
    PROVE  Entry(f, a) \in Contents
<1>1. IsPartial(f, Agents, Contents)
  BY PartialMap DEF Slice
<1>2. {} \in Contents
  BY DEF Contents
<1> QED
  BY <1>1, <1>2 DEF Entry, IsPartial

LEMMA SlicePut ==
    ASSUME NEW f \in Slice, NEW a \in Agents, NEW x \in Contents
    PROVE  Put(f, a, x) \in Slice
BY MapPut DEF Slice

LEMMA SliceWithout ==
    ASSUME NEW f \in Slice, NEW S
    PROVE  Without(f, S) \in Slice
<1>1. DOMAIN f \ S \in SUBSET DOMAIN f
  OBVIOUS
<1> QED
  BY <1>1, MapRestricted DEF Slice, Without

LEMMA SliceNonEmpty ==
    ASSUME NEW f \in Slice
    PROVE  NonEmpty(f) \in Slice
BY SliceWithout DEF NonEmpty

(* Contents made of numbers.                                               *)
LEMMA ContentsMade ==
    ASSUME NEW n \in Nat
    PROVE  /\ {n} \in Contents /\ {} \in Contents
           /\ \A c \in Contents : c \cup {n} \in Contents /\ c \ {n} \in Contents
           /\ \A c \in Contents : \A z : c \ {z} \in Contents
           /\ \A c \in Contents : \A z : {IF e = z THEN n ELSE e : e \in c} \in Contents
BY DEF Contents

LEMMA AddToType ==
    ASSUME NEW s \in Stores, NEW sl \in Slices, NEW a \in Agents, NEW n \in Nat
    PROVE  AddTo(s, sl, a, n) \in Edited(s)
<1> DEFINE f == Put(s.plan[sl], a, Entry(s.plan[sl], a) \cup {n})
<1>1. s.plan[sl] \in Slice
  BY StoreParts DEF Plans
<1>2. Entry(s.plan[sl], a) \cup {n} \in Contents
  BY <1>1, EntryIsContent, ContentsMade
<1>3. f \in Slice
  BY <1>1, <1>2, SlicePut
<1> HIDE DEF f
<1>4. [s EXCEPT !.plan[sl] = f] \in Edited(s)
  BY <1>3, SliceChanged
<1> QED
  BY <1>4 DEF f, AddTo

LEMMA UpdateActivityType ==
    ASSUME NEW s \in Stores, NEW a \in Agents, NEW x, NEW n \in Nat
    PROVE  UpdateActivity(s, a, x, n) \in Edited(s)
<1> DEFINE old == s.plan["activities"]
           c == {IF z = x THEN n ELSE z : z \in Entry(old, a)}
           f == Put(old, a, c)
<1>1. old \in Slice /\ "activities" \in Slices
  BY StoreParts DEF Plans, Slices
<1>2. Entry(old, a) \in Contents
  BY <1>1, EntryIsContent
<1>3. c \in Contents
  BY <1>2, ContentsMade
<1>4. f \in Slice
  BY <1>1, <1>3, SlicePut
<1>5. UpdateActivity(s, a, x, n) = [s EXCEPT !.plan["activities"] = f]
  BY DEF UpdateActivity
<1> HIDE DEF f
<1>6. [s EXCEPT !.plan["activities"] = f] \in Edited(s)
  BY <1>1, <1>4, SliceChanged
<1> QED
  BY <1>5, <1>6

LEMMA RemoveActivityType ==
    ASSUME NEW s \in Stores, NEW a \in Agents, NEW x
    PROVE  RemoveActivity(s, a, x) \in Edited(s)
<1> DEFINE old == s.plan["activities"]
           rest == Entry(old, a) \ {x}
           f == IF rest = {} THEN Without(old, {a}) ELSE Put(old, a, rest)
<1>1. old \in Slice /\ "activities" \in Slices
  BY StoreParts DEF Plans, Slices
<1>2. Entry(old, a) \in Contents
  BY <1>1, EntryIsContent
<1>3. rest \in Contents
  BY <1>2, ContentsMade
<1>4. Put(old, a, rest) \in Slice /\ Without(old, {a}) \in Slice
  BY <1>1, <1>3, SlicePut, SliceWithout
<1>5. f \in Slice
  BY <1>4
<1>6. RemoveActivity(s, a, x) = [s EXCEPT !.plan["activities"] = f]
  BY DEF RemoveActivity
<1> HIDE DEF f
<1>7. [s EXCEPT !.plan["activities"] = f] \in Edited(s)
  BY <1>1, <1>5, SliceChanged
<1> QED
  BY <1>6, <1>7

(* Two slices of the plan are changed.                                     *)
LEMMA ChannelsChanged ==
    ASSUME NEW s \in Stores, NEW f \in Slice, NEW g \in Slice
    PROVE  [s EXCEPT !.plan["channels"] = f, !.plan["overtime"] = g] \in Edited(s)
<1> DEFINE p == [s.plan EXCEPT !["channels"] = f, !["overtime"] = g]
<1>1. p \in Plans
  BY StoreParts DEF Plans, Slices
<1>2. [s EXCEPT !.plan["channels"] = f, !.plan["overtime"] = g] = [s EXCEPT !.plan = p]
  BY DEF Stores
<1> HIDE DEF p
<1>3. [s EXCEPT !.plan = p] \in Edited(s)
  BY <1>1, PlanChanged
<1> QED
  BY <1>2, <1>3

LEMMA SetAgentScheduleType ==
    ASSUME NEW s \in Stores, NEW a \in Agents, NEW c \in Contents, NEW o \in Contents
    PROVE  SetAgentSchedule(s, a, c, o) \in Edited(s)
<1> DEFINE f == Put(s.plan["channels"], a, c)
           g == IF o = {} THEN Without(s.plan["overtime"], {a}) ELSE Put(s.plan["overtime"], a, o)
<1>1. s.plan["channels"] \in Slice /\ s.plan["overtime"] \in Slice
  BY StoreParts DEF Plans, Slices
<1>2. f \in Slice
  BY <1>1, SlicePut
<1>3. Put(s.plan["overtime"], a, o) \in Slice /\ Without(s.plan["overtime"], {a}) \in Slice
  BY <1>1, SlicePut, SliceWithout
<1>4. g \in Slice
  BY <1>3
<1>5. SetAgentSchedule(s, a, c, o) = [s EXCEPT !.plan["channels"] = f, !.plan["overtime"] = g]
  BY DEF SetAgentSchedule, Stores
<1> HIDE DEF f, g
<1>6. [s EXCEPT !.plan["channels"] = f, !.plan["overtime"] = g] \in Edited(s)
  BY <1>2, <1>4, ChannelsChanged
<1> QED
  BY <1>5, <1>6

LEMMA ResetAgentScheduleType ==
    ASSUME NEW s \in Stores, NEW a \in Agents
    PROVE  ResetAgentSchedule(s, a) \in Edited(s)
<1> DEFINE f == Without(s.plan["channels"], {a})
           g == Without(s.plan["overtime"], {a})
<1>1. s.plan["channels"] \in Slice /\ s.plan["overtime"] \in Slice
  BY StoreParts DEF Plans, Slices
<1>2. f \in Slice /\ g \in Slice
  BY <1>1, SliceWithout
<1>3. ResetAgentSchedule(s, a) = [s EXCEPT !.plan["channels"] = f, !.plan["overtime"] = g]
  BY DEF ResetAgentSchedule, Stores
<1> HIDE DEF f, g
<1>4. [s EXCEPT !.plan["channels"] = f, !.plan["overtime"] = g] \in Edited(s)
  BY <1>2, ChannelsChanged
<1> QED
  BY <1>3, <1>4

LEMMA BreaksType ==
    ASSUME NEW s \in Stores
    PROVE  /\ \A f \in Slice : ApplyBreakOverrides(s, f) \in Edited(s)
           /\ \A a \in Agents : \A n \in Nat : ApplyBreakChange(s, a, n) \in Edited(s)
<1>1. "breaks" \in Slices
  BY DEF Slices
<1>2. ASSUME NEW f \in Slice PROVE ApplyBreakOverrides(s, f) \in Edited(s)
  BY <1>1, SliceChanged DEF ApplyBreakOverrides
<1>3. ASSUME NEW a \in Agents, NEW n \in Nat PROVE ApplyBreakChange(s, a, n) \in Edited(s)
  <2>1. AddTo(s, "breaks", a, n) \in Edited(s)
    BY <1>1, AddToType
  <2> QED
    BY <2>1 DEF ApplyBreakChange, AddTo
<1> QED
  BY <1>2, <1>3

-----------------------------------------------------------------------------
(* The roster *)

LEMMA RosterMap ==
    ASSUME NEW g \in Rosters
    PROVE  DOMAIN g \subseteq Agents /\ g \in [DOMAIN g -> Person]
BY PartialMap DEF Rosters, IsPartial

(* A roster of the same people.                                            *)
LEMMA SamePeople ==
    ASSUME NEW g \in Rosters, NEW h \in [DOMAIN g -> Person]
    PROVE  h \in Rosters /\ DOMAIN h = DOMAIN g
<1>1. DOMAIN g \in SUBSET Agents
  BY RosterMap
<1> QED
  BY <1>1, MapBuilt DEF Rosters

LEMMA SwapShiftsType ==
    ASSUME NEW g \in Rosters, NEW a, NEW b
    PROVE  SwapShifts(g, a, b) \in Rosters
<1>1. CASE ~ {a, b} \subseteq DOMAIN g
  BY <1>1 DEF SwapShifts
<1>2. CASE {a, b} \subseteq DOMAIN g
  <2>1. g \in [DOMAIN g -> Person] /\ a \in DOMAIN g /\ b \in DOMAIN g
    BY <1>2, RosterMap
  <2>2. g[a] \in Person /\ g[b] \in Person
    BY <2>1
  <2>3. SwapShifts(g, a, b) \in [DOMAIN g -> Person]
    BY <1>2, <2>1, <2>2 DEF SwapShifts, Person
  <2> QED
    BY <2>3, SamePeople
<1> QED
  BY <1>1, <1>2

LEMMA ProposeSwapType ==
    ASSUME NEW s \in Stores, NEW a \in Agents, NEW b \in Agents, NEW auto \in BOOLEAN
    PROVE  ProposeSwap(s, a, b, auto) \in Edited(s)
<1> DEFINE status == IF auto THEN "Auto-Approved" ELSE "Pending"
           w == [from |-> a, to |-> b, status |-> status]
           g == IF auto THEN SwapShifts(s.agents, a, b) ELSE s.agents
<1>1. w \in ShiftSwap
  BY DEF ShiftSwap
<1>2. SwapShifts(s.agents, a, b) \in Rosters /\ s.agents \in Rosters
  BY SwapShiftsType, StoreParts
<1>3. g \in Rosters
  BY <1>2
<1>4. ProposeSwap(s, a, b, auto) = IF {a, b} \subseteq DOMAIN s.agents
                                   THEN [s EXCEPT !.swap = w, !.agents = g] ELSE s
  BY DEF ProposeSwap, Stores
<1> HIDE DEF w, g
<1>5. [s EXCEPT !.swap = w, !.agents = g] \in Edited(s) /\ s \in Edited(s)
  BY <1>1, <1>3 DEF Stores, Edited
<1> QED
  BY <1>4, <1>5

LEMMA SetSwapStatusType ==
    ASSUME NEW s \in Stores, NEW status \in {"Approved", "Denied"}
    PROVE  SetSwapStatus(s, status) \in Edited(s)
<1> DEFINE w == [s.swap EXCEPT !.status = status]
           g == IF status = "Approved" THEN SwapShifts(s.agents, s.swap.from, s.swap.to)
                ELSE s.agents
<1>1. w \in ShiftSwap
  BY StoreParts DEF ShiftSwap
<1>2. SwapShifts(s.agents, s.swap.from, s.swap.to) \in Rosters /\ s.agents \in Rosters
  BY SwapShiftsType, StoreParts
<1>3. g \in Rosters
  BY <1>2
<1>4. SetSwapStatus(s, status) = IF s.swap.status = "Pending"
                                 THEN [s EXCEPT !.swap = w, !.agents = g] ELSE s
  <2>1. s.swap \in ShiftSwap
    BY StoreParts
  <2>2. [s EXCEPT !.swap.status = status,
                  !.agents = IF status = "Approved"
                             THEN SwapShifts(@, s.swap.from, s.swap.to) ELSE @]
          = [s EXCEPT !.swap = w, !.agents = g]
    BY <2>1 DEF Stores
  <2> QED
    BY <2>2 DEF SetSwapStatus
<1> HIDE DEF w, g
<1>5. [s EXCEPT !.swap = w, !.agents = g] \in Edited(s) /\ s \in Edited(s)
  BY <1>1, <1>3 DEF Stores, Edited
<1> QED
  BY <1>4, <1>5

LEMMA AssignWorkRuleType ==
    ASSUME NEW s \in Stores, NEW a \in DOMAIN s.agents,
           NEW p \in Patterns \cup {NoPattern}, NEW off \in SUBSET Nat
    PROVE  AssignWorkRule(s, a, p, off) \in Edited(s)
<1> DEFINE g == [s.agents EXCEPT ![a].pattern = p, ![a].off = off]
<1>1. s.agents \in Rosters /\ s.agents \in [DOMAIN s.agents -> Person]
  BY StoreParts, RosterMap
<1>2. s.agents[a] \in Person
  BY <1>1
<1>3. g \in [DOMAIN s.agents -> Person]
  BY <1>1, <1>2 DEF Person
<1>4. g \in Rosters
  BY <1>1, <1>3, SamePeople
<1>5. AssignWorkRule(s, a, p, off) = [s EXCEPT !.agents = g]
  BY DEF AssignWorkRule, Stores
<1> HIDE DEF g
<1> QED
  BY <1>4, <1>5, AgentsChanged

LEMMA SetWeekOffType ==
    ASSUME NEW s \in Stores, NEW a \in DOMAIN s.agents, NEW off \in SUBSET Nat
    PROVE  SetWeekOff(s, a, off) \in Edited(s)
<1> DEFINE g == [s.agents EXCEPT ![a].off = off]
<1>1. s.agents \in Rosters /\ s.agents \in [DOMAIN s.agents -> Person]
  BY StoreParts, RosterMap
<1>2. s.agents[a] \in Person
  BY <1>1
<1>3. g \in [DOMAIN s.agents -> Person]
  BY <1>1, <1>2 DEF Person
<1>4. g \in Rosters
  BY <1>1, <1>3, SamePeople
<1>5. SetWeekOff(s, a, off) = [s EXCEPT !.agents = g]
  BY DEF SetWeekOff, Stores
<1> HIDE DEF g
<1> QED
  BY <1>4, <1>5, AgentsChanged

LEMMA AddAgentType ==
    ASSUME NEW s \in Stores, NEW a \in Agents, NEW p \in Patterns
    PROVE  AddAgent(s, a, p) \in Edited(s)
<1> DEFINE x == [shift |-> ShiftOf[p], pattern |-> p, off |-> {}]
           g == Put(s.agents, a, x)
<1>1. x \in Person
  BY DEF Person, Shift, Times
<1>2. s.agents \in Rosters
  BY StoreParts
<1> HIDE DEF x
<1>3. g \in Rosters
  BY <1>1, <1>2, MapPut DEF Rosters
<1>4. AddAgent(s, a, p) = [s EXCEPT !.agents = g]
  BY DEF AddAgent, x
<1> HIDE DEF g
<1> QED
  BY <1>3, <1>4, AgentsChanged

LEMMA DeleteEmployeeType ==
    ASSUME NEW s \in Stores, NEW a
    PROVE  DeleteEmployee(s, a) \in Edited(s)
<1> DEFINE g == Without(s.agents, {a})
<1>1. s.agents \in Rosters /\ DOMAIN s.agents \ {a} \in SUBSET DOMAIN s.agents
  BY StoreParts
<1>2. g \in Rosters
  BY <1>1, MapRestricted DEF Rosters, Without
<1>3. DeleteEmployee(s, a) = [s EXCEPT !.agents = g]
  BY DEF DeleteEmployee
<1> HIDE DEF g
<1> QED
  BY <1>2, <1>3, AgentsChanged

-----------------------------------------------------------------------------
(* Days *)


LEMMA ShiftsType ==
    ASSUME NEW g \in Rosters
    PROVE  Shifts(g) \in PartialMaps(Agents, Shift)
<1>1. DOMAIN g \in SUBSET Agents /\ g \in [DOMAIN g -> Person]
  BY RosterMap
<1>2. Shifts(g) \in [DOMAIN g -> Shift]
  BY <1>1 DEF Shifts, Person
<1> QED
  BY <1>1, <1>2, MapBuilt

LEMMA ParkedType ==
    ASSUME NEW v, v.agents \in Rosters, v.plan \in Plans
    PROVE  Parked(v) \in ParkedDay
BY ShiftsType DEF Parked, ParkedDay

LEMMA DayPut ==
    ASSUME NEW D \in Days, NEW d \in Dates, NEW p \in ParkedDay
    PROVE  Put(D, d, p) \in Days /\ DOMAIN Put(D, d, p) = DOMAIN D \cup {d}
<1> DEFINE M == PartialMaps(Dates, ParkedDay)
<1>1. D \in M
  BY DEF Days
<1>2. Put(D, d, p) \in M /\ DOMAIN Put(D, d, p) = DOMAIN D \cup {d}
  BY <1>1, MapPut
<1> QED
  BY <1>2 DEF Days

LEMMA DaysJoined ==
    ASSUME NEW D \in Days, NEW E \in Days
    PROVE  With(D, E) \in Days /\ DOMAIN With(D, E) = DOMAIN D \cup DOMAIN E
<1>1. D \in PartialMaps(Dates, ParkedDay) /\ E \in PartialMaps(Dates, ParkedDay)
  BY DEF Days
<1> QED
  <2> DEFINE M == PartialMaps(Dates, ParkedDay)
  <2>1. With(D, E) \in M /\ DOMAIN With(D, E) = DOMAIN D \cup DOMAIN E
    BY <1>1, MapsJoined
  <2> QED
    BY <2>1 DEF Days

LEMMA DayParts ==
    ASSUME NEW s \in Stores, NEW d \in DOMAIN s.days
    PROVE  /\ d \in Dates /\ s.days[d] \in ParkedDay
           /\ s.days[d].shifts \in PartialMaps(Agents, Shift) /\ s.days[d].plan \in Plans
           /\ s.days[d] = [shifts |-> s.days[d].shifts, plan |-> s.days[d].plan]
<1>1. IsPartial(s.days, Dates, ParkedDay)
  BY StoreParts, PartialMap DEF Days
<1> QED
  BY <1>1 DEF IsPartial, ParkedDay

LEMMA BaseShiftType ==
    ASSUME NEW g \in Person
    PROVE  BaseShiftFor(g) \in Shift
BY DEF BaseShiftFor, Person, Shift, Times

(* The roster on the shifts of a day.                                      *)
LEMMA OnDayShifts ==
    ASSUME NEW g \in Rosters, NEW f \in PartialMaps(Agents, Shift)
    PROVE  OnShifts(g, f, BaseShiftFor) \in Rosters
<1>1. g \in [DOMAIN g -> Person] /\ f \in [DOMAIN f -> Shift]
  BY RosterMap, PartialMap DEF IsPartial
<1> DEFINE sh(a) == IF a \in DOMAIN f THEN f[a] ELSE BaseShiftFor(g[a])
<1>2. ASSUME NEW a \in DOMAIN g PROVE [g[a] EXCEPT !.shift = sh(a)] \in Person
  <2>1. g[a] \in Person
    BY <1>1
  <2>2. sh(a) \in Shift
    BY <1>1, <2>1, BaseShiftType
  <2> HIDE DEF sh
  <2> QED
    BY <2>1, <2>2 DEF Person
<1>3. OnShifts(g, f, BaseShiftFor) \in [DOMAIN g -> Person]
  BY <1>2 DEF OnShifts
<1> QED
  BY <1>3, SamePeople

LEMMA ScheduleType ==
    ASSUME NEW s \in Stores, NEW d
    PROVE  /\ ScheduleForDate(s, d).agents \in Rosters
           /\ ScheduleForDate(s, d).plan \in Plans
<1>1. CASE d = s.date
  BY <1>1, StoreParts DEF ScheduleForDate
<1>2. CASE d # s.date /\ d \in DOMAIN s.days
  <2>1. s.days[d].shifts \in PartialMaps(Agents, Shift) /\ s.days[d].plan \in Plans
    BY <1>2, DayParts
  <2>2. OnShifts(s.agents, s.days[d].shifts, BaseShiftFor) \in Rosters
    BY <2>1, StoreParts, OnDayShifts
  <2> QED
    BY <1>2, <2>1, <2>2 DEF ScheduleForDate
<1>3. CASE d # s.date /\ d \notin DOMAIN s.days
  <2> DEFINE g == OnShifts(s.agents, Empty, BaseShiftFor)
             f == WeekOffActivities(g, d)
             p == [NoPlan EXCEPT !["activities"] = f]
  <2>1. Empty \in PartialMaps(Agents, Shift) /\ Empty \in Slice
    BY EmptyMap DEF Slice
  <2>2. g \in Rosters
    BY <2>1, StoreParts, OnDayShifts
  <2> HIDE DEF g
  <2>3. f \in Slice
    <3> DEFINE D == {b \in DOMAIN g : d \in g[b].off}
    <3>1. D \in SUBSET Agents
      BY <2>2, RosterMap
    <3>2. {WeekOff} \in Contents
      BY DEF Contents
    <3>3. f \in [D -> Contents]
      BY <3>2 DEF WeekOffActivities
    <3> QED
      BY <3>1, <3>3, MapBuilt DEF Slice
  <2> HIDE DEF f
  <2>4. p \in Plans
    BY <2>1, <2>3 DEF NoPlan, Plans
  <2>5. ScheduleForDate(s, d) = [agents |-> g, plan |-> p]
    BY <1>3 DEF ScheduleForDate, g, f
  <2> QED
    BY <2>2, <2>4, <2>5
<1> QED
  BY <1>1, <1>2, <1>3

(* Whole days of some agents, as the timeline sends them.                  *)
DayPatch == [shift : Shift, breaks : Contents, channels : Contents,
             overtime : Contents, activities : Contents]
DayPatches == PartialMaps(Agents, DayPatch)

LEMMA PatchedType ==
    ASSUME NEW v, v.agents \in Rosters, v.plan \in Plans, NEW items \in DayPatches
    PROVE  /\ DayPatchSlices(v, items).agents \in Rosters
           /\ DayPatchSlices(v, items).plan \in Plans
<1> DEFINE Patched(sl) == With(v.plan[sl], [a \in DOMAIN items |-> items[a][sl]])
           g == [a \in DOMAIN v.agents |->
                    IF a \in DOMAIN items
                    THEN [v.agents[a] EXCEPT !.shift = items[a].shift] ELSE v.agents[a]]
           p == [sl \in Slices |-> IF sl \in {"overtime", "activities"}
                                   THEN NonEmpty(Patched(sl)) ELSE Patched(sl)]
<1>1. DOMAIN items \in SUBSET Agents /\ items \in [DOMAIN items -> DayPatch]
  BY PartialMap DEF DayPatches, IsPartial
<1>2. g \in Rosters
  <2>1. v.agents \in [DOMAIN v.agents -> Person]
    BY RosterMap
  <2>2. ASSUME NEW a \in DOMAIN items, NEW x \in Person
        PROVE  [x EXCEPT !.shift = items[a].shift] \in Person
    BY <1>1, <2>2 DEF Person, DayPatch
  <2>3. g \in [DOMAIN v.agents -> Person]
    BY <2>1, <2>2
  <2> QED
    BY <2>3, SamePeople
<1>3. ASSUME NEW sl \in Slices
      PROVE  Patched(sl) \in Slice /\ NonEmpty(Patched(sl)) \in Slice
  <2> DEFINE f == [a \in DOMAIN items |-> items[a][sl]]
  <2>1. v.plan[sl] \in Slice
    BY DEF Plans
  <2>2. ASSUME NEW a \in DOMAIN items PROVE items[a][sl] \in Contents
    BY <1>1, <2>2 DEF Slices, DayPatch
  <2>3. f \in [DOMAIN items -> Contents]
    BY <2>2
  <2>4. f \in Slice
    BY <1>1, <2>3, MapBuilt DEF Slice
  <2> HIDE DEF f
  <2>5. With(v.plan[sl], f) \in Slice
    BY <2>1, <2>4, MapsJoined DEF Slice
  <2>6. Patched(sl) \in Slice
    BY <2>5 DEF f
  <2> HIDE DEF Patched
  <2> QED
    BY <2>6, SliceNonEmpty
<1>4. p \in Plans
  <2> HIDE DEF Patched
  <2> QED
    BY <1>3 DEF Plans
<1>5. DayPatchSlices(v, items) = [agents |-> g, plan |-> p]
  BY DEF DayPatchSlices
<1> HIDE DEF g, p
<1> QED
  BY <1>2, <1>4, <1>5

LEMMA UpdateAgentDaysType ==
    ASSUME NEW s \in Stores, NEW items \in DayPatches
    PROVE  UpdateAgentDays(s, items) \in Edited(s)
<1> DEFINE v == DayPatchSlices(s, items)
<1>1. v.agents \in Rosters /\ v.plan \in Plans
  BY StoreParts, PatchedType
<1>2. UpdateAgentDays(s, items) = [s EXCEPT !.agents = v.agents, !.plan = v.plan]
  BY DEF UpdateAgentDays
<1> HIDE DEF v
<1>3. [s EXCEPT !.agents = v.agents, !.plan = v.plan] \in Edited(s)
  BY <1>1 DEF Stores, Edited
<1> QED
  BY <1>2, <1>3

(* Other parked days.                                                      *)
LEMMA DaysChanged ==
    ASSUME NEW s \in Stores, NEW D \in Days, s.date \notin DOMAIN D
    PROVE  [s EXCEPT !.days = D] \in Stores
BY DEF Stores

LEMMA ApplyDayPatchesType ==
    ASSUME NEW s \in Stores, NEW d \in Dates, NEW items \in DayPatches
    PROVE  ApplyDayPatches(s, d, items) \in Stores
<1>1. CASE d = s.date
  BY <1>1, UpdateAgentDaysType DEF ApplyDayPatches, Edited
<1>2. CASE d # s.date
  <2> DEFINE v == DayPatchSlices(ScheduleForDate(s, d), items)
             D == Put(s.days, d, Parked(v))
  <2>1. v.agents \in Rosters /\ v.plan \in Plans
    BY ScheduleType, PatchedType
  <2>2. ApplyDayPatches(s, d, items) = [s EXCEPT !.days = D]
    BY <1>2 DEF ApplyDayPatches
  <2> HIDE DEF v
  <2>3. Parked(v) \in ParkedDay
    BY <2>1, ParkedType
  <2>4. D \in Days /\ DOMAIN D = DOMAIN s.days \cup {d}
    BY <2>3, StoreParts, DayPut
  <2> HIDE DEF D
  <2>5. s.date \notin DOMAIN D
    BY <2>4, <1>2, StoreParts
  <2> QED
    BY <2>2, <2>4, <2>5, DaysChanged
<1> QED
  BY <1>1, <1>2

(* All the days a store has, the open one among them.                      *)
LEMMA DatedType ==
    ASSUME NEW s \in Stores
    PROVE  /\ DatedSchedules(s) \in Days
           /\ DOMAIN DatedSchedules(s) = DOMAIN s.days \cup {s.date}
           /\ DatedSchedules(s)[s.date] = Parked(s)
           /\ \A d \in DOMAIN s.days : d # s.date /\ DatedSchedules(s)[d] = s.days[d]
<1>1. Parked(s) \in ParkedDay
  BY StoreParts, ParkedType
<1>2. /\ DatedSchedules(s) \in Days
      /\ DOMAIN DatedSchedules(s) = DOMAIN s.days \cup {s.date}
  BY <1>1, StoreParts, DayPut DEF DatedSchedules
<1>3. /\ DatedSchedules(s)[s.date] = Parked(s)
      /\ \A d \in DOMAIN s.days : d # s.date /\ DatedSchedules(s)[d] = s.days[d]
  BY StoreParts DEF DatedSchedules, Put
<1> QED
  BY <1>2, <1>3

LEMMA SetScheduleDateType ==
    ASSUME NEW s \in Stores, NEW d \in Dates, NEW day
    PROVE  SetScheduleDate(s, d, day) \in Stores
<1>1. CASE d = s.date
  BY <1>1 DEF SetScheduleDate
<1>2. CASE d # s.date
  <2> DEFINE kept == DatedSchedules(s)
             K == {e \in DOMAIN kept : e # d /\ e + KeepPast >= day}
             D == Restrict(kept, K)
             g == ScheduleForDate(s, d).agents
             p == ScheduleForDate(s, d).plan
  <2>1. kept \in Days
    BY DatedType
  <2>2. K \in SUBSET DOMAIN kept /\ d \notin K
    OBVIOUS
  <2>3. SetScheduleDate(s, d, day) = [s EXCEPT !.date = d, !.agents = g, !.plan = p, !.days = D]
    BY <1>2 DEF SetScheduleDate, DatedSchedules
  <2> HIDE DEF kept, K
  <2>4. D \in Days /\ DOMAIN D = K
    BY <2>1, <2>2, MapRestricted DEF Days
  <2>5. g \in Rosters /\ p \in Plans
    BY ScheduleType
  <2> HIDE DEF D, g, p
  <2>6. [s EXCEPT !.date = d, !.agents = g, !.plan = p, !.days = D] \in Stores
    BY <2>2, <2>4, <2>5 DEF Stores
  <2> QED
    BY <2>3, <2>6
<1> QED
  BY <1>1, <1>2

-----------------------------------------------------------------------------
(* What another tab has saved *)

(* What ApplyRemoteState is made of: the day it opens, the roster on the   *)
(* shifts of that day, and the days it parks.                              *)
Differing(s, r) ==
    {d \in DOMAIN DatedSchedules(r) :
        d \notin DOMAIN DatedSchedules(s) \/ DatedSchedules(r)[d] # DatedSchedules(s)[d]}
OpenDay(s, r) ==
    IF s.date \in Differing(s, r) THEN DatedSchedules(r)[s.date] ELSE DatedSchedules(s)[s.date]
TheirRoster(s, r) ==
    [a \in DOMAIN r.agents |->
        [r.agents[a] EXCEPT !.shift = IF a \in DOMAIN OpenDay(s, r).shifts
                                      THEN OpenDay(s, r).shifts[a] ELSE r.agents[a].shift]]
TheirDays(s, r) ==
    With(s.days, Restrict(DatedSchedules(r), Differing(s, r) \ {s.date}))

LEMMA RemoteParts ==
    ASSUME NEW s, NEW r
    PROVE  ApplyRemoteState(s, r)
             = [s EXCEPT !.swap = r.swap, !.plan = OpenDay(s, r).plan,
                         !.agents = TheirRoster(s, r), !.days = TheirDays(s, r)]
BY DEF ApplyRemoteState, OnShifts, Differing, OpenDay, TheirRoster, TheirDays

LEMMA DatedParts ==
    ASSUME NEW s \in Stores, NEW d \in DOMAIN DatedSchedules(s)
    PROVE  /\ DatedSchedules(s)[d] \in ParkedDay
           /\ DatedSchedules(s)[d].shifts \in PartialMaps(Agents, Shift)
           /\ DatedSchedules(s)[d].plan \in Plans
<1> DEFINE M == DatedSchedules(s)
<1>1. M \in Days
  BY DatedType
<1> HIDE DEF M
<1>2. IsPartial(M, Dates, ParkedDay)
  BY <1>1, PartialMap DEF Days
<1>3. d \in DOMAIN M
  BY DEF M
<1>4. M[d] \in ParkedDay
  BY <1>2, <1>3 DEF IsPartial
<1>5. M[d].shifts \in PartialMaps(Agents, Shift) /\ M[d].plan \in Plans
  BY <1>4 DEF ParkedDay
<1> QED
  BY <1>4, <1>5 DEF M

LEMMA OpenDayType ==
    ASSUME NEW s \in Stores, NEW r \in Stores
    PROVE  /\ OpenDay(s, r).shifts \in PartialMaps(Agents, Shift)
           /\ OpenDay(s, r).plan \in Plans
<1>1. s.date \in DOMAIN DatedSchedules(s)
  BY DatedType
<1>2. CASE s.date \in Differing(s, r)
  <2>1. s.date \in DOMAIN DatedSchedules(r) /\ OpenDay(s, r) = DatedSchedules(r)[s.date]
    BY <1>2 DEF OpenDay, Differing
  <2> QED
    BY <2>1, DatedParts
<1>3. CASE s.date \notin Differing(s, r)
  <2>1. OpenDay(s, r) = DatedSchedules(s)[s.date]
    BY <1>3 DEF OpenDay
  <2> QED
    BY <1>1, <2>1, DatedParts
<1> QED
  BY <1>2, <1>3

LEMMA TheirRosterType ==
    ASSUME NEW s \in Stores, NEW r \in Stores
    PROVE  TheirRoster(s, r) \in Rosters
<1> DEFINE g == r.agents
           f == OpenDay(s, r).shifts
           sh(a) == IF a \in DOMAIN f THEN f[a] ELSE g[a].shift
<1>1. g \in Rosters /\ f \in PartialMaps(Agents, Shift)
  BY StoreParts, OpenDayType
<1>2. TheirRoster(s, r) = [a \in DOMAIN g |-> [g[a] EXCEPT !.shift = sh(a)]]
  BY DEF TheirRoster
<1> HIDE DEF f, g
<1>3. g \in [DOMAIN g -> Person] /\ f \in [DOMAIN f -> Shift]
  BY <1>1, RosterMap, PartialMap DEF IsPartial
<1>4. ASSUME NEW a \in DOMAIN g PROVE [g[a] EXCEPT !.shift = sh(a)] \in Person
  <2>1. g[a] \in Person
    BY <1>3
  <2>2. sh(a) \in Shift
    BY <1>3, <2>1 DEF Person
  <2> HIDE DEF sh
  <2> QED
    BY <2>1, <2>2 DEF Person
<1> HIDE DEF sh
<1>5. [a \in DOMAIN g |-> [g[a] EXCEPT !.shift = sh(a)]] \in [DOMAIN g -> Person]
  BY <1>4
<1> QED
  BY <1>1, <1>2, <1>5, SamePeople

LEMMA TheirDaysType ==
    ASSUME NEW s \in Stores, NEW r \in Stores
    PROVE  TheirDays(s, r) \in Days /\ s.date \notin DOMAIN TheirDays(s, r)
<1> DEFINE M == DatedSchedules(r)
           K == Differing(s, r) \ {s.date}
           R == Restrict(M, K)
<1>1. M \in Days /\ K \in SUBSET DOMAIN M /\ s.date \notin K
  BY DatedType DEF Differing
<1> HIDE DEF M, K
<1>2. R \in Days /\ DOMAIN R = K
  BY <1>1, MapRestricted DEF Days
<1> HIDE DEF R
<1>3. s.days \in Days /\ s.date \notin DOMAIN s.days
  BY StoreParts
<1>4. With(s.days, R) \in Days /\ DOMAIN With(s.days, R) = DOMAIN s.days \cup DOMAIN R
  BY <1>2, <1>3, DaysJoined
<1>5. TheirDays(s, r) = With(s.days, R)
  BY DEF TheirDays, R, M, K
<1> QED
  BY <1>1, <1>2, <1>3, <1>4, <1>5

LEMMA ApplyRemoteStateType ==
    ASSUME NEW s \in Stores, NEW r \in Stores
    PROVE  ApplyRemoteState(s, r) \in Stores
<1> DEFINE w == r.swap
           p == OpenDay(s, r).plan
           g == TheirRoster(s, r)
           D == TheirDays(s, r)
<1>1. w \in ShiftSwap /\ p \in Plans /\ g \in Rosters
  BY StoreParts, OpenDayType, TheirRosterType
<1>2. D \in Days /\ s.date \notin DOMAIN D
  BY TheirDaysType
<1>3. ApplyRemoteState(s, r) = [s EXCEPT !.swap = w, !.plan = p, !.agents = g, !.days = D]
  BY RemoteParts
<1> HIDE DEF w, p, g, D
<1>4. [s EXCEPT !.swap = w, !.plan = p, !.agents = g, !.days = D] \in Stores
  BY <1>1, <1>2 DEF Stores
<1> QED
  BY <1>3, <1>4

-----------------------------------------------------------------------------
(* What a tab that took over w, and saw no difference, has in common with w*)

FollowsDay(s, w, d) ==
    LET mine == DatedSchedules(s)[d]
        theirs == DatedSchedules(w)[d]
    IN  /\ mine.plan = theirs.plan
        /\ \A a \in DOMAIN mine.shifts :
               mine.shifts[a] = IF a \in DOMAIN theirs.shifts THEN theirs.shifts[a]
                                ELSE w.agents[a].shift

FollowsRoster(s, w) ==
    /\ s.swap = w.swap /\ DOMAIN s.agents = DOMAIN w.agents
    /\ \A a \in DOMAIN s.agents : /\ s.agents[a].pattern = w.agents[a].pattern
                                  /\ s.agents[a].off = w.agents[a].off

Keeps(s, P) == P \subseteq DOMAIN DatedSchedules(s)
Follows(s, w, P) == FollowsRoster(s, w) /\ \A d \in P : FollowsDay(s, w, d)

LEMMA NothingToTakeOver ==
    ASSUME NEW s \in Stores, NEW w \in Stores, ApplyRemoteState(s, w) = s
    PROVE  /\ s.swap = w.swap /\ s.plan = OpenDay(s, w).plan
           /\ s.agents = TheirRoster(s, w) /\ s.days = TheirDays(s, w)
<1> DEFINE x == w.swap
           p == OpenDay(s, w).plan
           g == TheirRoster(s, w)
           D == TheirDays(s, w)
<1>1. s = [s EXCEPT !.swap = x, !.plan = p, !.agents = g, !.days = D]
  BY RemoteParts
<1> HIDE DEF x, p, g, D
<1>2. s.swap = x /\ s.plan = p /\ s.agents = g /\ s.days = D
  BY <1>1 DEF Stores
<1> QED
  BY <1>2 DEF x, p, g, D

LEMMA QuietRoster ==
    ASSUME NEW s \in Stores, NEW w \in Stores, ApplyRemoteState(s, w) = s
    PROVE  FollowsRoster(s, w)
<1>1. s.swap = w.swap /\ s.agents = TheirRoster(s, w)
  BY NothingToTakeOver
<1>2. DOMAIN s.agents = DOMAIN w.agents
  BY <1>1 DEF TheirRoster
<1>3. ASSUME NEW a \in DOMAIN w.agents
      PROVE  s.agents[a].pattern = w.agents[a].pattern /\ s.agents[a].off = w.agents[a].off
  <2>1. w.agents[a] \in Person
    BY StoreParts, RosterMap
  <2>2. s.agents[a] = [w.agents[a] EXCEPT !.shift = IF a \in DOMAIN OpenDay(s, w).shifts
                                  THEN OpenDay(s, w).shifts[a] ELSE w.agents[a].shift]
    BY <1>1 DEF TheirRoster
  <2> QED
    BY <2>1, <2>2 DEF Person
<1> QED
  BY <1>1, <1>2, <1>3 DEF FollowsRoster

LEMMA QuietDay ==
    ASSUME NEW s \in Stores, NEW w \in Stores, ApplyRemoteState(s, w) = s,
           NEW d \in DOMAIN DatedSchedules(w), d \in DOMAIN DatedSchedules(s)
    PROVE  FollowsDay(s, w, d)
<1> DEFINE mine == DatedSchedules(s)[d]
           theirs == DatedSchedules(w)[d]
<1>1. CASE mine = theirs
  BY <1>1 DEF FollowsDay
<1>2. CASE mine # theirs /\ d # s.date
  <2>1. d \in Differing(s, w) \ {s.date}
    BY <1>2 DEF Differing
  <2>2. TheirDays(s, w)[d] = theirs
    BY <2>1 DEF TheirDays, With, Restrict
  <2>3. d \in DOMAIN s.days /\ mine = s.days[d]
    BY <1>2, DatedType
  <2> QED
    BY <1>2, <2>2, <2>3, NothingToTakeOver
<1>3. CASE mine # theirs /\ d = s.date
  <2>1. d \in Differing(s, w)
    BY <1>3 DEF Differing
  <2>2. OpenDay(s, w) = theirs
    BY <1>3, <2>1 DEF OpenDay
  <2>3. mine = Parked(s)
    BY <1>3, DatedType
  <2>4. mine.plan = theirs.plan
    BY <2>2, <2>3, NothingToTakeOver DEF Parked
  <2>5. mine.shifts = Shifts(s.agents)
    BY <2>3 DEF Parked
  <2>6. ASSUME NEW a \in DOMAIN mine.shifts
        PROVE  mine.shifts[a] = IF a \in DOMAIN theirs.shifts THEN theirs.shifts[a]
                                ELSE w.agents[a].shift
    <3>1. s.agents = TheirRoster(s, w)
      BY NothingToTakeOver
    <3>2. a \in DOMAIN w.agents /\ mine.shifts[a] = s.agents[a].shift
      BY <2>5, <3>1 DEF Shifts, TheirRoster
    <3>3. w.agents[a] \in Person
      BY <3>2, StoreParts, RosterMap
    <3>4. s.agents[a] = [w.agents[a] EXCEPT !.shift = IF a \in DOMAIN theirs.shifts
                                    THEN theirs.shifts[a] ELSE w.agents[a].shift]
      BY <2>2, <3>1, <3>2 DEF TheirRoster
    <3> HIDE DEF theirs, mine
    <3> QED
      BY <3>2, <3>3, <3>4 DEF Person
  <2> QED
    BY <2>4, <2>6 DEF FollowsDay
<1> QED
  BY <1>1, <1>2, <1>3

LEMMA QuietFollows ==
    ASSUME NEW s \in Stores, NEW w \in Stores, ApplyRemoteState(s, w) = s,
           NEW P, Keeps(s, P), Keeps(w, P)
    PROVE  Follows(s, w, P)
BY QuietRoster, QuietDay DEF Follows, Keeps

LEMMA FollowsItself ==
    ASSUME NEW w, NEW P
    PROVE  Follows(w, w, P)
BY DEF Follows, FollowsRoster, FollowsDay

-----------------------------------------------------------------------------
(* What a tab with store s, and the events box before it, has of the days  *)
(* P, when w was the last store saved that had them: not all of them, or   *)
(* w's by its own writing, or w's are to come, or it has nothing to take   *)
(* over from w.                                                            *)
Comes(box, P, w) ==
    /\ Keeps(w, P)
    /\ \E i \in DOMAIN box : /\ box[i] = w
                             /\ \A j \in DOMAIN box : j > i => ~ Keeps(box[j], P)
Settled(s, box, P, w) == Follows(s, w, P) /\ \A i \in DOMAIN box : ~ Keeps(box[i], P)
InStep(s, box, P, w) ==
    ~ Keeps(s, P) \/ s = w \/ Comes(box, P, w) \/ Settled(s, box, P, w)

LEMMA EventToCome ==
    ASSUME NEW s, NEW box \in Seq(Stores), NEW P, NEW w \in Stores, Keeps(w, P)
    PROVE  InStep(s, Append(box, w), P, w)
<1> DEFINE b == Append(box, w)
           i == Len(box) + 1
<1>1. /\ i \in DOMAIN b /\ b[i] = w
      /\ \A j \in DOMAIN b : ~ j > i
  OBVIOUS
<1> HIDE DEF b, i
<1>2. InStep(s, b, P, w)
  BY <1>1 DEF InStep, Comes
<1> QED
  BY <1>2 DEF b

LEMMA OtherEvent ==
    ASSUME NEW s, NEW box \in Seq(Stores), NEW P, NEW w, InStep(s, box, P, w),
           NEW x \in Stores, ~ Keeps(x, P)
    PROVE  InStep(s, Append(box, x), P, w)
<1> DEFINE b == Append(box, x)
<1>1. /\ DOMAIN box \subseteq DOMAIN b
      /\ \A j \in DOMAIN b : (j \in DOMAIN box /\ b[j] = box[j]) \/ b[j] = x
      /\ \A j \in DOMAIN box : b[j] = box[j]
  OBVIOUS
<1> SUFFICES InStep(s, b, P, w)
  OBVIOUS
<1> HIDE DEF b
<1>2. CASE ~ Keeps(s, P) \/ s = w
  BY <1>2 DEF InStep
<1>3. CASE Comes(box, P, w)
  <2> PICK i \in DOMAIN box : /\ box[i] = w
                             /\ \A j \in DOMAIN box : j > i => ~ Keeps(box[j], P)
    BY <1>3 DEF Comes
  <2>1. \A j \in DOMAIN b : j > i => ~ Keeps(b[j], P)
    BY <1>1, <1>3
  <2>2. i \in DOMAIN b /\ b[i] = w
    BY <1>1, <1>3
  <2> QED
    BY <1>3, <2>1, <2>2 DEF InStep, Comes
<1>4. CASE Settled(s, box, P, w)
  <2>1. \A i \in DOMAIN b : ~ Keeps(b[i], P)
    BY <1>1, <1>4 DEF Settled
  <2> QED
    BY <1>4, <2>1 DEF InStep, Settled
<1>5. ~ Keeps(s, P) \/ s = w \/ Comes(box, P, w) \/ Settled(s, box, P, w)
  BY DEF InStep
<1> QED
  BY <1>2, <1>3, <1>4, <1>5

LEMMA NothingTaken ==
    ASSUME NEW s \in Stores, NEW box \in Seq(Stores), box # <<>>, NEW P, NEW w \in Stores,
           InStep(s, box, P, w), ApplyRemoteState(s, Head(box)) = s
    PROVE  InStep(s, Tail(box), P, w)
<1> DEFINE b == Tail(box)
<1>1. /\ \A j \in DOMAIN b : j + 1 \in DOMAIN box /\ b[j] = box[j + 1]
      /\ \A j \in DOMAIN box : j \in Nat /\ (j = 1 \/ j - 1 \in DOMAIN b)
      /\ \A j \in DOMAIN b : j \in Nat /\ j > 0
      /\ 1 \in DOMAIN box /\ Head(box) = box[1]
  OBVIOUS
<1> SUFFICES InStep(s, b, P, w)
  OBVIOUS
<1> HIDE DEF b
<1>2. CASE ~ Keeps(s, P) \/ s = w
  BY <1>2 DEF InStep
<1>3. CASE Keeps(s, P) /\ Comes(box, P, w)
  <2> PICK i \in DOMAIN box : /\ box[i] = w
                             /\ \A j \in DOMAIN box : j > i => ~ Keeps(box[j], P)
    BY <1>3 DEF Comes
  <2>0. Keeps(w, P)
    BY <1>3 DEF Comes
  <2>1. CASE i = 1
    <3>1. Follows(s, w, P)
      BY <1>1, <1>3, <2>0, <2>1, QuietFollows
    <3>2. ASSUME NEW j \in DOMAIN b PROVE ~ Keeps(b[j], P)
      <4>1. j + 1 \in DOMAIN box /\ j + 1 > i /\ b[j] = box[j + 1]
        BY <1>1, <2>1
      <4> QED
        BY <1>3, <4>1
    <3> QED
      BY <3>1, <3>2 DEF InStep, Settled
  <2>2. CASE i # 1
    <3> DEFINE h == i - 1
    <3>1. h \in DOMAIN b /\ h \in Nat /\ h + 1 = i
      BY <1>1, <2>2
    <3> HIDE DEF h
    <3>2. b[h] = w
      BY <1>1, <1>3, <3>1
    <3>3. ASSUME NEW j \in DOMAIN b, j > h PROVE ~ Keeps(b[j], P)
      <4>1. j + 1 \in DOMAIN box /\ j + 1 > i /\ b[j] = box[j + 1]
        BY <1>1, <3>1, <3>3
      <4> QED
        BY <1>3, <4>1
    <3> QED
      BY <2>0, <3>1, <3>2, <3>3 DEF InStep, Comes
  <2> QED
    BY <2>1, <2>2
<1>4. CASE Settled(s, box, P, w)
  <2>1. \A i \in DOMAIN b : ~ Keeps(b[i], P)
    BY <1>1, <1>4 DEF Settled
  <2> QED
    BY <1>4, <2>1 DEF InStep, Settled
<1>5. ~ Keeps(s, P) \/ s = w \/ (Keeps(s, P) /\ Comes(box, P, w)) \/ Settled(s, box, P, w)
  BY DEF InStep
<1> QED
  BY <1>2, <1>3, <1>4, <1>5

-----------------------------------------------------------------------------
(* The types, as the proofs use them.                                      *)
TabsTyped ==
    /\ tabs \in [Tabs -> Stores] /\ inbox \in [Tabs -> Seq(Stores)] /\ saved \in Stores
    /\ today \in Dates /\ turns \in BOOLEAN
    /\ spent \in [{"edits", "opened", "reloads"} -> Nat]

LEMMA TypedIsTypeOK == TabsTyped => TabsTypeOK
<1> SUFFICES ASSUME TabsTyped PROVE TabsTypeOK
  OBVIOUS
<1> USE DEF TabsTyped
<1>1. ASSUME NEW t \in Tabs PROVE IsStore(tabs[t])
  BY StoreIsStore
<1>2. ASSUME NEW t \in Tabs, NEW i \in DOMAIN inbox[t] PROVE IsStore(inbox[t][i])
  <2>1. inbox[t][i] \in Stores
    OBVIOUS
  <2> QED
    BY <2>1, StoreIsStore
<1>3. IsStore(saved)
  BY StoreIsStore
<1> QED
  BY <1>1, <1>2, <1>3 DEF TabsTypeOK

LEMMA OpenedType == Opened \in Stores
<1>1. Roster \in Rosters
  BY TabsAssumption, IsPartialMap DEF Rosters
<1>2. Empty \in Slice /\ Empty \in Days /\ DOMAIN Empty = {}
  BY EmptyMap DEF Slice, Days
<1>3. NoPlan \in Plans
  BY <1>2 DEF NoPlan, Plans
<1>4. FirstDay \in Dates /\ OpenSwap \in ShiftSwap
  BY TabsAssumption
<1> QED
  BY <1>1, <1>2, <1>3, <1>4 DEF Opened, Stores

LEMMA InitTyped == TabsInit => TabsTyped
BY OpenedType, TabsAssumption DEF TabsInit, TabsTyped, Opened

(* A write leaves typed stores and events.                                 *)
LEMMA WriteTyped ==
    ASSUME TabsTyped, NEW t \in Tabs, NEW s \in Stores, NEW box \in [Tabs -> Seq(Stores)],
           Write(t, s, box)
    PROVE  /\ tabs' \in [Tabs -> Stores] /\ inbox' \in [Tabs -> Seq(Stores)]
           /\ saved' \in Stores
<1>1. ASSUME NEW u \in Tabs PROVE box[u] \in Seq(Stores) /\ Append(box[u], s) \in Seq(Stores)
  BY <1>1
<1>2. inbox' = [u \in Tabs |-> IF u # t /\ s # saved THEN Append(box[u], s) ELSE box[u]]
  BY DEF Write
<1>3. inbox' \in [Tabs -> Seq(Stores)]
  BY <1>1, <1>2
<1>4. tabs' = [tabs EXCEPT ![t] = s] /\ saved' = s
  BY DEF Write
<1> QED
  BY <1>3, <1>4 DEF TabsTyped

LEMMA SpendTyped ==
    ASSUME TabsTyped, NEW what \in {"edits", "opened", "reloads"}, Spend(what)
    PROVE  spent' \in [{"edits", "opened", "reloads"} -> Nat]
BY DEF TabsTyped, Spend

(* What any change of a user makes: of the open day and the roster, or of  *)
(* one other day.                                                          *)
EditsOneDay(s, r) ==
    r \in Edited(s) \/ \E d \in Dates, items \in DayPatches : r = ApplyDayPatches(s, d, items)

LEMMA TokenType == TabsTyped => Token \in Nat
BY DEF TabsTyped, Token

LEMMA PatchesType ==
    ASSUME TabsTyped, NEW a \in Agents, NEW patch \in Patches
    PROVE  Put(Empty, a, patch) \in DayPatches
<1>1. PICK sh \in {LongShift} \cup Times :
        patch = [shift |-> sh, breaks |-> {Token}, channels |-> {Token}, overtime |-> {},
                 activities |-> IF sh = LongShift THEN {Token} ELSE {}]
  BY DEF Patches
<1>2. {Token} \in Contents /\ {} \in Contents
  BY TokenType, ContentsMade
<1>3. patch \in DayPatch
  BY <1>1, <1>2 DEF DayPatch, Shift
<1>4. Empty \in DayPatches
  BY EmptyMap DEF DayPatches
<1> QED
  BY <1>3, <1>4, MapPut DEF DayPatches

LEMMA ShownType ==
    ASSUME TabsTyped, NEW t \in Tabs
    PROVE  Shown(t) = DOMAIN tabs[t].agents /\ Shown(t) \subseteq Agents /\ tabs[t] \in Stores
<1>1. tabs[t] \in Stores
  BY DEF TabsTyped
<1> QED
  BY <1>1, StoreParts, RosterMap DEF Shown

LEMMA ChangesEdit ==
    ASSUME TabsTyped, NEW t \in Tabs, Changes(t)
    PROVE  \E r \in Stores : EditsOneDay(tabs[t], r) /\ Change(t, r)
<1> DEFINE s == tabs[t]
           Goal == \E r \in Stores : EditsOneDay(s, r) /\ Change(t, r)
<1> SUFFICES Goal
  OBVIOUS
<1>0. /\ Shown(t) = DOMAIN s.agents /\ Shown(t) \subseteq Agents /\ s \in Stores
      /\ Token \in Nat
  BY ShownType, TokenType
<1>10. ASSUME NEW r \in Edited(s), Change(t, r) PROVE Goal
  BY <1>10 DEF EditsOneDay, Edited
<1> HIDE DEF s, Goal
<1>1. CASE EditDay(t)
  <2> PICK a \in Shown(t), patch \in Patches : Change(t, UpdateAgentDays(s, Put(Empty, a, patch)))
    BY <1>1 DEF EditDay, s
  <2>1. Put(Empty, a, patch) \in DayPatches
    BY <1>0, PatchesType
  <2>2. UpdateAgentDays(s, Put(Empty, a, patch)) \in Edited(s)
    BY <1>0, <2>1, UpdateAgentDaysType
  <2> QED
    BY <1>10, <2>2
<1>2. CASE EditAnyDay(t)
  <2> PICK a \in Shown(t), patch \in Patches, d \in Dates :
        Change(t, ApplyDayPatches(s, d, Put(Empty, a, patch)))
    BY <1>2 DEF EditAnyDay, s
  <2> DEFINE items == Put(Empty, a, patch)
             r == ApplyDayPatches(s, d, items)
  <2>1. items \in DayPatches
    BY <1>0, PatchesType
  <2> HIDE DEF items
  <2>2. r \in Stores
    BY <1>0, <2>1, ApplyDayPatchesType
  <2>3. EditsOneDay(s, r)
    BY <2>1 DEF EditsOneDay
  <2>4. Change(t, r)
    BY DEF items
  <2> QED
    BY <2>2, <2>3, <2>4 DEF Goal
<1>3. CASE AddOnDay(t)
  <2> PICK a \in Shown(t), sl \in {"overtime", "activities"} : Change(t, AddTo(s, sl, a, Token))
    BY <1>3 DEF AddOnDay, s
  <2>1. AddTo(s, sl, a, Token) \in Edited(s)
    BY <1>0, AddToType DEF Slices
  <2> QED
    BY <1>10, <2>1
<1>4. CASE ChangeActivity(t)
  <2> PICK a \in DOMAIN s.plan["activities"] :
        \E x \in s.plan["activities"][a] :
            Change(t, UpdateActivity(s, a, x, Token)) \/ Change(t, RemoveActivity(s, a, x))
    BY <1>4 DEF ChangeActivity, s
  <2> PICK x \in s.plan["activities"][a] :
        Change(t, UpdateActivity(s, a, x, Token)) \/ Change(t, RemoveActivity(s, a, x))
    OBVIOUS
  <2>1. a \in Agents
    <3>1. s.plan["activities"] \in Slice
      BY <1>0, StoreParts DEF Plans, Slices
    <3>2. IsPartial(s.plan["activities"], Agents, Contents)
      BY <3>1, PartialMap DEF Slice
    <3> QED
      BY <3>2 DEF IsPartial
  <2>2. UpdateActivity(s, a, x, Token) \in Edited(s)
    BY <1>0, <2>1, UpdateActivityType
  <2>3. RemoveActivity(s, a, x) \in Edited(s)
    BY <1>0, <2>1, RemoveActivityType
  <2> QED
    BY <1>10, <2>2, <2>3
<1>5. CASE PlanChannels(t)
  <2> PICK a \in Shown(t) :
        \/ \E o \in {{}, {Token}} : Change(t, SetAgentSchedule(s, a, {Token}, o))
        \/ Change(t, ResetAgentSchedule(s, a))
    BY <1>5 DEF PlanChannels, s
  <2>1. {Token} \in Contents /\ {} \in Contents /\ a \in Agents
    BY <1>0, ContentsMade
  <2>2. ASSUME NEW o \in {{}, {Token}} PROVE SetAgentSchedule(s, a, {Token}, o) \in Edited(s)
    BY <1>0, <2>1, SetAgentScheduleType
  <2>3. ResetAgentSchedule(s, a) \in Edited(s)
    BY <1>0, <2>1, ResetAgentScheduleType
  <2> QED
    BY <1>10, <2>2, <2>3
<1>6. CASE PlaceBreaks(t)
  <2> DEFINE f == [a \in Shown(t) |-> {Token}]
  <2>1. \/ Change(t, ApplyBreakOverrides(s, f)) \/ Change(t, ApplyBreakOverrides(s, Empty))
        \/ \E a \in Shown(t) : Change(t, ApplyBreakChange(s, a, Token))
    BY <1>6 DEF PlaceBreaks, s
  <2>2. Empty \in Slice
    BY EmptyMap DEF Slice
  <2>3. f \in Slice
    <3>1. f \in [Shown(t) -> Contents]
      BY <1>0, ContentsMade
    <3>2. Shown(t) \in SUBSET Agents
      BY <1>0
    <3> QED
      BY <3>1, <3>2, MapBuilt DEF Slice
  <2> HIDE DEF f
  <2>4. ApplyBreakOverrides(s, f) \in Edited(s) /\ ApplyBreakOverrides(s, Empty) \in Edited(s)
    BY <1>0, <2>2, <2>3, BreaksType
  <2>5. ASSUME NEW a \in Shown(t) PROVE ApplyBreakChange(s, a, Token) \in Edited(s)
    BY <1>0, BreaksType
  <2> QED
    BY <1>10, <2>1, <2>4, <2>5
<1>7. CASE Swap(t)
  <2>1. ASSUME NEW a \in Shown(t), NEW b \in Shown(t), NEW auto \in BOOLEAN
        PROVE  ProposeSwap(s, a, b, auto) \in Edited(s)
    BY <1>0, ProposeSwapType
  <2>2. ASSUME NEW status \in {"Approved", "Denied"} PROVE SetSwapStatus(s, status) \in Edited(s)
    BY <1>0, SetSwapStatusType
  <2>3. \/ \E a, b \in Shown(t), auto \in BOOLEAN : Change(t, ProposeSwap(s, a, b, auto))
        \/ \E status \in {"Approved", "Denied"} : Change(t, SetSwapStatus(s, status))
    BY <1>7 DEF Swap, s
  <2> QED
    BY <1>10, <2>1, <2>2, <2>3
<1>8. CASE SetRule(t)
  <2> PICK a \in Shown(t) :
        \/ \E p \in Patterns : Change(t, AssignWorkRule(s, a, p, {FirstDay + 1}))
        \/ Change(t, AssignWorkRule(s, a, NoPattern, {}))
        \/ Change(t, SetWeekOff(s, a, {}))
    BY <1>8 DEF SetRule, s
  <2>1. {FirstDay + 1} \in SUBSET Nat /\ {} \in SUBSET Nat
    BY TabsAssumption
  <2>2. ASSUME NEW p \in Patterns PROVE AssignWorkRule(s, a, p, {FirstDay + 1}) \in Edited(s)
    BY <1>0, <2>1, AssignWorkRuleType
  <2>3. AssignWorkRule(s, a, NoPattern, {}) \in Edited(s)
    BY <1>0, <2>1, AssignWorkRuleType
  <2>4. SetWeekOff(s, a, {}) \in Edited(s)
    BY <1>0, <2>1, SetWeekOffType
  <2> QED
    BY <1>10, <2>2, <2>3, <2>4
<1>9. CASE Staff(t)
  <2>1. \/ \E a \in Agents \ Shown(t), p \in Patterns : Change(t, AddAgent(s, a, p))
        \/ \E a \in Shown(t) : Change(t, DeleteEmployee(s, a))
    BY <1>9 DEF Staff, s
  <2>2. ASSUME NEW a \in Agents, NEW p \in Patterns PROVE AddAgent(s, a, p) \in Edited(s)
    BY <1>0, AddAgentType
  <2>3. ASSUME NEW a PROVE DeleteEmployee(s, a) \in Edited(s)
    BY <1>0, DeleteEmployeeType
  <2> QED
    BY <1>10, <2>1, <2>2, <2>3
<1> QED
  BY <1>1, <1>2, <1>3, <1>4, <1>5, <1>6, <1>7, <1>8, <1>9 DEF Changes

-----------------------------------------------------------------------------
(* What a step does to the stores and the events: a tab writes, or drops an*)
(* event that has nothing to take over, or nothing happens to them.        *)
Writes(t) ==
    \E s \in Stores : \E box \in [Tabs -> Seq(Stores)] :
        (\A u \in Tabs : u # t => box[u] = inbox[u]) /\ Write(t, s, box)
NothingNew(t) ==
    /\ inbox[t] # <<>> /\ ApplyRemoteState(tabs[t], Head(inbox[t])) = tabs[t]
    /\ inbox' = [inbox EXCEPT ![t] = Tail(@)] /\ UNCHANGED <<tabs, saved>>
Untouched == UNCHANGED <<tabs, saved, inbox>>

LEMMA WritesOwn ==
    ASSUME TabsTyped, NEW t \in Tabs, NEW s \in Stores, NEW b \in Seq(Stores),
           Write(t, s, [inbox EXCEPT ![t] = b])
    PROVE  Writes(t)
<1> DEFINE box == [inbox EXCEPT ![t] = b]
<1>1. box \in [Tabs -> Seq(Stores)] /\ \A u \in Tabs : u # t => box[u] = inbox[u]
  BY DEF TabsTyped
<1>2. Write(t, s, box)
  OBVIOUS
<1> HIDE DEF box
<1> QED
  BY <1>1, <1>2 DEF Writes

LEMMA WritesInbox ==
    ASSUME TabsTyped, NEW t \in Tabs, NEW s \in Stores, Write(t, s, inbox)
    PROVE  Writes(t)
<1>1. inbox \in [Tabs -> Seq(Stores)] /\ \A u \in Tabs : u # t => inbox[u] = inbox[u]
  BY DEF TabsTyped
<1> QED
  BY <1>1 DEF Writes

LEMMA TakenOver ==
    ASSUME TabsTyped, NEW t \in Tabs, TakeOver(t)
    PROVE  Writes(t) \/ NothingNew(t)
<1> DEFINE s == ApplyRemoteState(tabs[t], Head(inbox[t]))
<1>1. inbox[t] \in Seq(Stores) /\ inbox[t] # <<>>
  BY DEF TabsTyped, TakeOver
<1>2. Head(inbox[t]) \in Stores /\ Tail(inbox[t]) \in Seq(Stores)
  BY <1>1
<1>3. s \in Stores
  BY <1>2, ApplyRemoteStateType DEF TabsTyped
<1>4. \/ /\ s = tabs[t] /\ inbox' = [inbox EXCEPT ![t] = Tail(@)] /\ UNCHANGED <<tabs, saved>>
      \/ Write(t, s, [inbox EXCEPT ![t] = Tail(inbox[t])])
  BY DEF TakeOver
<1> HIDE DEF s
<1>5. CASE Write(t, s, [inbox EXCEPT ![t] = Tail(inbox[t])])
  BY <1>2, <1>3, <1>5, WritesOwn
<1>6. CASE s = tabs[t] /\ inbox' = [inbox EXCEPT ![t] = Tail(@)] /\ UNCHANGED <<tabs, saved>>
  BY <1>1, <1>6 DEF NothingNew, s
<1> QED
  BY <1>4, <1>5, <1>6

LEMMA TabSteps ==
    ASSUME TabsTyped, [TabsNext]_tabVars
    PROVE  (\E t \in Tabs : Writes(t) \/ NothingNew(t)) \/ Untouched
<1>1. ASSUME NEW t \in Tabs, Changes(t) PROVE Writes(t)
  <2> PICK r \in Stores : EditsOneDay(tabs[t], r) /\ Change(t, r)
    BY <1>1, ChangesEdit
  <2>1. Write(t, r, inbox)
    BY DEF Change
  <2> QED
    BY <2>1, WritesInbox
<1>2. ASSUME NEW t \in Tabs, Reload(t) PROVE Writes(t)
  <2> DEFINE s == SetScheduleDate(saved, today, today)
  <2>1. s \in Stores
    BY SetScheduleDateType DEF TabsTyped
  <2>2. Write(t, s, [inbox EXCEPT ![t] = <<>>]) /\ <<>> \in Seq(Stores)
    BY <1>2 DEF Reload
  <2> HIDE DEF s
  <2> QED
    BY <2>1, <2>2, WritesOwn
<1>3. ASSUME NEW t \in Tabs, NEW d \in Dates, Switch(t, d) PROVE Writes(t)
  <2> DEFINE s == SetScheduleDate(tabs[t], d, today)
  <2>1. s \in Stores
    BY SetScheduleDateType DEF TabsTyped
  <2>2. Write(t, s, inbox)
    BY <1>3 DEF Switch
  <2> HIDE DEF s
  <2> QED
    BY <2>1, <2>2, WritesInbox
<1>4. CASE Midnight \/ UNCHANGED tabVars
  BY <1>4 DEF Midnight, tabVars, Untouched
<1> QED
  BY <1>1, <1>2, <1>3, <1>4, TakenOver DEF TabsNext

LEMMA CountersTyped ==
    ASSUME TabsTyped, [TabsNext]_tabVars
    PROVE  /\ today' \in Dates /\ turns' \in BOOLEAN
           /\ spent' \in [{"edits", "opened", "reloads"} -> Nat]
<1> DEFINE Goal == /\ today' \in Dates /\ turns' \in BOOLEAN
                   /\ spent' \in [{"edits", "opened", "reloads"} -> Nat]
<1>0. /\ today \in Dates /\ turns \in BOOLEAN /\ (turns /\ Quiet) \in BOOLEAN
      /\ spent \in [{"edits", "opened", "reloads"} -> Nat]
  BY DEF TabsTyped
<1> SUFFICES Goal
  OBVIOUS
<1>1. ASSUME NEW what \in {"edits", "opened", "reloads"}, Spend(what),
             turns' = (turns /\ Quiet), UNCHANGED today
      PROVE  Goal
  BY <1>0, <1>1, SpendTyped
<1>2. CASE UNCHANGED <<turns, spent>> /\ today' \in Dates
  BY <1>0, <1>2
<1> HIDE DEF Goal
<1>3. ASSUME NEW t \in Tabs, Changes(t) PROVE Goal
  <2> PICK r \in Stores : EditsOneDay(tabs[t], r) /\ Change(t, r)
    BY <1>3, ChangesEdit
  <2> QED
    BY <1>1 DEF Change
<1>4. ASSUME NEW t \in Tabs, TakeOver(t) PROVE Goal
  BY <1>0, <1>2, <1>4 DEF TakeOver
<1>5. ASSUME NEW t \in Tabs, Reload(t) PROVE Goal
  BY <1>1, <1>5 DEF Reload
<1>6. ASSUME NEW t \in Tabs, NEW d \in Dates, Switch(t, d) PROVE Goal
  BY <1>1, <1>6 DEF Switch
<1>7. CASE Midnight \/ UNCHANGED tabVars
  BY <1>0, <1>2, <1>7 DEF Midnight, tabVars
<1> QED
  BY <1>3, <1>4, <1>5, <1>6, <1>7 DEF TabsNext

LEMMA StepTyped == TabsTyped /\ [TabsNext]_tabVars => TabsTyped'
<1> SUFFICES ASSUME TabsTyped, [TabsNext]_tabVars PROVE TabsTyped'
  OBVIOUS
<1> DEFINE Goal == /\ tabs' \in [Tabs -> Stores] /\ inbox' \in [Tabs -> Seq(Stores)]
                   /\ saved' \in Stores
<1>1. ASSUME NEW t \in Tabs, Writes(t) PROVE Goal
  BY <1>1, WriteTyped DEF Writes
<1>2. ASSUME NEW t \in Tabs, NothingNew(t) PROVE Goal
  <2>1. inbox[t] \in Seq(Stores) /\ inbox[t] # <<>>
    BY <1>2 DEF TabsTyped, NothingNew
  <2>2. Tail(inbox[t]) \in Seq(Stores)
    BY <2>1
  <2> QED
    BY <1>2, <2>2 DEF TabsTyped, NothingNew
<1>3. ASSUME Untouched PROVE Goal
  <2>1. tabs' = tabs /\ saved' = saved /\ inbox' = inbox
    BY <1>3 DEF Untouched
  <2> QED
    BY <2>1 DEF TabsTyped
<1> HIDE DEF Goal
<1>4. Goal
  BY <1>1, <1>2, <1>3, TabSteps
<1> QED
  BY <1>4, CountersTyped DEF TabsTyped, Goal

(* Every tab's store, what is saved and every event on its way are stores: *)
(* the open day is never parked too, whatever is edited, opened, reloaded  *)
(* or taken over (wfm.ts:1266-1331, crossTabSync.ts:47-92).                *)
THEOREM TabsTypeCorrect == TabsSpec => []TabsTypeOK
<1>1. TabsSpec => []TabsTyped
  BY InitTyped, StepTyped, PTL DEF TabsSpec
<1> QED
  BY <1>1, TypedIsTypeOK, PTL

-----------------------------------------------------------------------------
(* w is the last store saved that had the days P: what is saved, if that   *)
(* has them, and every tab is in step with it.                             *)
LastSaved(P, w) ==
    /\ Keeps(saved, P) => saved = w
    /\ \A t \in Tabs : InStep(tabs[t], inbox[t], P, w)

(* QuietTabsAgree is not inductive: while events are on their way, every   *)
(* tab must be in step with the last store saved that had the days they    *)
(* both keep; no days at all, for the roster.                              *)
InStepInv == \A P \in SUBSET Dates : \E w \in Stores : LastSaved(P, w)

(* A tab that writes leaves the others what it wrote, or, when it has not  *)
(* got the days P, what they had.                                          *)
LEMMA WriteInStep ==
    ASSUME TabsTyped, NEW t \in Tabs, Writes(t),
           NEW P, NEW w \in Stores, LastSaved(P, w)
    PROVE  \E x \in Stores : LastSaved(P, x)'
<1> PICK s \in Stores : \E box \in [Tabs -> Seq(Stores)] :
        (\A u \in Tabs : u # t => box[u] = inbox[u]) /\ Write(t, s, box)
  BY DEF Writes
<1> PICK box \in [Tabs -> Seq(Stores)] :
        (\A u \in Tabs : u # t => box[u] = inbox[u]) /\ Write(t, s, box)
  OBVIOUS
<1>1. /\ saved' = s /\ tabs'[t] = s
      /\ \A u \in Tabs : u # t =>
             /\ tabs'[u] = tabs[u]
             /\ inbox'[u] = IF s # saved THEN Append(inbox[u], s) ELSE inbox[u]
  BY DEF TabsTyped, Write
<1>2. /\ Keeps(saved, P) => saved = w
      /\ \A u \in Tabs : InStep(tabs[u], inbox[u], P, w) /\ inbox[u] \in Seq(Stores)
  BY DEF LastSaved, TabsTyped
<1>3. CASE Keeps(s, P)
  <2>1. InStep(tabs'[t], inbox'[t], P, s)
    BY <1>1 DEF InStep
  <2>2. ASSUME NEW u \in Tabs, u # t PROVE InStep(tabs'[u], inbox'[u], P, s)
    <3>1. CASE s # saved
      <4>1. inbox'[u] = Append(inbox[u], s) /\ inbox[u] \in Seq(Stores)
        BY <1>1, <1>2, <2>2, <3>1
      <4>2. InStep(tabs'[u], Append(inbox[u], s), P, s)
        BY <1>3, <4>1, EventToCome
      <4> QED
        BY <4>1, <4>2
    <3>2. CASE s = saved
      <4>1. s = w /\ inbox'[u] = inbox[u] /\ tabs'[u] = tabs[u]
        BY <1>1, <1>2, <1>3, <2>2, <3>2
      <4> QED
        BY <1>2, <4>1
    <3> QED
      BY <3>1, <3>2
  <2>3. LastSaved(P, s)'
    BY <1>1, <2>1, <2>2 DEF LastSaved
  <2> QED
    BY <2>3
<1>4. CASE ~ Keeps(s, P)
  <2>1. InStep(tabs'[t], inbox'[t], P, w)
    BY <1>1, <1>4 DEF InStep
  <2>2. ASSUME NEW u \in Tabs, u # t PROVE InStep(tabs'[u], inbox'[u], P, w)
    <3>1. InStep(tabs[u], inbox[u], P, w) /\ inbox[u] \in Seq(Stores)
      BY <1>2
    <3>2. InStep(tabs[u], Append(inbox[u], s), P, w)
      BY <1>4, <3>1, OtherEvent
    <3>3. tabs'[u] = tabs[u] /\ (inbox'[u] = Append(inbox[u], s) \/ inbox'[u] = inbox[u])
      BY <1>1, <2>2
    <3> QED
      BY <3>1, <3>2, <3>3
  <2>3. LastSaved(P, w)'
    BY <1>1, <1>4, <2>1, <2>2 DEF LastSaved
  <2> QED
    BY <2>3
<1> QED
  BY <1>3, <1>4

LEMMA NothingNewInStep ==
    ASSUME TabsTyped, NEW t \in Tabs, NothingNew(t),
           NEW P, NEW w \in Stores, LastSaved(P, w)
    PROVE  LastSaved(P, w)'
<1>1. /\ saved' = saved /\ tabs' = tabs
      /\ inbox'[t] = Tail(inbox[t]) /\ \A u \in Tabs : u # t => inbox'[u] = inbox[u]
  BY DEF TabsTyped, NothingNew
<1>2. /\ Keeps(saved, P) => saved = w
      /\ \A u \in Tabs : InStep(tabs[u], inbox[u], P, w)
  BY DEF LastSaved
<1>3. InStep(tabs[t], Tail(inbox[t]), P, w)
  <2>1. tabs[t] \in Stores /\ inbox[t] \in Seq(Stores)
    BY DEF TabsTyped
  <2>2. inbox[t] # <<>> /\ ApplyRemoteState(tabs[t], Head(inbox[t])) = tabs[t]
    BY DEF NothingNew
  <2> QED
    BY <1>2, <2>1, <2>2, NothingTaken
<1>4. \A u \in Tabs : InStep(tabs'[u], inbox'[u], P, w)
  BY <1>1, <1>2, <1>3
<1> QED
  BY <1>1, <1>2, <1>4 DEF LastSaved

LEMMA InitInStep == TabsInit => InStepInv
<1> SUFFICES ASSUME TabsInit, NEW P \in SUBSET Dates PROVE \E w \in Stores : LastSaved(P, w)
  BY DEF InStepInv
<1>1. saved = Opened /\ \A t \in Tabs : tabs[t] = Opened
  BY DEF TabsInit
<1>2. LastSaved(P, Opened)
  BY <1>1 DEF LastSaved, InStep
<1> QED
  BY <1>2, OpenedType

LEMMA StepInStep == TabsTyped /\ InStepInv /\ [TabsNext]_tabVars => InStepInv'
<1> SUFFICES ASSUME TabsTyped, InStepInv, [TabsNext]_tabVars, NEW P \in SUBSET Dates
             PROVE  \E w \in Stores : LastSaved(P, w)'
  BY DEF InStepInv
<1> PICK w \in Stores : LastSaved(P, w)
  BY DEF InStepInv
<1>1. ASSUME NEW t \in Tabs, Writes(t) PROVE \E x \in Stores : LastSaved(P, x)'
  BY <1>1, WriteInStep
<1>2. ASSUME NEW t \in Tabs, NothingNew(t) PROVE \E x \in Stores : LastSaved(P, x)'
  BY <1>2, NothingNewInStep
<1>3. CASE Untouched
  <2>1. LastSaved(P, w)'
    BY <1>3 DEF Untouched, LastSaved
  <2> QED
    BY <2>1
<1> QED
  BY <1>1, <1>2, <1>3, TabSteps

(* At rest, who keeps the days P follows the last store that had them.     *)
LEMMA AtRest ==
    ASSUME TabsTyped, Quiet, NEW P, NEW w \in Stores, LastSaved(P, w),
           NEW t \in Tabs, Keeps(tabs[t], P)
    PROVE  Follows(tabs[t], w, P)
<1>1. InStep(tabs[t], <<>>, P, w)
  BY DEF LastSaved, Quiet
<1>2. ~ Comes(<<>>, P, w)
  BY DEF Comes
<1>3. tabs[t] = w \/ Settled(tabs[t], <<>>, P, w)
  BY <1>1, <1>2 DEF InStep
<1> QED
  BY <1>3, FollowsItself DEF Settled

(* How a day is shown, for whom its store has a shift.                     *)
LEMMA DayShown ==
    ASSUME NEW s \in Stores, NEW d \in DOMAIN DatedSchedules(s)
    PROVE  /\ ScheduleForDate(s, d).plan = DatedSchedules(s)[d].plan
           /\ \A a \in Listed(s, d) :
                  ScheduleForDate(s, d).agents[a].shift = DatedSchedules(s)[d].shifts[a]
<1>1. CASE d = s.date
  <2>1. DatedSchedules(s)[d] = Parked(s)
    BY <1>1, DatedType
  <2>2. ScheduleForDate(s, d) = [agents |-> s.agents, plan |-> s.plan]
    BY <1>1 DEF ScheduleForDate
  <2> QED
    BY <2>1, <2>2 DEF Parked, Shifts, Listed
<1>2. CASE d # s.date
  <2>1. d \in DOMAIN s.days /\ DatedSchedules(s)[d] = s.days[d]
    BY <1>2, DatedType
  <2> DEFINE f == s.days[d].shifts
             g == OnShifts(s.agents, f, BaseShiftFor)
  <2>2. ScheduleForDate(s, d).agents = g /\ ScheduleForDate(s, d).plan = s.days[d].plan
    BY <1>2, <2>1 DEF ScheduleForDate
  <2>3. ASSUME NEW a \in Listed(s, d) PROVE g[a].shift = f[a]
    <3>1. a \in DOMAIN s.agents /\ a \in DOMAIN f
      BY <2>1 DEF Listed
    <3>2. s.agents[a] \in Person
      BY <3>1, StoreParts, RosterMap
    <3> HIDE DEF f
    <3>3. g[a] = [s.agents[a] EXCEPT !.shift = f[a]]
      BY <3>1 DEF OnShifts
    <3> QED
      BY <3>2, <3>3 DEF Person
  <2> HIDE DEF f, g
  <2>4. DatedSchedules(s)[d].shifts = f
    BY <2>1 DEF f
  <2> QED
    BY <2>1, <2>2, <2>3, <2>4
<1> QED
  BY <1>1, <1>2

(* Two stores that follow a third agree.                                   *)
LEMMA RostersAgree ==
    ASSUME NEW s \in Stores, NEW r \in Stores, NEW w, FollowsRoster(s, w), FollowsRoster(r, w)
    PROVE  /\ s.swap = r.swap
           /\ [a \in DOMAIN s.agents |-> [s.agents[a] EXCEPT !.shift = "any"]]
                = [a \in DOMAIN r.agents |-> [r.agents[a] EXCEPT !.shift = "any"]]
<1> DEFINE D == DOMAIN s.agents
           x(a) == [s.agents[a] EXCEPT !.shift = "any"]
           y(a) == [r.agents[a] EXCEPT !.shift = "any"]
<1>1. s.swap = r.swap /\ D = DOMAIN r.agents
  BY DEF FollowsRoster
<1>2. ASSUME NEW a \in D PROVE x(a) = y(a)
  <2>1. s.agents[a] \in Person /\ r.agents[a] \in Person
    BY <1>1, StoreParts, RosterMap
  <2>2. s.agents[a].pattern = r.agents[a].pattern /\ s.agents[a].off = r.agents[a].off
    BY <1>1 DEF FollowsRoster
  <2> QED
    BY <2>1, <2>2 DEF Person
<1> HIDE DEF x, y
<1>3. [a \in D |-> x(a)] = [a \in DOMAIN r.agents |-> y(a)]
  BY <1>1, <1>2
<1> QED
  BY <1>1, <1>3 DEF x, y

LEMMA DaysAgree ==
    ASSUME NEW s \in Stores, NEW r \in Stores, NEW w, NEW d,
           FollowsRoster(s, w), FollowsRoster(r, w), FollowsDay(s, w, d), FollowsDay(r, w, d),
           d \in DOMAIN DatedSchedules(s), d \in DOMAIN DatedSchedules(r)
    PROVE  /\ ScheduleForDate(s, d).plan = ScheduleForDate(r, d).plan
           /\ \A a \in Listed(s, d) \cap Listed(r, d) :
                  ScheduleForDate(s, d).agents[a].shift = ScheduleForDate(r, d).agents[a].shift
<1>1. DatedSchedules(s)[d].plan = DatedSchedules(r)[d].plan
  BY DEF FollowsDay
<1>2. ASSUME NEW a \in Listed(s, d) \cap Listed(r, d)
      PROVE  DatedSchedules(s)[d].shifts[a] = DatedSchedules(r)[d].shifts[a]
  BY DEF FollowsDay, Listed
<1> QED
  BY <1>1, <1>2, DayShown

LEMMA InStepAgree == TabsTyped /\ InStepInv => QuietTabsAgree
<1> SUFFICES ASSUME TabsTyped, InStepInv, Quiet, NEW t \in Tabs, NEW u \in Tabs
             PROVE  Agree(tabs[t], tabs[u])
  BY DEF QuietTabsAgree
<1> DEFINE s == tabs[t]
           r == tabs[u]
<1>1. s \in Stores /\ r \in Stores
  BY DEF TabsTyped
<1>2. PICK w \in Stores : LastSaved({}, w)
  BY DEF InStepInv
<1>3. FollowsRoster(s, w) /\ FollowsRoster(r, w)
  <2>1. Keeps(s, {}) /\ Keeps(r, {})
    BY DEF Keeps
  <2>2. Follows(s, w, {}) /\ Follows(r, w, {})
    BY <1>2, <2>1, AtRest
  <2> QED
    BY <2>2 DEF Follows
<1>4. ASSUME NEW d \in DOMAIN DatedSchedules(s) \cap DOMAIN DatedSchedules(r)
      PROVE  /\ ScheduleForDate(s, d).plan = ScheduleForDate(r, d).plan
             /\ \A a \in Listed(s, d) \cap Listed(r, d) :
                    ScheduleForDate(s, d).agents[a].shift = ScheduleForDate(r, d).agents[a].shift
  <2>1. {d} \in SUBSET Dates
    <3> HIDE DEF s, r
    <3>1. DOMAIN DatedSchedules(s) = DOMAIN s.days \cup {s.date}
      BY <1>1, DatedType
    <3>2. s.date \in Dates /\ \A e \in DOMAIN s.days : e \in Dates
      BY <1>1, StoreParts, DayParts
    <3> QED
      BY <3>1, <3>2
  <2>2. PICK x \in Stores : LastSaved({d}, x)
    BY <2>1 DEF InStepInv
  <2>3. Keeps(s, {d}) /\ Keeps(r, {d})
    BY DEF Keeps
  <2>4. Follows(s, x, {d}) /\ Follows(r, x, {d})
    BY <2>2, <2>3, AtRest
  <2>5. /\ FollowsRoster(s, x) /\ FollowsRoster(r, x)
        /\ FollowsDay(s, x, d) /\ FollowsDay(r, x, d)
    BY <2>4 DEF Follows
  <2> HIDE DEF s, r
  <2> QED
    BY <1>1, <2>5, DaysAgree
<1> HIDE DEF s, r
<1>5. /\ s.swap = r.swap
      /\ [a \in DOMAIN s.agents |-> [s.agents[a] EXCEPT !.shift = "any"]]
           = [a \in DOMAIN r.agents |-> [r.agents[a] EXCEPT !.shift = "any"]]
  BY <1>1, <1>3, RostersAgree
<1>6. Agree(s, r)
  BY <1>4, <1>5 DEF Agree
<1> QED
  BY <1>6 DEF s, r

(* Whatever the tabs do, and however late the events arrive, tabs with no  *)
(* event on its way have the same roster and show the same schedule of the *)
(* days they both keep (crossTabSync.ts:1-8, 47-92).                       *)
THEOREM TabsAgreeAtRest == TabsSpec => []QuietTabsAgree
<1>1. TabsSpec => []TabsTyped
  BY InitTyped, StepTyped, PTL DEF TabsSpec
<1>2. TabsSpec => []InStepInv
  BY <1>1, InitInStep, StepInStep, PTL DEF TabsSpec
<1> QED
  BY <1>1, <1>2, InStepAgree, PTL

-----------------------------------------------------------------------------
(* What a store shows of one person on one day *)

LEMMA OpenDayOf ==
    ASSUME NEW s, NEW d, d = s.date, NEW a
    PROVE  DayOf(s, d, a) = [shift |-> s.agents[a].shift,
                             plan |-> [sl \in Slices |-> Entry(s.plan[sl], a)]]
BY DEF DayOf, ScheduleForDate

(* The roster on a day that is not open.                                   *)
OnDay(g, f) == OnShifts(g, f, BaseShiftFor)

LEMMA ShiftOn ==
    ASSUME NEW g \in Rosters, NEW f, NEW a \in DOMAIN g
    PROVE  /\ DOMAIN OnDay(g, f) = DOMAIN g
           /\ OnDay(g, f)[a].shift = IF a \in DOMAIN f THEN f[a] ELSE BaseShiftFor(g[a])
           /\ OnDay(g, f)[a].off = g[a].off
<1> DEFINE sh == IF a \in DOMAIN f THEN f[a] ELSE BaseShiftFor(g[a])
<1>1. g[a] \in Person
  BY RosterMap
<1>2. DOMAIN OnDay(g, f) = DOMAIN g /\ OnDay(g, f)[a] = [g[a] EXCEPT !.shift = sh]
  BY DEF OnDay, OnShifts
<1> SUFFICES OnDay(g, f)[a].shift = sh /\ OnDay(g, f)[a].off = g[a].off
  BY <1>2
<1> HIDE DEF sh
<1> QED
  BY <1>1, <1>2 DEF Person

LEMMA ParkedDayOf ==
    ASSUME NEW s \in Stores, NEW d \in DOMAIN s.days, NEW a \in DOMAIN s.agents
    PROVE  DayOf(s, d, a) =
             [shift |-> IF a \in DOMAIN s.days[d].shifts THEN s.days[d].shifts[a]
                        ELSE BaseShiftFor(s.agents[a]),
              plan |-> [sl \in Slices |-> Entry(s.days[d].plan[sl], a)]]
<1> DEFINE f == s.days[d].shifts
           g == OnDay(s.agents, f)
<1>1. ScheduleForDate(s, d).agents = g /\ ScheduleForDate(s, d).plan = s.days[d].plan
  BY StoreParts DEF ScheduleForDate, OnDay
<1>0. s.agents \in Rosters
  BY StoreParts
<1> HIDE DEF f
<1>2. g[a].shift = IF a \in DOMAIN f THEN f[a] ELSE BaseShiftFor(s.agents[a])
  BY <1>0, ShiftOn
<1> HIDE DEF g
<1>3. DayOf(s, d, a) = [shift |-> IF a \in DOMAIN f THEN f[a] ELSE BaseShiftFor(s.agents[a]),
                        plan |-> [sl \in Slices |-> Entry(s.days[d].plan[sl], a)]]
  BY <1>1, <1>2 DEF DayOf
<1> QED
  BY <1>3 DEF f

LEMMA UnseenDayOf ==
    ASSUME NEW s \in Stores, NEW d, d # s.date, d \notin DOMAIN s.days,
           NEW a \in DOMAIN s.agents
    PROVE  DayOf(s, d, a) =
             [shift |-> BaseShiftFor(s.agents[a]),
              plan |-> [sl \in Slices |-> IF sl = "activities" /\ d \in s.agents[a].off
                                          THEN {WeekOff} ELSE {}]]
<1> DEFINE g == OnDay(s.agents, Empty)
           f == WeekOffActivities(g, d)
           p == [NoPlan EXCEPT !["activities"] = f]
<1>0. DOMAIN Empty = {} /\ s.agents \in Rosters
  BY StoreParts DEF Empty
<1>1. ScheduleForDate(s, d).agents = g /\ ScheduleForDate(s, d).plan = p
  BY DEF ScheduleForDate, OnDay
<1>2. /\ DOMAIN g = DOMAIN s.agents /\ g[a].shift = BaseShiftFor(s.agents[a])
      /\ g[a].off = s.agents[a].off
  BY <1>0, ShiftOn
<1> HIDE DEF g
<1>3. Entry(f, a) = IF d \in s.agents[a].off THEN {WeekOff} ELSE {}
  BY <1>2 DEF WeekOffActivities, Entry
<1> HIDE DEF f
<1>4. ASSUME NEW sl \in Slices
      PROVE  Entry(p[sl], a) = IF sl = "activities" /\ d \in s.agents[a].off
                               THEN {WeekOff} ELSE {}
  <2>1. p[sl] = IF sl = "activities" THEN f ELSE Empty
    BY DEF NoPlan, Slices
  <2>2. Entry(Empty, a) = {}
    BY <1>0 DEF Entry
  <2> QED
    BY <1>3, <2>1, <2>2
<1> HIDE DEF p
<1> QED
  BY <1>1, <1>2, <1>4 DEF DayOf

(* A day that is open in neither of two stores, and parked alike.          *)
ParkedAlike(s, r, d) ==
    /\ d # s.date /\ d # r.date
    /\ d \in DOMAIN s.days <=> d \in DOMAIN r.days
    /\ d \in DOMAIN s.days => s.days[d] = r.days[d]

LEMMA StableShift ==
    ASSUME NEW s, NEW r, NEW a, Stable(s, r, a)
    PROVE  /\ BaseShiftFor(s.agents[a]) = BaseShiftFor(r.agents[a])
           /\ s.agents[a].off = r.agents[a].off
           /\ a \in DOMAIN s.agents /\ a \in DOMAIN r.agents
BY DEF Stable, BaseShiftFor

LEMMA AlikeStays ==
    ASSUME NEW s \in Stores, NEW r \in Stores, NEW d, ParkedAlike(s, r, d),
           NEW a, Stable(s, r, a)
    PROVE  DayOf(s, d, a) = DayOf(r, d, a)
<1>1. CASE d \in DOMAIN s.days
  <2>1. d \in DOMAIN r.days /\ s.days[d] = r.days[d]
    BY <1>1 DEF ParkedAlike
  <2> QED
    BY <1>1, <2>1, StableShift, ParkedDayOf
<1>2. CASE d \notin DOMAIN s.days
  <2>1. d \notin DOMAIN r.days /\ d # s.date /\ d # r.date
    BY <1>2 DEF ParkedAlike
  <2> QED
    <3>1. /\ a \in DOMAIN s.agents /\ a \in DOMAIN r.agents
          /\ BaseShiftFor(s.agents[a]) = BaseShiftFor(r.agents[a])
          /\ s.agents[a].off = r.agents[a].off
      BY StableShift
    <3>2. DayOf(s, d, a) =
             [shift |-> BaseShiftFor(s.agents[a]),
              plan |-> [sl \in Slices |-> IF sl = "activities" /\ d \in s.agents[a].off
                                          THEN {WeekOff} ELSE {}]]
      BY <1>2, <2>1, <3>1, UnseenDayOf
    <3>3. DayOf(r, d, a) =
             [shift |-> BaseShiftFor(r.agents[a]),
              plan |-> [sl \in Slices |-> IF sl = "activities" /\ d \in r.agents[a].off
                                          THEN {WeekOff} ELSE {}]]
      BY <2>1, <3>1, UnseenDayOf
    <3> QED
      BY <3>1, <3>2, <3>3
<1> QED
  BY <1>1, <1>2

LEMMA OneMoves ==
    ASSUME NEW s, NEW r, NEW day, NEW x,
           \A d \in Dates : \A a \in Agents :
               d # x /\ Stable(s, r, a) => DayOf(s, d, a) = DayOf(r, d, a)
    PROVE  Cardinality(Moved(s, r, day)) \in Nat /\ Cardinality(Moved(s, r, day)) <= 1
<1>1. Moved(s, r, day) \in SUBSET {x}
  BY DEF Moved
<1>2. IsFiniteSet({x}) /\ Cardinality({x}) = 1
  BY FS_Singleton
<1> QED
  BY <1>1, <1>2, FS_Subset, FS_CardinalityType

LEMMA NoneMoves ==
    ASSUME NEW s, NEW r, NEW day,
           \A d \in Dates : \A a \in Agents :
               d + KeepPast >= day /\ Stable(s, r, a) => DayOf(s, d, a) = DayOf(r, d, a)
    PROVE  Cardinality(Moved(s, r, day)) = 0
<1>1. Moved(s, r, day) = {}
  BY DEF Moved
<1> QED
  BY <1>1, FS_EmptySet

(* An edit touches one day at most.                                        *)
LEMMA EditMovesOne ==
    ASSUME NEW s \in Stores, NEW r \in Stores, EditsOneDay(s, r), NEW day
    PROVE  Cardinality(Moved(s, r, day)) \in Nat /\ Cardinality(Moved(s, r, day)) <= 1
<1>1. CASE r \in Edited(s)
  <2>1. ASSUME NEW d, d # s.date PROVE ParkedAlike(s, r, d)
    BY <1>1, <2>1 DEF Edited, ParkedAlike
  <2>2. \A d \in Dates : \A a \in Agents :
            d # s.date /\ Stable(s, r, a) => DayOf(s, d, a) = DayOf(r, d, a)
    BY <2>1, AlikeStays
  <2> QED
    BY <2>2, OneMoves
<1>2. CASE \E x \in Dates, items \in DayPatches : r = ApplyDayPatches(s, x, items)
  <2> PICK x \in Dates, items \in DayPatches : r = ApplyDayPatches(s, x, items)
    BY <1>2
  <2>1. CASE x = s.date
    BY <1>1, <2>1, UpdateAgentDaysType DEF ApplyDayPatches
  <2>2. CASE x # s.date
    <3> DEFINE p == Parked(DayPatchSlices(ScheduleForDate(s, x), items))
    <3>1. r = [s EXCEPT !.days = Put(@, x, p)]
      BY <2>2 DEF ApplyDayPatches
    <3> HIDE DEF p
    <3>2. r.date = s.date /\ r.agents = s.agents /\ r.plan = s.plan /\ r.days = Put(s.days, x, p)
      BY <3>1 DEF Stores
    <3>3. ASSUME NEW d, d # x, d # s.date PROVE ParkedAlike(s, r, d)
      BY <3>2, <3>3 DEF ParkedAlike, Put
    <3>4. ASSUME NEW a PROVE DayOf(s, s.date, a) = DayOf(r, s.date, a)
      <4>1. DayOf(s, s.date, a) = [shift |-> s.agents[a].shift,
                                   plan |-> [sl \in Slices |-> Entry(s.plan[sl], a)]]
        BY OpenDayOf
      <4>2. DayOf(r, s.date, a) = [shift |-> r.agents[a].shift,
                                   plan |-> [sl \in Slices |-> Entry(r.plan[sl], a)]]
        BY <3>2, OpenDayOf
      <4> QED
        BY <3>2, <4>1, <4>2
    <3>5. \A d \in Dates : \A a \in Agents :
              d # x /\ Stable(s, r, a) => DayOf(s, d, a) = DayOf(r, d, a)
      BY <3>3, <3>4, AlikeStays
    <3> QED
      BY <3>5, OneMoves
  <2> QED
    BY <2>1, <2>2
<1> QED
  BY <1>1, <1>2 DEF EditsOneDay

(* Opening another day moves none that is kept.                            *)
LEMMA OpeningMovesNone ==
    ASSUME NEW s \in Stores, NEW x \in Dates, x # s.date, NEW day
    PROVE  Cardinality(Moved(s, SetScheduleDate(s, x, day), day)) = 0
<1> DEFINE r == SetScheduleDate(s, x, day)
           next == ScheduleForDate(s, x)
           kept == DatedSchedules(s)
           K == {d \in DOMAIN kept : d # x /\ d + KeepPast >= day}
<1>0. r \in Stores
  BY SetScheduleDateType
<1>1. r = [s EXCEPT !.date = x, !.agents = next.agents, !.plan = next.plan,
                    !.days = Restrict(kept, K)]
  BY DEF SetScheduleDate, DatedSchedules
<1> HIDE DEF r, next
<1>2. /\ r.date = x /\ r.agents = next.agents /\ r.plan = next.plan
      /\ DOMAIN r.days = K /\ \A d \in K : r.days[d] = kept[d]
  BY <1>1 DEF Stores, Restrict
<1>3. ASSUME NEW a \in Agents PROVE DayOf(s, x, a) = DayOf(r, x, a)
  <2>1. DayOf(r, x, a) = [shift |-> r.agents[a].shift,
                          plan |-> [sl \in Slices |-> Entry(r.plan[sl], a)]]
    BY <1>2, OpenDayOf
  <2> QED
    BY <1>2, <2>1 DEF DayOf, next
<1>4. ASSUME NEW d, d # x, d + KeepPast >= day, d = s.date, NEW a \in Agents, Stable(s, r, a)
      PROVE  DayOf(s, d, a) = DayOf(r, d, a)
  <2>1. d \in DOMAIN r.days /\ r.days[d] = Parked(s)
    BY <1>2, <1>4, DatedType
  <2>2. a \in DOMAIN s.agents /\ a \in DOMAIN r.agents
    BY <1>4, StableShift
  <2>3. DayOf(r, d, a) = [shift |-> s.agents[a].shift,
                          plan |-> [sl \in Slices |-> Entry(s.plan[sl], a)]]
    BY <1>0, <2>1, <2>2, ParkedDayOf DEF Parked, Shifts
  <2> QED
    BY <1>4, <2>3, OpenDayOf
<1>5. ASSUME NEW d, d # x, d + KeepPast >= day, d # s.date PROVE ParkedAlike(s, r, d)
  <2>1. d \in DOMAIN kept <=> d \in DOMAIN s.days
    <3>1. DOMAIN kept = DOMAIN s.days \cup {s.date}
      BY DatedType
    <3> HIDE DEF kept
    <3> QED
      BY <1>5, <3>1
  <2>2. d \in DOMAIN s.days => kept[d] = s.days[d]
    BY DatedType
  <2>3. d \in K <=> d \in DOMAIN kept
    BY <1>5
  <2> HIDE DEF kept, K
  <2> QED
    BY <1>2, <1>5, <2>1, <2>2, <2>3 DEF ParkedAlike
<1>6. \A d \in Dates : \A a \in Agents :
          d + KeepPast >= day /\ Stable(s, r, a) => DayOf(s, d, a) = DayOf(r, d, a)
  <2> HIDE DEF kept, K
  <2> QED
    BY <1>0, <1>3, <1>4, <1>5, AlikeStays
<1>7. Cardinality(Moved(s, r, day)) = 0
  BY <1>6, NoneMoves
<1> QED
  BY <1>7 DEF r

(* What OneDayAtATime says of a step, for one tab.                         *)
OneDayMoves(t) ==
    spent'.edits + spent'.opened # spent.edits + spent.opened
        => Cardinality(Moved(tabs[t], tabs'[t], today')) <= spent'.edits - spent.edits

LEMMA SpentMore ==
    ASSUME TabsTyped
    PROVE  /\ Spend("edits") => spent'.edits = spent.edits + 1
           /\ Spend("opened") => spent'.edits = spent.edits
           /\ Spend("reloads") => spent'.edits = spent.edits /\ spent'.opened = spent.opened
           /\ spent.edits \in Nat /\ spent.opened \in Nat
BY DEF TabsTyped, Spend

(* A tab whose store is not written shows what it showed.                  *)
LEMMA UnchangedMovesNone ==
    ASSUME NEW s, NEW day
    PROVE  Cardinality(Moved(s, s, day)) = 0
BY NoneMoves

LEMMA EditsMoveOne ==
    ASSUME TabsTyped, NEW t \in Tabs, Changes(t), NEW u \in Tabs
    PROVE  OneDayMoves(u)
<1> PICK r \in Stores : EditsOneDay(tabs[t], r) /\ Change(t, r)
  BY ChangesEdit
<1> DEFINE n == Cardinality(Moved(tabs[u], tabs'[u], today'))
<1>1. tabs' = [tabs EXCEPT ![t] = r] /\ Spend("edits")
  BY DEF Change, Write
<1>2. tabs[u] \in Stores /\ tabs[t] \in Stores
      /\ (u # t => tabs'[u] = tabs[u]) /\ tabs'[t] = r
  BY <1>1 DEF TabsTyped
<1>3. CASE u = t
  <2>1. Cardinality(Moved(tabs[t], r, today')) \in Nat
        /\ Cardinality(Moved(tabs[t], r, today')) <= 1
    BY <1>2, EditMovesOne
  <2>2. n \in Nat /\ n <= 1
    BY <1>2, <1>3, <2>1
  <2> QED
    BY <1>1, <2>2, SpentMore DEF OneDayMoves
<1>4. CASE u # t
  <2>1. n = 0
    BY <1>2, <1>4, UnchangedMovesNone
  <2> QED
    BY <1>1, <2>1, SpentMore DEF OneDayMoves
<1> QED
  BY <1>3, <1>4

LEMMA SwitchMovesNone ==
    ASSUME TabsTyped, NEW t \in Tabs, NEW d \in Dates, Switch(t, d), NEW u \in Tabs
    PROVE  OneDayMoves(u)
<1> DEFINE r == SetScheduleDate(tabs[t], d, today)
           n == Cardinality(Moved(tabs[u], tabs'[u], today'))
<1>1. /\ tabs' = [tabs EXCEPT ![t] = r] /\ Spend("opened") /\ today' = today
      /\ d # tabs[t].date
  BY DEF Switch, Write
<1> HIDE DEF r
<1>2. /\ tabs[t] \in Stores /\ (u # t => tabs'[u] = tabs[u]) /\ tabs'[t] = r
  BY <1>1 DEF TabsTyped
<1>3. CASE u = t
  <2>1. Cardinality(Moved(tabs[t], r, today)) = 0
    BY <1>1, <1>2, OpeningMovesNone DEF r
  <2>2. n = 0
    BY <1>1, <1>2, <1>3, <2>1
  <2> QED
    BY <1>1, <2>2, SpentMore DEF OneDayMoves
<1>4. CASE u # t
  <2>1. n = 0
    BY <1>2, <1>4, UnchangedMovesNone
  <2> QED
    BY <1>1, <2>1, SpentMore DEF OneDayMoves
<1> QED
  BY <1>3, <1>4

LEMMA StepMovesOne ==
    ASSUME TabsTyped, [TabsNext]_tabVars, NEW u \in Tabs
    PROVE  OneDayMoves(u)
<1>1. ASSUME NEW t \in Tabs, Changes(t) PROVE OneDayMoves(u)
  BY <1>1, EditsMoveOne
<1>2. ASSUME NEW t \in Tabs, TakeOver(t) PROVE OneDayMoves(u)
  BY <1>2 DEF TakeOver, OneDayMoves
<1>3. ASSUME NEW t \in Tabs, Reload(t) PROVE OneDayMoves(u)
  BY <1>3, SpentMore DEF Reload, OneDayMoves
<1>4. ASSUME NEW t \in Tabs, NEW d \in Dates, Switch(t, d) PROVE OneDayMoves(u)
  BY <1>4, SwitchMovesNone
<1>5. CASE Midnight \/ UNCHANGED tabVars
  BY <1>5 DEF Midnight, tabVars, OneDayMoves
<1> QED
  BY <1>1, <1>2, <1>3, <1>4, <1>5 DEF TabsNext

(* Whatever a user edits, no tab shows any other day differently, nor does *)
(* opening a day change what any of them shows of one (wfm.ts:241-283,     *)
(* 1266-1331).                                                             *)
THEOREM EditsMoveOneDay == TabsSpec => OneDayAtATime
<1>1. TabsSpec => []TabsTyped
  BY InitTyped, StepTyped, PTL DEF TabsSpec
<1>2. TabsTyped /\ [TabsNext]_tabVars
        => [\A t \in Tabs :
                LET s == tabs[t]
                    r == tabs'[t]
                IN  spent'.edits + spent'.opened # spent.edits + spent.opened
                        => Cardinality(Moved(s, r, today')) <= spent'.edits - spent.edits]_tabVars
  BY StepMovesOne DEF OneDayMoves
<1> QED
  BY <1>1, <1>2, PTL DEF TabsSpec, OneDayAtATime
=============================================================================
